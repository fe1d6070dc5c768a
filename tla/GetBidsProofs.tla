---------------------------- MODULE GetBidsProofs ----------------------------
(* Proofs about GetBids, for any requests and deployments: the request is     *)
(* finished once and after its last task, unless the missing client of the V2 *)
(* lookup ends it early, and OK is the answer only if a task did answer.      *)
(* Without TrackBids there is nothing to wait for; after it the tracker's     *)
(* pending tasks are exactly those that have still to report.                 *)
EXTENDS GetBids, TaskCountersProofs

(***************************************************************************)
(* The inductive invariant.                                                *)
(***************************************************************************)
\* The tasks GetNumberOfMaximumBiddingCalls counts, and those yet to report.
Tracked ==
    {t \in Task :
        \/ /\ t = "PA" /\ conf.audience
           /\ {request.buyerInput, request.forBidding} \cap Groups # {}
        \/ t = "PAS" /\ conf.appSignals /\ request.pas # "absent"}
Owed == {t \in Tracked : rpc[t] \notin TaskStatus}

\* No task is tracked: before TrackBids, after a rejection, or for chaff.
NothingTracked ==
    /\ \A t \in Task : rpc[t] = "none"
    /\ chain = "bids"
    /\ \/ exec = "execute" /\ finishes = <<>> /\ delay = "none" /\ ~deleted
       \/ /\ exec = "returned" /\ delay = "none"
          /\ Len(finishes) = 1 /\ finishes # <<"OK">>
       \/ exec = "returned" /\ delay = "armed" /\ finishes = <<>>
       \/ exec = "returned" /\ delay = "done" /\ Len(finishes) = 1

\* The counters of the tracker tell what the tasks have reported.
CountsTell ==
    \A s \in TaskStatus : tracker.count[s] > 0 <=> \E t \in Task : rpc[t] = s

\* The request was finished by its last task or by the missing client.
FinishedByTasks ==
    /\ chain = "bids" => tracker.pending > 0 /\ finishes # <<"OK">>
    /\ chain # "bids" => tracker.pending = 0
    /\ chain = "bids" /\ rpc["PA"] # "abandoned" => finishes = <<>>
    /\ chain = "bidsDone" => finishes = <<>>
    /\ chain = "ended" /\ finishes = <<"OK">> =>
           \E t \in Task : rpc[t] \in {"SUCCESS", "EMPTY_RESPONSE"}

\* What the handler's thread is to start has not been started.
HandlerOK ==
    /\ exec # "execute"
    /\ exec = "audience" => "PA" \in Tracked /\ rpc["PA"] = "none"
    /\ GetsSignalsBids /\ exec \in {"audience", "signals"} => rpc["PAS"] = "none"
    /\ exec = "signals" => GetsSignalsBids

BidsTracked ==
    /\ HandlerOK /\ delay = "none" /\ Tracked # {}
    /\ \A t \in Task \ Tracked : rpc[t] = "none"
    /\ tracker.pending = Cardinality(Owed)
    /\ CountsTell /\ FinishedByTasks

\* Only a cancelled request has cancelled tasks; no task is skipped.
ReportsAreTrue ==
    \A t \in Task : rpc[t] # "SKIPPED" /\ (rpc[t] = "CANCELLED" => Cancelled)

IInv ==
    /\ TypeOK /\ ReportsAreTrue
    /\ NothingTracked \/ BidsTracked
    /\ Len(finishes) <= 1
    /\ deleted => finishes # <<>> /\ exec = "returned"

(***************************************************************************)
(* A task reports, or goes on.                                             *)
(***************************************************************************)
\* There are two tasks.
LEMMA TwoTasks == IsFiniteSet(Task)
<1>1. Task = {"PA"} \cup {"PAS"}
  BY DEF Task
<1>2. IsFiniteSet({"PA"})
  BY FS_Singleton
<1>3. IsFiniteSet({"PA"} \cup {"PAS"})
  BY <1>2, FS_AddElement
<1> QED
  BY <1>1, <1>3

\* The tasks that have still to report are finitely many.
LEMMA OwedIsFinite ==
    /\ IsFiniteSet(Owed) /\ Cardinality(Owed) \in Nat
    /\ Cardinality(Owed) = 0 <=> Owed = {}
<1>1. IsFiniteSet(Task)
  BY TwoTasks
<1>2. Owed \in SUBSET Task
  BY DEF Owed, Tracked
<1> QED
  BY <1>1, <1>2, FiniteSubset

\* The same after a step.
LEMMA OwedAfterIsFinite ==
    Cardinality(Owed') = 0 <=> Owed' = {}
<1>1. IsFiniteSet(Task)
  BY TwoTasks
<1>2. Owed' \in SUBSET Task
  BY DEF Owed, Tracked
<1> QED
  BY <1>1, <1>2, FiniteSubset

\* A tracked task that has not reported is one of the pending tasks, so the last
\* callback has not been called.
LEMMA StillPending ==
    ASSUME TypeOK, BidsTracked, NEW t \in Tracked, rpc[t] \notin TaskStatus
    PROVE  /\ t \in Owed /\ tracker.pending > 0 /\ chain = "bids"
           /\ rpc["PA"] # "abandoned" => finishes = <<>>
<1>1. t \in Owed
  BY DEF Owed
<1>2. tracker.pending > 0
  BY <1>1, OwedIsFinite DEF BidsTracked
<1> QED
  BY <1>1, <1>2 DEF BidsTracked, FinishedByTasks

\* A callback reports the outcome of its task to the tracker.
LEMMA ReportKeeps ==
    ASSUME IInv, BidsTracked, NEW t \in Tracked, rpc[t] \notin TaskStatus,
           rpc[t] # "abandoned",
           NEW s \in TaskStatus, s # "SKIPPED", s = "CANCELLED" => Cancelled,
           TaskCompleted(t, s), HandlerOK',
           UNCHANGED <<const, delay, finishes, cancelled, deleted>>,
           exec' \in {"audience", "signals", "returned"}, logging' \in BOOLEAN,
           exec = "returned" => exec' = "returned"
    PROVE  IInv'
<1> USE DEF const
<1>1. /\ rpc \in [Task -> {"none", "lost", "abandoned"} \cup InFlight \cup TaskStatus]
      /\ tracker \in Trackers /\ tracker.pending \in Nat /\ t \in Task
  BY DEF IInv, TypeOK, Trackers, Tracked
<1>2. /\ t \in Owed /\ tracker.pending > 0 /\ chain = "bids"
      /\ rpc["PA"] # "abandoned" => finishes = <<>>
  BY StillPending DEF IInv
<1>3. /\ rpc' = [rpc EXCEPT ![t] = s] /\ tracker' = Counted(tracker, s)
      /\ chain' = IF tracker'.pending = 0 THEN "bidsDone" ELSE chain
  BY DEF TaskCompleted
<1>4. /\ rpc' \in [Task -> {"none", "lost", "abandoned"} \cup InFlight \cup TaskStatus]
      /\ rpc'[t] = s /\ \A u \in Task \ {t} : rpc'[u] = rpc[u]
  BY <1>1, <1>3
<1>5. /\ tracker' \in Trackers /\ tracker'.pending = tracker.pending - 1
      /\ \A r \in TaskStatus :
            tracker'.count[r] = IF r = s THEN tracker.count[r] + 1 ELSE tracker.count[r]
  BY <1>1, <1>2, <1>3, CountedFields
<1>6. TypeOK'
  BY <1>2, <1>3, <1>4, <1>5 DEF IInv, TypeOK
<1>7. ReportsAreTrue'
  BY <1>4 DEF IInv, ReportsAreTrue, Cancelled
<1>8. Tracked' = Tracked
  BY DEF Tracked
<1>9. tracker'.pending = Cardinality(Owed')
  <2>1. Owed' = Owed \ {t}
    BY <1>4, <1>8 DEF Owed, Tracked
  <2>2. Cardinality(Owed \ {t}) = Cardinality(Owed) - 1
    BY <1>2, OwedIsFinite, FS_RemoveElement
  <2> QED
    BY <1>5, <2>1, <2>2 DEF BidsTracked
<1>10. CountsTell'
  <2> SUFFICES ASSUME NEW r \in TaskStatus
               PROVE  tracker'.count[r] > 0 <=> \E u \in Task : rpc'[u] = r
    BY DEF CountsTell
  <2>1. tracker.count[r] \in Nat /\ (tracker.count[r] > 0 <=> \E u \in Task : rpc[u] = r)
    BY <1>1 DEF BidsTracked, CountsTell, Trackers
  <2>2. CASE r = s
    BY <1>1, <1>4, <1>5, <2>1, <2>2
  <2>3. CASE r # s
    <3>1. (\E u \in Task : rpc'[u] = r) <=> \E u \in Task : rpc[u] = r
      BY <1>1, <1>4, <2>3
    <3> QED
      BY <1>5, <2>1, <2>3, <3>1
  <2> QED
    BY <2>2, <2>3
<1>11. FinishedByTasks'
  <2>1. tracker'.pending \in Nat
    BY <1>5 DEF Trackers
  <2>2. CASE tracker'.pending = 0
    <3>1. Owed' = {}
      BY <1>9, <2>2, OwedAfterIsFinite
    <3>2. rpc["PA"] # "abandoned"
      <4>1. CASE "PA" \in Tracked
        <5>1. rpc'["PA"] \in TaskStatus
          BY <1>8, <3>1, <4>1 DEF Owed
        <5> QED
          BY <1>4, <5>1 DEF TaskStatus, Task
      <4>2. CASE "PA" \notin Tracked
        BY <4>2 DEF BidsTracked, Task
      <4> QED
        BY <4>1, <4>2
    <3> QED
      BY <1>2, <1>3, <2>2, <3>2 DEF FinishedByTasks
  <2>3. CASE tracker'.pending # 0
    <3>1. rpc'["PA"] # "abandoned" => rpc["PA"] # "abandoned"
      BY <1>4 DEF Task
    <3>2. finishes # <<"OK">> /\ chain' = "bids"
      BY <1>2, <1>3, <2>3 DEF BidsTracked, FinishedByTasks
    <3> QED
      BY <1>2, <2>1, <2>3, <3>1, <3>2 DEF FinishedByTasks
  <2> QED
    BY <2>2, <2>3
<1>12. BidsTracked'
  <2>1. \A u \in Task \ Tracked' : rpc'[u] = "none"
    BY <1>4, <1>8 DEF BidsTracked
  <2> QED
    BY <1>8, <1>9, <1>10, <1>11, <2>1 DEF BidsTracked
<1> QED
  BY <1>6, <1>7, <1>12 DEF IInv

\* A task goes on to its next call, or is dropped; the missing client finishes the
\* request as it abandons the task.
LEMMA ProceedKeeps ==
    ASSUME IInv, BidsTracked, NEW t \in Tracked, rpc[t] \notin TaskStatus,
           rpc[t] # "abandoned",
           NEW to \in {"lost", "abandoned"} \cup InFlight, Proceed(t, to), HandlerOK',
           \/ to # "abandoned" /\ finishes' = finishes
           \/ to = "abandoned" /\ t = "PA" /\ FinishWithStatus("INTERNAL"),
           UNCHANGED <<const, delay, cancelled, deleted>>,
           exec' \in {"audience", "signals", "returned"}, logging' \in BOOLEAN,
           exec = "returned" => exec' = "returned"
    PROVE  IInv'
<1> USE DEF const
<1>1. /\ rpc \in [Task -> {"none", "lost", "abandoned"} \cup InFlight \cup TaskStatus]
      /\ t \in Task /\ finishes \in Seq({"OK", "CANCELLED", "INVALID_ARGUMENT", "INTERNAL"})
  BY DEF IInv, TypeOK, Tracked
<1>2. /\ t \in Owed /\ tracker.pending > 0 /\ chain = "bids"
      /\ rpc["PA"] # "abandoned" => finishes = <<>>
  BY StillPending DEF IInv
<1>3. rpc' = [rpc EXCEPT ![t] = to] /\ tracker' = tracker /\ chain' = chain
  BY DEF Proceed
<1>4. /\ rpc' \in [Task -> {"none", "lost", "abandoned"} \cup InFlight \cup TaskStatus]
      /\ rpc'[t] = to /\ \A u \in Task \ {t} : rpc'[u] = rpc[u]
  BY <1>1, <1>3
<1>5. to \notin TaskStatus
  BY DEF InFlight, TaskStatus
<1>6. /\ finishes' \in Seq({"OK", "CANCELLED", "INVALID_ARGUMENT", "INTERNAL"})
      /\ Len(finishes') <= 1 /\ (finishes # <<>> => finishes' # <<>>)
      /\ finishes' # <<"OK">>
      /\ rpc'["PA"] # "abandoned" => finishes' = <<>>
  <2>1. CASE to # "abandoned" /\ finishes' = finishes
    <3>1. rpc'["PA"] # "abandoned" => rpc["PA"] # "abandoned"
      BY <1>4 DEF Task
    <3>2. finishes # <<"OK">>
      BY <1>2 DEF BidsTracked, FinishedByTasks
    <3> QED
      BY <1>1, <1>2, <2>1, <3>1, <3>2 DEF IInv
  <2>2. CASE to = "abandoned" /\ t = "PA" /\ FinishWithStatus("INTERNAL")
    <3>1. finishes = <<>>
      BY <1>2, <2>2
    <3>2. finishes' = <<"INTERNAL">>
      BY <2>2, <3>1 DEF FinishWithStatus
    <3>3. finishes' # <<"OK">>
      BY <3>2
    <3> QED
      BY <1>4, <2>2, <3>1, <3>2, <3>3
  <2> QED
    BY <2>1, <2>2
<1>7. TypeOK'
  BY <1>3, <1>4, <1>6 DEF IInv, TypeOK
<1>8. ReportsAreTrue'
  BY <1>4, <1>5 DEF IInv, ReportsAreTrue, Cancelled, TaskStatus
<1>9. Tracked' = Tracked
  BY DEF Tracked
<1>10. Owed' = Owed
  BY <1>2, <1>4, <1>5, <1>9 DEF Owed, Tracked
<1>11. CountsTell'
  <2> SUFFICES ASSUME NEW r \in TaskStatus
               PROVE  tracker'.count[r] > 0 <=> \E u \in Task : rpc'[u] = r
    BY DEF CountsTell
  <2>1. tracker.count[r] > 0 <=> \E u \in Task : rpc[u] = r
    BY DEF BidsTracked, CountsTell
  <2>2. (\E u \in Task : rpc'[u] = r) <=> \E u \in Task : rpc[u] = r
    BY <1>1, <1>4, <1>5
  <2> QED
    BY <1>3, <2>1, <2>2
<1>12. FinishedByTasks'
  BY <1>2, <1>3, <1>6 DEF FinishedByTasks
<1>13. BidsTracked'
  <2>1. \A u \in Task \ Tracked' : rpc'[u] = "none"
    BY <1>4, <1>9 DEF BidsTracked
  <2> QED
    BY <1>3, <1>9, <1>10, <1>11, <1>12, <2>1 DEF BidsTracked
<1>14. deleted' => finishes' # <<>> /\ exec' = "returned"
  BY <1>6 DEF IInv
<1> QED
  BY <1>6, <1>7, <1>8, <1>13, <1>14 DEF IInv

\* A task that is under way has been tracked and started.
LEMMA UnderWay ==
    ASSUME IInv, NEW t \in Task, rpc[t] \in InFlight
    PROVE  /\ BidsTracked /\ t \in Tracked
           /\ rpc[t] \notin TaskStatus /\ rpc[t] # "abandoned" /\ rpc[t] # "none"
<1>1. rpc[t] \notin TaskStatus /\ rpc[t] # "abandoned" /\ rpc[t] # "none"
  BY DEF InFlight, TaskStatus
<1> QED
  BY <1>1 DEF IInv, NothingTracked, BidsTracked

\* What the handler has still to start stays so when another task goes on.
LEMMA HandlerStaysOK ==
    ASSUME TypeOK, BidsTracked, NEW t \in Tracked, rpc[t] # "none",
           UNCHANGED <<const, exec>>, NEW new, rpc' = [rpc EXCEPT ![t] = new]
    PROVE  HandlerOK' /\ exec' \in {"audience", "signals", "returned"}
<1> USE DEF const
<1>1. Tracked' = Tracked /\ (GetsSignalsBids' <=> GetsSignalsBids)
  BY DEF Tracked, GetsSignalsBids
<1>2. \A u \in Task : rpc[u] = "none" => rpc'[u] = "none"
  BY DEF TypeOK
<1>3. "PA" \in Task /\ "PAS" \in Task
  BY DEF Task
<1> QED
  BY <1>1, <1>2, <1>3 DEF BidsTracked, HandlerOK, TypeOK

\* A callback that reports the outcome of its task, and one that goes on.
LEMMA CallbackReports ==
    ASSUME IInv, NEW t \in Task, rpc[t] \in InFlight,
           NEW s \in {"ERROR", "EMPTY_RESPONSE", "SUCCESS", "CANCELLED"},
           s = "CANCELLED" => Cancelled, TaskCompleted(t, s),
           UNCHANGED <<const, exec, delay, finishes, cancelled, deleted>>,
           logging' \in BOOLEAN
    PROVE  IInv'
<1>1. /\ BidsTracked /\ t \in Tracked
      /\ rpc[t] \notin TaskStatus /\ rpc[t] # "abandoned" /\ rpc[t] # "none"
  BY UnderWay
<1>2. s \in TaskStatus /\ s # "SKIPPED"
  BY DEF TaskStatus
<1>3. HandlerOK' /\ exec' \in {"audience", "signals", "returned"}
  BY <1>1, HandlerStaysOK DEF TaskCompleted, IInv
<1> QED
  BY <1>1, <1>2, <1>3, ReportKeeps

\* A callback that goes on with its own request leaves the other alone.
LEMMA CallbackProceeds ==
    ASSUME IInv, NEW t \in Task, rpc[t] \in InFlight,
           NEW to \in {"lost", "abandoned"} \cup InFlight, Proceed(t, to),
           \/ to # "abandoned" /\ finishes' = finishes
           \/ to = "abandoned" /\ t = "PA" /\ FinishWithStatus("INTERNAL"),
           UNCHANGED <<const, exec, delay, cancelled, deleted>>, logging' \in BOOLEAN
    PROVE  IInv'
<1>1. /\ BidsTracked /\ t \in Tracked
      /\ rpc[t] \notin TaskStatus /\ rpc[t] # "abandoned" /\ rpc[t] # "none"
  BY UnderWay
<1>2. HandlerOK' /\ exec' \in {"audience", "signals", "returned"}
  BY <1>1, HandlerStaysOK DEF Proceed, IInv
<1> QED
  BY <1>1, <1>2, ProceedKeeps

(***************************************************************************)
(* The handler's thread.                                                   *)
(***************************************************************************)
\* The handler starts a task, which may report at once.
HandlerGoesOn(t, to) ==
    /\ exec' = to
    /\ UNCHANGED <<const, delay, logging, cancelled, deleted>>
    /\ \/ /\ \E next \in {"lost"} \cup InFlight : Proceed(t, next)
          /\ UNCHANGED finishes
       \/ t = "PA" /\ Proceed(t, "abandoned") /\ FinishWithStatus("INTERNAL")
       \/ TaskCompleted(t, "ERROR") /\ UNCHANGED finishes

\* The handler that sends a request for bids, or cannot, goes on to the next.
LEMMA HandlerKeeps ==
    ASSUME IInv, exec # "returned", NEW to \in {"signals", "returned"},
           NEW t \in Tracked, rpc[t] = "none", BidsTracked, HandlerGoesOn(t, to),
           to = "signals" => t = "PA" /\ GetsSignalsBids /\ rpc["PAS"] = "none"
    PROVE  IInv'
<1> USE DEF const
<1>1. /\ exec' = to /\ UNCHANGED <<const, delay, logging, cancelled, deleted>>
      /\ logging' \in BOOLEAN /\ exec' \in {"audience", "signals", "returned"}
  BY DEF HandlerGoesOn, IInv, TypeOK
<1>2. /\ rpc[t] \notin TaskStatus /\ rpc[t] # "abandoned" /\ t \in Task
      /\ rpc \in [Task -> {"none", "lost", "abandoned"} \cup InFlight \cup TaskStatus]
  BY DEF TaskStatus, Tracked, IInv, TypeOK
<1>3. Tracked' = Tracked /\ (GetsSignalsBids' <=> GetsSignalsBids)
  BY <1>1 DEF Tracked, GetsSignalsBids
<1>4. ASSUME NEW new, rpc' = [rpc EXCEPT ![t] = new] PROVE HandlerOK'
  <2>1. to = "signals" => rpc'["PAS"] = "none"
    BY <1>2, <1>4 DEF Task
  <2> QED
    BY <1>1, <1>3, <2>1 DEF HandlerOK
<1>5. ASSUME NEW next \in {"lost"} \cup InFlight, Proceed(t, next), UNCHANGED finishes
      PROVE  IInv'
  <2>1. HandlerOK'
    BY <1>4, <1>5 DEF Proceed
  <2>2. next # "abandoned" /\ next \in {"lost", "abandoned"} \cup InFlight
    BY DEF InFlight
  <2> QED
    BY <1>1, <1>2, <1>5, <2>1, <2>2, ProceedKeeps
<1>6. CASE t = "PA" /\ Proceed(t, "abandoned") /\ FinishWithStatus("INTERNAL")
  <2>1. HandlerOK'
    BY <1>4, <1>6 DEF Proceed
  <2> QED
    BY <1>1, <1>2, <1>6, <2>1, ProceedKeeps
<1>7. CASE TaskCompleted(t, "ERROR") /\ UNCHANGED finishes
  <2>1. HandlerOK'
    BY <1>4, <1>7 DEF TaskCompleted
  <2>2. "ERROR" \in TaskStatus
    BY DEF TaskStatus
  <2> QED
    BY <1>1, <1>2, <1>7, <2>1, <2>2, ReportKeeps
<1> QED
  BY <1>5, <1>6, <1>7 DEF HandlerGoesOn

\* GetProtectedAudienceBids.
LEMMA GetProtectedAudienceBidsKeeps ==
    ASSUME IInv, GetProtectedAudienceBids PROVE IInv'
<1> DEFINE to == IF GetsSignalsBids THEN "signals" ELSE "returned"
<1>1. /\ exec = "audience" /\ exec' = to
      /\ UNCHANGED <<const, delay, logging, cancelled, deleted>>
  BY DEF GetProtectedAudienceBids
<1>2. BidsTracked /\ "PA" \in Tracked /\ rpc["PA"] = "none"
  BY <1>1 DEF IInv, NothingTracked, BidsTracked, HandlerOK
<1>3. GetsSignalsBids => rpc["PAS"] = "none"
  BY <1>1, <1>2 DEF BidsTracked, HandlerOK
<1>4. \/ /\ \E next \in {"lost"} \cup InFlight : Proceed("PA", next)
         /\ UNCHANGED finishes
      \/ Proceed("PA", "abandoned") /\ FinishWithStatus("INTERNAL")
      \/ TaskCompleted("PA", "ERROR") /\ UNCHANGED finishes
  BY DEF GetProtectedAudienceBids, StartV2Lookup, InFlight
<1>5. HandlerGoesOn("PA", to)
  BY <1>1, <1>4 DEF HandlerGoesOn
<1> QED
  BY <1>1, <1>2, <1>3, <1>5, HandlerKeeps

\* GetProtectedSignalsBids, after it in the same thread.
LEMMA GetProtectedSignalsBidsKeeps ==
    ASSUME IInv, GetProtectedSignalsBids PROVE IInv'
<1>1. /\ exec = "signals" /\ exec' = "returned"
      /\ UNCHANGED <<const, delay, logging, finishes, cancelled, deleted>>
      /\ \/ Proceed("PAS", "lost") \/ Proceed("PAS", "bidding")
         \/ TaskCompleted("PAS", "ERROR")
  BY DEF GetProtectedSignalsBids
<1>2. BidsTracked /\ GetsSignalsBids /\ rpc["PAS"] = "none"
  BY <1>1 DEF IInv, NothingTracked, BidsTracked, HandlerOK
<1>3. "PAS" \in Tracked
  BY <1>2 DEF GetsSignalsBids, Tracked, Task
<1>4. HandlerGoesOn("PAS", "returned")
  BY <1>1 DEF HandlerGoesOn, InFlight
<1> QED
  BY <1>1, <1>2, <1>3, <1>4, HandlerKeeps

\* TrackBids sets the tracker to the number of tasks to come; those it starts are
\* among them.
LEMMA TrackBidsKeeps ==
    ASSUME IInv, TrackBids PROVE IInv'
<1> USE DEF const
<1>1. /\ exec = "execute" /\ UNCHANGED <<const, rpc, chain, delay, logging, finishes, cancelled, deleted>>
      /\ GetNumberOfMaximumBiddingCalls > 0
      /\ tracker' = Tracking(GetNumberOfMaximumBiddingCalls)
      /\ exec' = IF GetsAudienceBids THEN "audience"
                 ELSE IF GetsSignalsBids THEN "signals" ELSE "returned"
  BY DEF TrackBids
<1>2. NothingTracked
  BY <1>1 DEF IInv, BidsTracked, HandlerOK
<1>3. /\ \A t \in Task : rpc[t] = "none"
      /\ chain = "bids" /\ finishes = <<>> /\ delay = "none" /\ ~deleted
  BY <1>1, <1>2 DEF NothingTracked
<1>4. /\ GetNumberOfMaximumBiddingCalls = Cardinality(Tracked)
      /\ Tracked' = Tracked /\ Tracked \subseteq Task
  BY <1>1 DEF GetNumberOfMaximumBiddingCalls, Tracked
<1>5. Owed' = Tracked
  <2>1. \A t \in Task : rpc'[t] \notin TaskStatus
    BY <1>1, <1>3 DEF TaskStatus
  <2> QED
    BY <1>4, <2>1 DEF Owed
<1>6. Cardinality(Tracked) \in Nat /\ (Cardinality(Tracked) = 0 <=> Tracked = {})
  BY <1>4, TwoTasks, FiniteSubset
<1>7. /\ tracker' \in Trackers /\ tracker'.pending = Cardinality(Tracked)
      /\ \A s \in TaskStatus : tracker'.count[s] = 0
  BY <1>1, <1>4, <1>6, TrackingFields
<1>8. CountsTell'
  BY <1>1, <1>3, <1>7 DEF CountsTell, TaskStatus
<1>9. FinishedByTasks'
  BY <1>1, <1>3, <1>4, <1>7 DEF FinishedByTasks
<1>10. HandlerOK'
  <2>1. GetsAudienceBids => "PA" \in Tracked
    BY DEF GetsAudienceBids, ForBidding, Tracked, Task
  <2>2. "PA" \in Task /\ "PAS" \in Task
    BY DEF Task
  <2>3. GetsSignalsBids' <=> GetsSignalsBids
    BY <1>1 DEF GetsSignalsBids
  <2> QED
    BY <1>1, <1>3, <1>4, <2>1, <2>2, <2>3 DEF HandlerOK
<1>11. BidsTracked'
  BY <1>1, <1>3, <1>4, <1>5, <1>6, <1>7, <1>8, <1>9, <1>10 DEF BidsTracked
<1>12. TypeOK'
  BY <1>1, <1>7 DEF IInv, TypeOK
<1> QED
  BY <1>1, <1>3, <1>11, <1>12 DEF IInv, ReportsAreTrue, Cancelled

(***************************************************************************)
(* The callbacks, and the end of the request.                              *)
(***************************************************************************)
\* The lookups of bidding signals.
LEMMA OnBiddingSignalsV1Keeps ==
    ASSUME IInv, OnBiddingSignalsV1 PROVE IInv'
<1>1. /\ rpc["PA"] \in InFlight /\ "PA" \in Task
      /\ UNCHANGED <<const, exec, delay, logging, cancelled, deleted>> /\ logging' \in BOOLEAN
  BY DEF OnBiddingSignalsV1, InFlight, Task, IInv, TypeOK
<1>2. \/ Cancelled /\ TaskCompleted("PA", "CANCELLED") /\ UNCHANGED finishes
      \/ TaskCompleted("PA", "ERROR") /\ UNCHANGED finishes
      \/ \E to \in {"lost"} \cup InFlight : Proceed("PA", to) /\ UNCHANGED finishes
      \/ Proceed("PA", "abandoned") /\ FinishWithStatus("INTERNAL")
  BY DEF OnBiddingSignalsV1, StartV2Lookup, InFlight
<1>3. CASE Cancelled /\ TaskCompleted("PA", "CANCELLED") /\ UNCHANGED finishes
  BY <1>1, <1>3, CallbackReports
<1>4. CASE TaskCompleted("PA", "ERROR") /\ UNCHANGED finishes
  BY <1>1, <1>4, CallbackReports
<1>5. ASSUME NEW to \in {"lost"} \cup InFlight, Proceed("PA", to), UNCHANGED finishes
      PROVE  IInv'
  <2>1. to # "abandoned" /\ to \in {"lost", "abandoned"} \cup InFlight
    BY DEF InFlight
  <2> QED
    BY <1>1, <1>5, <2>1, CallbackProceeds
<1>6. CASE Proceed("PA", "abandoned") /\ FinishWithStatus("INTERNAL")
  BY <1>1, <1>6, CallbackProceeds
<1> QED
  BY <1>2, <1>3, <1>4, <1>5, <1>6

\* The signals of version 2, or their failure.
LEMMA OnBiddingSignalsV2Keeps ==
    ASSUME IInv, OnBiddingSignalsV2 PROVE IInv'
<1>1. /\ rpc["PA"] \in InFlight /\ "PA" \in Task
      /\ UNCHANGED <<const, exec, delay, finishes, cancelled, deleted>> /\ logging' \in BOOLEAN
  BY DEF OnBiddingSignalsV2, InFlight, Task, IInv, TypeOK
<1>2. CASE Cancelled /\ TaskCompleted("PA", "CANCELLED")
  BY <1>1, <1>2, CallbackReports
<1>3. CASE TaskCompleted("PA", "ERROR")
  BY <1>1, <1>3, CallbackReports
<1>4. CASE Proceed("PA", "prepare")
  <2>1. "prepare" \in {"lost", "abandoned"} \cup InFlight /\ "prepare" # "abandoned"
    BY DEF InFlight
  <2> QED
    BY <1>1, <1>4, <2>1, CallbackProceeds
<1> QED
  BY <1>2, <1>3, <1>4 DEF OnBiddingSignalsV2

\* The request for bids that is made of the signals, or has nothing to ask.
LEMMA PrepareKeeps ==
    ASSUME IInv, PrepareAndGenerateProtectedAudienceBid PROVE IInv'
<1>1. /\ rpc["PA"] \in InFlight /\ "PA" \in Task
      /\ UNCHANGED <<const, exec, delay, logging, finishes, cancelled, deleted>>
      /\ logging' \in BOOLEAN
  BY DEF PrepareAndGenerateProtectedAudienceBid, InFlight, Task, IInv, TypeOK
<1>2. CASE TaskCompleted("PA", "EMPTY_RESPONSE")
  BY <1>1, <1>2, CallbackReports
<1>3. CASE TaskCompleted("PA", "ERROR")
  BY <1>1, <1>3, CallbackReports
<1>4. CASE Proceed("PA", "bidding")
  <2>1. "bidding" \in {"lost", "abandoned"} \cup InFlight /\ "bidding" # "abandoned"
    BY DEF InFlight
  <2> QED
    BY <1>1, <1>4, <2>1, CallbackProceeds
<1> QED
  BY <1>2, <1>3, <1>4 DEF PrepareAndGenerateProtectedAudienceBid

\* The bids of either service.
LEMMA OnBidsKeeps ==
    ASSUME IInv, NEW t \in Task, OnBids(t) PROVE IInv'
<1>1. /\ rpc[t] \in InFlight /\ logging' \in BOOLEAN
      /\ UNCHANGED <<const, exec, delay, logging, finishes, cancelled, deleted>>
  BY DEF OnBids, InFlight, IInv, TypeOK
<1>2. \/ TaskCompleted(t, "ERROR") \/ TaskCompleted(t, "EMPTY_RESPONSE")
      \/ Cancelled /\ TaskCompleted(t, "CANCELLED")
      \/ TaskCompleted(t, "SUCCESS")
  BY DEF OnBids
<1> QED
  BY <1>1, <1>2, CallbackReports

\* The early ends of a request that tracks nothing.
LEMMA RejectRequestKeeps ==
    ASSUME IInv, RejectRequest PROVE IInv'
<1>1. /\ exec = "execute" /\ exec' = "returned"
      /\ \E s \in {"CANCELLED", "INVALID_ARGUMENT"} : FinishWithStatus(s)
      /\ UNCHANGED <<const, rpc, tracker, chain, delay, logging, cancelled, deleted>>
  BY DEF RejectRequest
<1>2. NothingTracked /\ finishes = <<>> /\ delay = "none" /\ ~deleted
  BY <1>1 DEF IInv, BidsTracked, HandlerOK, NothingTracked
<1>3. \E s \in {"CANCELLED", "INVALID_ARGUMENT"} : finishes' = <<s>>
  BY <1>1, <1>2 DEF FinishWithStatus
<1>4. /\ finishes' \in Seq({"OK", "CANCELLED", "INVALID_ARGUMENT", "INTERNAL"})
      /\ Len(finishes') = 1 /\ finishes' # <<"OK">>
  BY <1>3
<1>5. TypeOK' /\ NothingTracked'
  BY <1>1, <1>2, <1>4 DEF IInv, TypeOK, NothingTracked, const
<1> QED
  BY <1>1, <1>2, <1>4, <1>5 DEF IInv, ReportsAreTrue, Cancelled, const

\* A chaff request tracks nothing; it arms its delay, or fails at once.
LEMMA ExecuteChaffRequestKeeps ==
    ASSUME IInv, ExecuteChaffRequest PROVE IInv'
<1>1. /\ exec = "execute" /\ exec' = "returned"
      /\ \/ FinishWithStatus("INTERNAL") /\ UNCHANGED delay
         \/ delay' = "armed" /\ UNCHANGED finishes
      /\ UNCHANGED <<const, rpc, tracker, chain, logging, cancelled, deleted>>
  BY DEF ExecuteChaffRequest
<1>2. NothingTracked /\ finishes = <<>> /\ delay = "none" /\ ~deleted
  BY <1>1 DEF IInv, BidsTracked, HandlerOK, NothingTracked
<1>3. CASE FinishWithStatus("INTERNAL") /\ UNCHANGED delay
  <2>1. finishes' = <<"INTERNAL">>
    BY <1>2, <1>3 DEF FinishWithStatus
  <2>2. /\ finishes' \in Seq({"OK", "CANCELLED", "INVALID_ARGUMENT", "INTERNAL"})
        /\ Len(finishes') = 1 /\ finishes' # <<"OK">>
    BY <2>1
  <2>3. TypeOK' /\ NothingTracked'
    BY <1>1, <1>2, <1>3, <2>2 DEF IInv, TypeOK, NothingTracked, const
  <2> QED
    BY <1>1, <1>2, <2>2, <2>3 DEF IInv, ReportsAreTrue, Cancelled, const
<1>4. CASE delay' = "armed" /\ UNCHANGED finishes
  <2>1. TypeOK' /\ NothingTracked'
    BY <1>1, <1>2, <1>4 DEF IInv, TypeOK, NothingTracked, const
  <2> QED
    BY <1>1, <1>2, <1>4, <2>1 DEF IInv, ReportsAreTrue, Cancelled, const
<1> QED
  BY <1>1, <1>3, <1>4

\* Its delay ends it, once.
LEMMA FinishChaffRequestKeeps ==
    ASSUME IInv, FinishChaffRequest PROVE IInv'
<1>1. /\ delay = "armed" /\ delay' = "done" /\ FinishWithStatus("OK")
      /\ UNCHANGED <<const, exec, rpc, tracker, chain, logging, cancelled, deleted>>
  BY DEF FinishChaffRequest
<1>2. NothingTracked /\ finishes = <<>> /\ exec = "returned"
  BY <1>1 DEF IInv, BidsTracked, NothingTracked
<1>3. finishes' = <<"OK">>
  BY <1>1, <1>2 DEF FinishWithStatus
<1>4. TypeOK' /\ NothingTracked'
  BY <1>1, <1>2, <1>3 DEF IInv, TypeOK, NothingTracked, const
<1> QED
  BY <1>1, <1>2, <1>3, <1>4 DEF IInv, ReportsAreTrue, Cancelled, const

\* When the callback of the last task runs every task has reported. If the request was
\* not cancelled and none of them failed, one has succeeded.
LEMMA SomeTaskAnswered ==
    ASSUME IInv, BidsTracked, tracker.pending = 0, ~Cancelled,
           AnyTaskSuccessfullyCompleted(tracker)
    PROVE  \E t \in Task : rpc[t] \in {"SUCCESS", "EMPTY_RESPONSE"}
<1>1. Owed = {}
  BY OwedIsFinite DEF BidsTracked
<1>2. PICK t \in Tracked : rpc[t] \in TaskStatus
  BY <1>1 DEF BidsTracked, Owed
<1>3. t \in Task /\ rpc[t] # "CANCELLED" /\ rpc[t] # "SKIPPED"
  BY DEF Tracked, IInv, ReportsAreTrue
<1>4. \A s \in TaskStatus : tracker.count[s] \in Nat
  BY DEF IInv, TypeOK, Trackers
<1>5. {"SUCCESS", "EMPTY_RESPONSE", "SKIPPED", "ERROR"} \subseteq TaskStatus
  BY DEF TaskStatus
<1>6. ~(tracker.count["SKIPPED"] > 0)
  BY <1>5 DEF BidsTracked, CountsTell, IInv, ReportsAreTrue
<1>7. CASE tracker.count["SUCCESS"] > 0
  BY <1>5, <1>7 DEF BidsTracked, CountsTell
<1>8. CASE tracker.count["EMPTY_RESPONSE"] > 0
  BY <1>5, <1>8 DEF BidsTracked, CountsTell
<1>9. CASE tracker.count["ERROR"] = 0
  <2>1. ~(tracker.count["ERROR"] > 0)
    BY <1>9
  <2>2. rpc[t] # "ERROR"
    BY <1>3, <1>5, <2>1 DEF BidsTracked, CountsTell
  <2> QED
    BY <1>2, <1>3, <2>2 DEF TaskStatus
<1> QED
  BY <1>6, <1>7, <1>8, <1>9 DEF AnyTaskSuccessfullyCompleted

\* OnAllBidsDone finishes, as the first to do so.
LEMMA OnAllBidsDoneKeeps ==
    ASSUME IInv, OnAllBidsDone PROVE IInv'
<1>1. /\ chain = "bidsDone" /\ chain' = "ended"
      /\ \E s \in Answers : FinishWithStatus(s)
      /\ UNCHANGED <<const, exec, rpc, tracker, delay, logging, cancelled, deleted>>
  BY DEF OnAllBidsDone
<1>2. BidsTracked /\ finishes = <<>> /\ tracker.pending = 0
  BY <1>1 DEF IInv, NothingTracked, BidsTracked, FinishedByTasks
<1>3. PICK s \in Answers : finishes' = <<s>>
  BY <1>1, <1>2 DEF FinishWithStatus
<1>4. s \in {"OK", "CANCELLED", "INTERNAL"}
  BY DEF Answers
<1>5. s = "OK" => \E t \in Task : rpc[t] \in {"SUCCESS", "EMPTY_RESPONSE"}
  BY <1>2, SomeTaskAnswered DEF Answers
<1>6. TypeOK' /\ Len(finishes') <= 1 /\ finishes' # <<>>
  BY <1>1, <1>3, <1>4 DEF IInv, TypeOK, const
<1>7. FinishedByTasks'
  <2>1. finishes' = <<"OK">> => s = "OK"
    BY <1>3
  <2> QED
    BY <1>1, <1>2, <1>5, <2>1 DEF FinishedByTasks
<1>8. BidsTracked'
  BY <1>1, <1>2, <1>7 DEF BidsTracked, HandlerOK, Tracked, Owed, CountsTell, GetsSignalsBids, const
<1> QED
  BY <1>1, <1>6, <1>8 DEF IInv, ReportsAreTrue, Cancelled, const

\* Nothing else matters to the invariant.
LEMMA OtherStepsKeep ==
    ASSUME IInv, LogBiddingSignals \/ Cancel \/ OnDone \/ UNCHANGED vars
    PROVE  IInv'
<1>1. /\ UNCHANGED <<const, exec, rpc, tracker, chain, delay, finishes>>
      /\ logging' \in BOOLEAN /\ cancelled' \in BOOLEAN /\ (cancelled => cancelled')
      /\ deleted' \in BOOLEAN
      /\ \/ deleted' = deleted
         \/ finishes # <<>> /\ exec = "returned"
  BY DEF LogBiddingSignals, Cancel, OnDone, vars, IInv, TypeOK
<1>2. TypeOK'
  BY <1>1 DEF IInv, TypeOK, const
<1>3. ReportsAreTrue'
  BY <1>1 DEF IInv, ReportsAreTrue, Cancelled, const
<1>4. NothingTracked => NothingTracked'
  <2>1. exec = "execute" => deleted' = deleted
    BY <1>1
  <2> QED
    BY <1>1, <2>1 DEF NothingTracked
<1>5. BidsTracked => BidsTracked'
  BY <1>1 DEF BidsTracked, HandlerOK, Tracked, Owed, CountsTell, FinishedByTasks,
              GetsSignalsBids, const
<1> QED
  BY <1>1, <1>2, <1>3, <1>4, <1>5 DEF IInv

(***************************************************************************)
(* The theorems.                                                           *)
(***************************************************************************)
\* The inductive invariant holds: the tracker is right about what is under way, from
\* TrackBids to the callback of the last task.
THEOREM InductiveInvariant == Spec => []IInv
<1>1. Init => IInv
  <2> SUFFICES ASSUME Init PROVE IInv
    OBVIOUS
  <2>1. tracker \in Trackers
    BY TrackingFields DEF Init
  <2>2. rpc \in [Task -> {"none", "lost", "abandoned"} \cup InFlight \cup TaskStatus]
    BY DEF Init
  <2>3. finishes \in Seq({"OK", "CANCELLED", "INVALID_ARGUMENT", "INTERNAL"}) /\ Len(finishes) = 0
    BY DEF Init
  <2>4. TypeOK
    BY <2>1, <2>2, <2>3 DEF Init, TypeOK
  <2> QED
    BY <2>3, <2>4 DEF Init, IInv, NothingTracked, ReportsAreTrue
<1>2. IInv /\ [Next]_vars => IInv'
  BY RejectRequestKeeps, ExecuteChaffRequestKeeps, FinishChaffRequestKeeps, TrackBidsKeeps,
     GetProtectedAudienceBidsKeeps, GetProtectedSignalsBidsKeeps, OnBiddingSignalsV1Keeps,
     OnBiddingSignalsV2Keeps, PrepareKeeps, OnBidsKeeps, OnAllBidsDoneKeeps, OtherStepsKeep
  DEF Next, Progress
<1> QED
  BY <1>1, <1>2, PTL DEF Spec

\* Type correctness: no counter of the tracker goes below zero.
THEOREM TypeCorrect == Spec => []TypeOK
<1>1. IInv => TypeOK
  BY DEF IInv
<1> QED
  BY <1>1, InductiveInvariant, PTL

\* The request is finished once, and nothing answers to a deleted reactor, unless the
\* missing client of the V2 lookup made it end early (FinishedOnceAndLast).
THEOREM FinishedOnceByTheLast == Spec => []FinishedOnceAndLast
<1>1. IInv => FinishedOnceAndLast
  <2> SUFFICES ASSUME IInv, deleted, rpc["PA"] # "abandoned", NEW t \in Task,
                      rpc[t] \in InFlight
               PROVE  FALSE
    BY DEF FinishedOnceAndLast, IInv
  <2>1. BidsTracked /\ t \in Tracked /\ rpc[t] \notin TaskStatus
    BY UnderWay
  <2>2. finishes = <<>>
    BY <2>1, StillPending DEF IInv
  <2> QED
    BY <2>2 DEF IInv
<1> QED
  BY <1>1, InductiveInvariant, PTL

\* OK is the answer only if some task has answered, be it that it has no bids
\* (OkMeansAnswered): errors and cancellations do not make a response.
THEOREM OkIsAnAnswer == Spec => []OkMeansAnswered
<1>1. IInv => OkMeansAnswered
  <2> SUFFICES ASSUME IInv, finishes = <<"OK">>, delay = "none"
               PROVE  \E t \in Task : rpc[t] \in {"SUCCESS", "EMPTY_RESPONSE"}
    BY DEF OkMeansAnswered
  <2>1. CASE BidsTracked
    <3>1. chain \in {"bids", "bidsDone", "ended"}
      BY DEF IInv, TypeOK
    <3> QED
      BY <2>1, <3>1 DEF BidsTracked, FinishedByTasks
  <2>2. CASE NothingTracked
    BY <2>2 DEF NothingTracked
  <2> QED
    BY <2>1, <2>2 DEF IInv
<1> QED
  BY <1>1, InductiveInvariant, PTL
=============================================================================
