--------------------------- MODULE SelectAdProofs ---------------------------
(* Proofs about SelectAd for any finite set of buyers, any cap and any flags: *)
(* the counters of the bid tracker are the buyers they stand for, the chain   *)
(* of callbacks runs once and in order, and a replay asks the buyers that     *)
(* were asked before.                                                         *)
EXTENDS SelectAd, TaskCountersProofs, SequenceTheorems

-----------------------------------------------------------------------------
(* Facts about sets of buyers and about finishing.                           *)

\* Counters of buyers are numbers, and zero only for nobody.
LEMMA BuyerSets ==
    ASSUME NEW S \in SUBSET Buyer
    PROVE  /\ IsFiniteSet(S)
           /\ Cardinality(S) \in Nat
           /\ Cardinality(S) = 0 <=> S = {}
BY FiniteSubset, SelectAdAssumption

\* Steps that leave the RPCs alone leave the sets of buyers by their progress alone.
LEMMA SameRpc ==
    ASSUME rpc' = rpc
    PROVE  /\ ToDo' = ToDo /\ Unanswered' = Unanswered
           /\ \A s : EndedWith(s)' = EndedWith(s)
BY DEF ToDo, Unanswered, EndedWith

\* The first status is the only one.
LEMMA FirstFinish ==
    ASSUME TypeOK, Len(finishes) = 0, NEW s \in Statuses,
           finishes' = Append(finishes, s)
    PROVE  finishes' = <<s>> /\ Len(finishes') = 1 /\ finishes' \in Seq(Statuses)
<1>1. finishes \in Seq(Statuses)
  BY DEF TypeOK
<1>2. finishes = <<>>
  BY <1>1, EmptySeq
<1> QED
  BY <1>2

\* The steps after the last bid do not touch what the bid tracker counts, nor the plans.
BiddingUnchanged ==
    UNCHANGED <<chaff, rpc, solicited, bidTracker, inputs, previous, cache, conf>>

\* Steps after the bidding keep what is known about it.
LEMMA BiddingStays ==
    ASSUME IInv, BiddingUnchanged
    PROVE  CountersMatchBuyers' /\ PlansFitInputs' /\ ReplayFollowsThePlan'
<1>1. /\ ToDo' = ToDo /\ Unanswered' = Unanswered
      /\ \A s : EndedWith(s)' = EndedWith(s)
  BY SameRpc DEF BiddingUnchanged
<1>2. CountersMatchBuyers'
  BY <1>1 DEF IInv, BiddingUnchanged, CountersMatchBuyers
<1>3. PlansFitInputs'
  BY <1>1 DEF IInv, BiddingUnchanged, PlansFitInputs, PlanFitsInputs, BuyersOf
<1>4. ReplayFollowsThePlan'
  BY <1>1 DEF IInv, BiddingUnchanged, ReplayFollowsThePlan, BuyersOf
<1> QED
  BY <1>2, <1>3, <1>4

-----------------------------------------------------------------------------
(* Initial states.                                                           *)

\* A request begins in the invariant.
LEMMA InitIInv == Init => IInv
<1> SUFFICES ASSUME Init PROVE IInv
  OBVIOUS
<1>1. /\ Tracking(0) \in Trackers /\ Tracking(0).pending = 0
      /\ \A s \in TaskStatus : Tracking(0).count[s] = 0
  BY TrackingFields
<1>2. /\ SignalTasks(conf) \in {1, 2}
      /\ sigTracker \in Trackers /\ sigTracker.pending = SignalTasks(conf)
  BY TrackingFields DEF Init, SignalTasks
<1>3. TypeOK
  <2>1. requests \in 1..MaxRequests /\ finishes \in Seq(Statuses)
    BY SelectAdAssumption, EmptySeq DEF Init
  <2>2. /\ rpc \in [Buyer -> RpcState]
        /\ bids \in [Buyer -> BidKind \cup {"none"}]
    BY DEF Init, RpcState
  <2> QED
    BY <1>1, <1>2, <2>1, <2>2 DEF Init, TypeOK
<1>4. /\ ToDo = {} /\ Unanswered = {}
      /\ \A s \in TaskStatus : EndedWith(s) = {}
  BY DEF Init, ToDo, Unanswered, EndedWith, TaskStatus
<1>5. Cardinality({}) = 0
  BY FS_EmptySet
<1>6. CountersMatchBuyers
  BY <1>1, <1>4, <1>5 DEF Init, CountersMatchBuyers
<1>7. CallbackIsDueOnce
  BY <1>4 DEF Init, CallbackIsDueOnce
<1>8. PlansFitInputs
  BY <1>4, <1>5, SelectAdAssumption DEF Init, PlansFitInputs
<1>9. ReplayFollowsThePlan
  BY <1>4 DEF Init, ReplayFollowsThePlan
<1>10. conf \in Flags
  BY SelectAdAssumption DEF Init
<1>11. SignalsTracked
  BY <1>2, <1>10 DEF Init, SignalsTracked, KAnonPending, SignalTasks, Flags
<1>12. ChainInOrder /\ FinishedAtTheEnd /\ FailureIsReported
  BY DEF Init, ChainInOrder, FinishedAtTheEnd, FailureIsReported
<1> QED
  BY <1>3, <1>6, <1>7, <1>8, <1>9, <1>11, <1>12 DEF IInv

-----------------------------------------------------------------------------
(* The tracker of the bids.                                                  *)

\* A buyer who has not answered is pending, and its answer is the callback's cue if it
\* is the last: whatever the other buyers did.
LEMMA BidCompletedCounts ==
    ASSUME IInv, NEW b \in Buyer, rpc[b] \in {"todo", "sent"}, NEW s \in TaskStatus,
           BidCompleted(b, s)
    PROVE  /\ CountersMatchBuyers' /\ bidTracker' \in Trackers
           /\ rpc' \in [Buyer -> RpcState]
           /\ Unanswered' = Unanswered \ {b}
           /\ chain' = IF Unanswered' = {} THEN "bidsDone" ELSE chain
<1>1. TypeOK /\ CountersMatchBuyers
  BY DEF IInv
<1>2. b \in Unanswered /\ Unanswered \in SUBSET Buyer
  BY DEF Unanswered
<1>3. bidTracker \in Trackers /\ bidTracker.pending > 0
  BY <1>1, <1>2, BuyerSets DEF TypeOK, CountersMatchBuyers
<1>4. /\ bidTracker' \in Trackers
      /\ bidTracker'.pending = bidTracker.pending - 1
      /\ \A r \in TaskStatus :
            bidTracker'.count[r] = IF r = s THEN bidTracker.count[r] + 1
                                   ELSE bidTracker.count[r]
  BY <1>3, CountedFields DEF BidCompleted
<1>5. /\ rpc' \in [Buyer -> RpcState]
      /\ \A c \in Buyer : rpc'[c] = IF c = b THEN s ELSE rpc[c]
  BY <1>1 DEF BidCompleted, TypeOK, RpcState
<1>6. s \notin {"todo", "sent"} /\ "todo" \notin TaskStatus /\ "sent" \notin TaskStatus
  BY DEF TaskStatus
<1>7. Unanswered' = Unanswered \ {b}
  BY <1>5, <1>6 DEF Unanswered
<1>8. bidTracker'.pending = Cardinality(Unanswered')
  <2>1. Cardinality(Unanswered \ {b}) = Cardinality(Unanswered) - 1
    BY <1>2, BuyerSets, FS_RemoveElement
  <2> QED
    BY <2>1, <1>1, <1>4, <1>7 DEF CountersMatchBuyers
<1>9. ASSUME NEW r \in TaskStatus
      PROVE  bidTracker'.count[r] = Cardinality(EndedWith(r)')
  <2>1. EndedWith(r)' = IF r = s THEN EndedWith(r) \cup {b} ELSE EndedWith(r)
    BY <1>5, <1>6 DEF EndedWith
  <2>2. EndedWith(r) \in SUBSET Buyer /\ b \notin EndedWith(r)
    BY <1>6 DEF EndedWith
  <2>3. Cardinality(EndedWith(r) \cup {b}) = Cardinality(EndedWith(r)) + 1
    BY <2>2, BuyerSets, FS_AddElement
  <2> QED
    BY <2>1, <2>3, <1>1, <1>4 DEF CountersMatchBuyers
<1>10. Unanswered' \in SUBSET Buyer
  BY <1>2, <1>7
<1>11. chain' = IF Unanswered' = {} THEN "bidsDone" ELSE chain
  BY <1>8, <1>10, BuyerSets DEF BidCompleted
<1> QED
  BY <1>4, <1>5, <1>7, <1>8, <1>9, <1>11 DEF CountersMatchBuyers

-----------------------------------------------------------------------------
(* Execute and FetchBids.                                                    *)

\* Finishing in the chain of callbacks.
LEMMA FinishOnce ==
    ASSUME IInv, chain # "ended", NEW s \in Statuses, FinishWithStatus(s)
    PROVE  /\ finishes' = <<s>> /\ Len(finishes') = 1
           /\ finishes' \in Seq(Statuses) /\ chain' = "ended"
BY FirstFinish DEF IInv, FinishedAtTheEnd, FinishWithStatus

\* A rejected request has asked nobody.
LEMMA RejectRequestKeeps ==
    ASSUME IInv, RejectRequest
    PROVE  IInv'
<1> USE DEF requestVars, sigVars
<1>1. /\ TypeOK /\ exec = "execute" /\ chain = "bids" /\ kv = "none"
      /\ kanon = "none" /\ solicited = {} /\ ~deleted
      /\ \A b \in Buyer : rpc[b] = "none"
  BY DEF IInv, RejectRequest, CallbackIsDueOnce
<1>2. PICK s \in Statuses : FinishWithStatus(s)
  BY DEF RejectRequest, RespondWithChaff, Statuses
<1>3. /\ Len(finishes') = 1 /\ finishes' \in Seq(Statuses) /\ chain' = "ended"
  BY <1>1, <1>2, FinishOnce
<1>4. CountersMatchBuyers' /\ PlansFitInputs' /\ ReplayFollowsThePlan'
  BY BiddingStays DEF RejectRequest, BiddingUnchanged
<1>5. TypeOK'
  BY <1>1, <1>3 DEF RejectRequest, TypeOK
<1>6. CallbackIsDueOnce'
  BY <1>1, <1>3 DEF RejectRequest, CallbackIsDueOnce, ToDo, Unanswered
<1>7. SignalsTracked'
  BY <1>1, <1>3 DEF IInv, RejectRequest, SignalsTracked, KAnonPending
<1>8. ChainInOrder' /\ FinishedAtTheEnd' /\ FailureIsReported'
  BY <1>1, <1>3
     DEF IInv, RejectRequest, ChainInOrder, FinishedAtTheEnd, FailureIsReported
<1> QED
  BY <1>4, <1>5, <1>6, <1>7, <1>8 DEF IInv

\* The plan of a request, new or replayed, fits its inputs.
LEMMA PlansOfARequest ==
    ASSUME IInv, exec = "execute", NEW plan \in BuyerPlans
    PROVE  /\ plan \in Plans
           /\ plan.chaff \cap inputs = {} /\ plan.nonChaff \subseteq inputs
           /\ conf.chaffing = "off" => plan.chaff = {}
           /\ previous # NoEntry => plan = previous
<1>1. TypeOK /\ PlansFitInputs /\ conf \in Flags
  BY SelectAdAssumption DEF IInv, TypeOK
<1>2. CASE previous # NoEntry
  BY <1>1, <1>2 DEF BuyerPlans, PlansFitInputs, PlanFitsInputs, TypeOK
<1>3. CASE previous = NoEntry
  <2>1. /\ plan.chaff \in ChaffChoices /\ plan.nonChaff = inputs
        /\ plan = [chaff |-> plan.chaff, nonChaff |-> plan.nonChaff]
    BY <1>3 DEF BuyerPlans
  <2>2. /\ plan.chaff \subseteq Buyer \ inputs
        /\ conf.chaffing = "off" => plan.chaff = {}
    BY <2>1 DEF ChaffChoices
  <2> QED
    BY <1>1, <1>3, <2>1, <2>2 DEF Plans, TypeOK
<1> QED
  BY <1>2, <1>3

\* The number of tasks to track is the number of requests to build.
LEMMA EveryoneCounted ==
    ASSUME TypeOK, NEW plan \in Plans, plan.chaff \cap inputs = {},
           plan.nonChaff \subseteq inputs,
           conf.chaffing = "off" => plan.chaff = {}
    PROVE  /\ RequestsToBuild(plan) \in SUBSET Buyer
           /\ RequestsToBuild(plan) = BuyersOf(plan)
           /\ EffectiveNumberOfBuyers(plan) \in Nat
           /\ EffectiveNumberOfBuyers(plan) = Cardinality(RequestsToBuild(plan))
<1>1. /\ plan.chaff \in SUBSET Buyer /\ plan.nonChaff \in SUBSET Buyer
      /\ plan.nonChaff \cap plan.chaff = {}
  BY DEF Plans
<1>2. RequestsToBuild(plan) = plan.nonChaff \cup plan.chaff
  BY DEF RequestsToBuild
<1>3. /\ IsFiniteSet(plan.chaff) /\ Cardinality(plan.chaff) \in Nat
      /\ IsFiniteSet(plan.nonChaff) /\ Cardinality(plan.nonChaff) \in Nat
  BY <1>1, BuyerSets
<1>4. Cardinality(plan.nonChaff \cup plan.chaff)
        = Cardinality(plan.nonChaff) + Cardinality(plan.chaff)
  <2>1. Cardinality(plan.nonChaff \cup plan.chaff)
          = Cardinality(plan.nonChaff) + Cardinality(plan.chaff)
              - Cardinality(plan.nonChaff \cap plan.chaff)
    BY <1>3, FS_Union
  <2>2. Cardinality(plan.nonChaff \cap plan.chaff) = 0
    BY <1>1, FS_EmptySet
  <2> QED
    BY <1>3, <2>1, <2>2
<1>5. conf.chaffing = "off" => Cardinality(plan.chaff) = 0
  BY FS_EmptySet
<1>6. EffectiveNumberOfBuyers(plan) = Cardinality(plan.nonChaff) + Cardinality(plan.chaff)
  BY <1>3, <1>5 DEF EffectiveNumberOfBuyers
<1> QED
  BY <1>1, <1>2, <1>3, <1>4, <1>6 DEF BuyersOf

\* The tracker starts with all buyers of the plan.
LEMMA FetchBidsKeeps ==
    ASSUME IInv, FetchBids
    PROVE  IInv'
<1> USE DEF requestVars, sigVars
<1>1. /\ TypeOK /\ exec = "execute" /\ chain = "bids" /\ kv = "none"
      /\ kanon = "none" /\ solicited = {} /\ ~deleted
      /\ \A b \in Buyer : rpc[b] = "none"
  BY DEF IInv, FetchBids, CallbackIsDueOnce
<1>2. PICK plan \in BuyerPlans :
         LET n == EffectiveNumberOfBuyers(plan)
             asked == IF n = 0 THEN {} ELSE RequestsToBuild(plan)
         IN  /\ bidTracker' = Tracking(n)
             /\ chaff' = plan.chaff
             /\ rpc' = [b \in Buyer |-> IF b \in asked THEN "todo" ELSE "none"]
             /\ exec' = IF n = 0 THEN "returned" ELSE "dispatch"
             /\ chain' = IF n = 0 THEN "bidsDone" ELSE chain
  BY DEF FetchBids
<1> DEFINE n == EffectiveNumberOfBuyers(plan)
           asked == IF n = 0 THEN {} ELSE RequestsToBuild(plan)
<1>3. /\ plan \in Plans
      /\ plan.chaff \cap inputs = {} /\ plan.nonChaff \subseteq inputs
      /\ conf.chaffing = "off" => plan.chaff = {}
      /\ previous # NoEntry => plan = previous
  BY <1>1, PlansOfARequest
<1>4. /\ asked \in SUBSET Buyer /\ n \in Nat /\ n = Cardinality(asked)
      /\ n = 0 <=> asked = {}
      /\ asked \subseteq BuyersOf(plan)
      /\ n # 0 => asked = BuyersOf(plan)
  <2>1. /\ RequestsToBuild(plan) \in SUBSET Buyer
        /\ RequestsToBuild(plan) = BuyersOf(plan)
        /\ n \in Nat /\ n = Cardinality(RequestsToBuild(plan))
    BY <1>1, <1>3, EveryoneCounted
  <2>2. Cardinality({}) = 0 /\ (n = 0 <=> RequestsToBuild(plan) = {})
    BY <2>1, BuyerSets, FS_EmptySet
  <2> QED
    BY <2>1, <2>2
<1>5. /\ bidTracker' = Tracking(n) /\ chaff' = plan.chaff
      /\ rpc' = [b \in Buyer |-> IF b \in asked THEN "todo" ELSE "none"]
      /\ exec' = IF n = 0 THEN "returned" ELSE "dispatch"
      /\ chain' = IF n = 0 THEN "bidsDone" ELSE chain
  BY <1>2
<1> HIDE DEF n, asked
<1>6. /\ ToDo' = asked /\ Unanswered' = asked
      /\ \A s \in TaskStatus : EndedWith(s)' = {}
  BY <1>4, <1>5 DEF ToDo, Unanswered, EndedWith, TaskStatus
<1>7. /\ bidTracker' \in Trackers /\ bidTracker'.pending = n
      /\ \A s \in TaskStatus : bidTracker'.count[s] = 0
  BY <1>4, <1>5, TrackingFields
<1>8. CountersMatchBuyers'
  BY <1>4, <1>6, <1>7, FS_EmptySet DEF CountersMatchBuyers
<1>9. TypeOK'
  <2>1. rpc' \in [Buyer -> RpcState]
    BY <1>5 DEF RpcState
  <2>2. chaff' \subseteq Buyer
    BY <1>3, <1>5 DEF Plans
  <2> QED
    BY <1>1, <1>5, <1>7, <2>1, <2>2 DEF FetchBids, TypeOK
<1>10. CallbackIsDueOnce'
  BY <1>1, <1>4, <1>5, <1>6 DEF FetchBids, CallbackIsDueOnce
<1>11. PlansFitInputs'
  <2>1. asked \ plan.chaff \subseteq inputs
    BY <1>3, <1>4 DEF BuyersOf
  <2> QED
    BY <1>1, <1>3, <1>5, <1>6, <2>1
       DEF IInv, FetchBids, PlansFitInputs, PlanFitsInputs, BuyersOf
<1>12. ReplayFollowsThePlan'
  <2>1. (\E b \in Buyer : rpc'[b] # "none") => asked # {}
    BY <1>5
  <2>2. asked # {} /\ previous # NoEntry => asked = BuyersOf(previous)
    BY <1>3, <1>4
  <2> QED
    BY <1>1, <1>6, <2>1, <2>2 DEF FetchBids, ReplayFollowsThePlan, BuyersOf
<1>13. SignalsTracked'
  BY <1>1, <1>5 DEF IInv, FetchBids, SignalsTracked, KAnonPending
<1>14. ChainInOrder'
  BY <1>1, <1>5 DEF IInv, FetchBids, ChainInOrder
<1>15. FinishedAtTheEnd' /\ FailureIsReported'
  <2>1. \A b \in Buyer : rpc[b] # "SUCCESS"
    BY <1>1
  <2>2. \A b \in Buyer : rpc'[b] # "ERROR"
    BY <1>5
  <2> QED
    BY <1>1, <1>5, <2>1, <2>2
       DEF IInv, FetchBids, FinishedAtTheEnd, FailureIsReported
<1> QED
  BY <1>8, <1>9, <1>10, <1>11, <1>12, <1>13, <1>14, <1>15 DEF IInv

\* A replay never meets the cap: those it has still to ask were asked before.
LEMMA ReplaySkipsNobody ==
    ASSUME IInv, NEW b \in ToDo, previous # NoEntry
    PROVE  Cardinality(solicited) < MaxBuyersSolicited
<1>1. /\ TypeOK /\ b \in Buyer /\ rpc[b] = "todo"
      /\ ToDo \cap solicited = {} /\ solicited \cup ToDo = BuyersOf(previous)
      /\ Cardinality(BuyersOf(previous)) <= MaxBuyersSolicited
  BY DEF IInv, ToDo, ReplayFollowsThePlan, PlansFitInputs, PlanFitsInputs
<1>2. /\ solicited \cup {b} \subseteq BuyersOf(previous) /\ b \notin solicited
      /\ BuyersOf(previous) \in SUBSET Buyer /\ solicited \in SUBSET Buyer
  BY <1>1 DEF TypeOK, ToDo
<1>3. /\ IsFiniteSet(solicited) /\ Cardinality(solicited) \in Nat
      /\ IsFiniteSet(BuyersOf(previous)) /\ Cardinality(BuyersOf(previous)) \in Nat
  BY <1>2, BuyerSets
<1>4. Cardinality(solicited \cup {b}) = Cardinality(solicited) + 1
  BY <1>2, <1>3, FS_AddElement
<1>5. Cardinality(solicited \cup {b}) <= Cardinality(BuyersOf(previous))
  BY <1>2, <1>3, FS_Subset
<1> QED
  BY <1>1, <1>3, <1>4, <1>5, SelectAdAssumption

\* A buyer beyond the cap is counted and not asked.
LEMMA SkipBuyerKeeps ==
    ASSUME IInv, NEW b \in Buyer, SkipBuyer(b)
    PROVE  IInv'
<1> USE DEF requestVars, sigVars
<1>1. /\ TypeOK /\ exec = "dispatch" /\ exec' = exec /\ rpc[b] = "todo"
      /\ BidCompleted(b, "SKIPPED") /\ b \in ToDo /\ b \in Unanswered
      /\ "SKIPPED" \in TaskStatus
  BY DEF IInv, SkipBuyer, ToDo, Unanswered, TaskStatus
<1>2. previous = NoEntry
  <2>1. Cardinality(solicited) \in Nat
    BY <1>1, BuyerSets DEF TypeOK
  <2> QED
    BY <1>1, <2>1, ReplaySkipsNobody, SelectAdAssumption DEF SkipBuyer
<1>3. /\ CountersMatchBuyers' /\ bidTracker' \in Trackers
      /\ rpc' \in [Buyer -> RpcState]
      /\ Unanswered' = Unanswered \ {b}
      /\ chain' = IF Unanswered' = {} THEN "bidsDone" ELSE chain
  BY <1>1, BidCompletedCounts
<1>4. \A c \in Buyer : rpc'[c] = IF c = b THEN "SKIPPED" ELSE rpc[c]
  BY <1>1 DEF BidCompleted, TypeOK
<1>5. ToDo' = ToDo \ {b}
  BY <1>4 DEF ToDo
<1>6. chain = "bids" /\ kv = "none" /\ kanon = "none" /\ finishes = <<>> /\ ~deleted
  <2>1. chain = "bids"
    BY <1>1 DEF IInv, CallbackIsDueOnce
  <2>2. Len(finishes) = 0 /\ finishes \in Seq(Statuses)
    BY <2>1 DEF IInv, FinishedAtTheEnd, TypeOK
  <2> QED
    BY <2>1, <2>2, EmptySeq DEF IInv, ChainInOrder, FinishedAtTheEnd
<1>7. TypeOK'
  BY <1>1, <1>3, <1>6 DEF SkipBuyer, TypeOK
<1>8. CallbackIsDueOnce'
  BY <1>1, <1>3, <1>6 DEF SkipBuyer, CallbackIsDueOnce
<1>9. PlansFitInputs'
  BY <1>5 DEF IInv, SkipBuyer, PlansFitInputs, PlanFitsInputs, BuyersOf
<1>10. ReplayFollowsThePlan'
  BY <1>2, <1>5 DEF IInv, SkipBuyer, ReplayFollowsThePlan, BuyersOf
<1>11. SignalsTracked' /\ ChainInOrder'
  BY <1>3, <1>6 DEF IInv, SkipBuyer, SignalsTracked, KAnonPending, ChainInOrder
<1>12. FinishedAtTheEnd' /\ FailureIsReported'
  BY <1>1, <1>3, <1>4, <1>6 DEF IInv, SkipBuyer, FinishedAtTheEnd, FailureIsReported
<1> QED
  BY <1>3, <1>7, <1>8, <1>9, <1>10, <1>11, <1>12 DEF IInv

\* FetchBid asks b and either counts its answer at once or sends the RPC.
LEMMA FetchBidKeeps ==
    ASSUME IInv, NEW b \in Buyer, FetchBid(b)
    PROVE  IInv'
<1> USE DEF requestVars, sigVars
<1>1. /\ TypeOK /\ exec = "dispatch" /\ exec' = exec /\ rpc[b] = "todo"
      /\ solicited' = solicited \cup {b} /\ b \in ToDo /\ b \in Unanswered
      /\ b \notin solicited
  BY DEF IInv, FetchBid, ToDo, Unanswered, ReplayFollowsThePlan
<1>2. chain = "bids" /\ kv = "none" /\ kanon = "none" /\ finishes = <<>> /\ ~deleted
  <2>1. chain = "bids"
    BY <1>1 DEF IInv, CallbackIsDueOnce
  <2>2. Len(finishes) = 0 /\ finishes \in Seq(Statuses)
    BY <2>1 DEF IInv, FinishedAtTheEnd, TypeOK
  <2> QED
    BY <2>1, <2>2, EmptySeq DEF IInv, ChainInOrder, FinishedAtTheEnd
<1>3. PICK s \in {"CANCELLED", "ERROR", "sent"} :
         \/ s # "sent" /\ BidCompleted(b, s)
         \/ /\ s = "sent" /\ rpc' = [rpc EXCEPT ![b] = "sent"]
            /\ bidTracker' = bidTracker /\ chain' = chain
  BY DEF FetchBid
<1>4. /\ CountersMatchBuyers' /\ bidTracker' \in Trackers
      /\ rpc' \in [Buyer -> RpcState]
      /\ chain' \in {"bids", "bidsDone"}
      /\ chain' = "bids" <=> Unanswered' # {}
  <2>1. CASE s # "sent"
    <3>1. s \in TaskStatus /\ BidCompleted(b, s)
      BY <1>3, <2>1 DEF TaskStatus
    <3> QED
      BY <1>1, <1>2, <3>1, BidCompletedCounts
  <2>2. CASE s = "sent"
    <3>1. /\ rpc' = [rpc EXCEPT ![b] = "sent"]
          /\ bidTracker' = bidTracker /\ chain' = chain
      BY <1>3, <2>2
    <3>2. /\ Unanswered' = Unanswered
          /\ \A r \in TaskStatus : EndedWith(r)' = EndedWith(r)
      BY <1>1, <3>1 DEF Unanswered, EndedWith, TypeOK, TaskStatus
    <3>3. CountersMatchBuyers'
      BY <3>1, <3>2 DEF IInv, CountersMatchBuyers
    <3> QED
      BY <1>1, <1>2, <3>1, <3>2, <3>3 DEF TypeOK, RpcState
  <2> QED
    BY <2>1, <2>2
<1>5. \A c \in Buyer : rpc'[c] = IF c = b THEN s ELSE rpc[c]
  BY <1>1, <1>3 DEF BidCompleted, TypeOK
<1>6. ToDo' = ToDo \ {b}
  BY <1>5 DEF ToDo
<1>7. TypeOK'
  BY <1>1, <1>4 DEF FetchBid, TypeOK
<1>8. CallbackIsDueOnce'
  BY <1>1, <1>4 DEF CallbackIsDueOnce
<1>9. PlansFitInputs'
  <2>1. Cardinality(solicited \cup {b}) = Cardinality(solicited) + 1
    BY <1>1, BuyerSets, FS_AddElement DEF TypeOK
  <2>2. Cardinality(solicited \cup {b}) <= MaxBuyersSolicited
    BY <1>1, <2>1, BuyerSets, SelectAdAssumption DEF TypeOK, FetchBid
  <2>3. solicited' \cup ToDo' = solicited \cup ToDo
    BY <1>1, <1>6
  <2> QED
    BY <1>1, <2>2, <2>3 DEF IInv, FetchBid, PlansFitInputs, PlanFitsInputs, BuyersOf
<1>10. ReplayFollowsThePlan'
  <2>1. solicited' \cup ToDo' = solicited \cup ToDo
    BY <1>1, <1>6
  <2> QED
    BY <1>1, <1>6, <2>1 DEF IInv, FetchBid, ReplayFollowsThePlan, BuyersOf
<1>11. SignalsTracked' /\ ChainInOrder'
  BY <1>2, <1>4 DEF IInv, FetchBid, SignalsTracked, KAnonPending, ChainInOrder
<1>12. FinishedAtTheEnd' /\ FailureIsReported'
  BY <1>1, <1>2, <1>4, <1>5 DEF IInv, FetchBid, FinishedAtTheEnd, FailureIsReported
<1> QED
  BY <1>4, <1>7, <1>8, <1>9, <1>10, <1>11, <1>12 DEF IInv

\* The loop over the buyers ends, and what it asked is what is cached.
LEMMA EndFetchBidsKeeps ==
    ASSUME IInv, EndFetchBids
    PROVE  IInv'
<1> USE DEF requestVars, sigVars
<1>1. /\ TypeOK /\ exec = "dispatch" /\ exec' = "returned" /\ ToDo = {}
      /\ ToDo' = ToDo /\ Unanswered' = Unanswered
      /\ \A s : EndedWith(s)' = EndedWith(s)
  BY SameRpc DEF IInv, EndFetchBids, ToDo
<1>2. CASE cache' = cache
  <2>1. CountersMatchBuyers' /\ PlansFitInputs' /\ ReplayFollowsThePlan'
    BY <1>2, BiddingStays DEF EndFetchBids, BiddingUnchanged
  <2>2. TypeOK' /\ CallbackIsDueOnce'
    BY <1>1, <1>2 DEF IInv, EndFetchBids, TypeOK, CallbackIsDueOnce
  <2>3. SignalsTracked' /\ ChainInOrder' /\ FinishedAtTheEnd' /\ FailureIsReported'
    BY <1>1 DEF IInv, EndFetchBids, SignalsTracked, KAnonPending, ChainInOrder,
                FinishedAtTheEnd, FailureIsReported
  <2> QED
    BY <2>1, <2>2, <2>3 DEF IInv
<1>3. CASE cache' = InvokedBuyers
  <2>1. /\ InvokedBuyers \in Plans /\ BuyersOf(InvokedBuyers) = solicited
        /\ InvokedBuyers.chaff = solicited \cap chaff
        /\ InvokedBuyers.nonChaff = solicited \ chaff
    BY <1>1 DEF InvokedBuyers, Plans, BuyersOf, TypeOK
  <2>2. PlanFitsInputs(InvokedBuyers)
    BY <1>1, <2>1 DEF IInv, PlansFitInputs, PlanFitsInputs
  <2>3. CountersMatchBuyers' /\ ReplayFollowsThePlan'
    BY <1>1 DEF IInv, EndFetchBids, CountersMatchBuyers, ReplayFollowsThePlan, BuyersOf
  <2>4. PlansFitInputs'
    BY <1>1, <1>3, <2>1, <2>2
       DEF IInv, EndFetchBids, PlansFitInputs, PlanFitsInputs, BuyersOf
  <2>5. TypeOK' /\ CallbackIsDueOnce'
    BY <1>1, <1>3, <2>1 DEF IInv, EndFetchBids, TypeOK, CallbackIsDueOnce
  <2>6. SignalsTracked' /\ ChainInOrder' /\ FinishedAtTheEnd' /\ FailureIsReported'
    BY <1>1 DEF IInv, EndFetchBids, SignalsTracked, KAnonPending, ChainInOrder,
                FinishedAtTheEnd, FailureIsReported
  <2> QED
    BY <2>3, <2>4, <2>5, <2>6 DEF IInv
<1> QED
  BY <1>2, <1>3 DEF EndFetchBids

-----------------------------------------------------------------------------
(* The callbacks of the GetBids RPCs.                                        *)

\* A buyer's answer is counted once.
LEMMA OnFetchBidsDoneKeeps ==
    ASSUME IInv, NEW b \in Buyer, OnFetchBidsDone(b)
    PROVE  IInv'
<1> USE DEF requestVars, sigVars
<1>1. /\ TypeOK /\ rpc[b] = "sent" /\ b \in Unanswered
  BY DEF IInv, OnFetchBidsDone, Unanswered
<1>2. exec # "execute" /\ chain = "bids"
  BY <1>1 DEF IInv, CallbackIsDueOnce
<1>3. kv = "none" /\ kanon = "none" /\ finishes = <<>> /\ ~deleted
  <2>1. Len(finishes) = 0 /\ finishes \in Seq(Statuses)
    BY <1>2 DEF IInv, FinishedAtTheEnd, TypeOK
  <2> QED
    BY <1>2, <2>1, EmptySeq DEF IInv, ChainInOrder, FinishedAtTheEnd
<1>4. PICK s \in TaskStatus :
         /\ BidCompleted(b, s)
         /\ \/ bids' = bids
            \/ s = "SUCCESS" /\ \E k \in BidKind : bids' = [bids EXCEPT ![b] = k]
  BY DEF OnFetchBidsDone, TaskStatus
<1>5. /\ CountersMatchBuyers' /\ bidTracker' \in Trackers
      /\ rpc' \in [Buyer -> RpcState]
      /\ Unanswered' = Unanswered \ {b}
      /\ chain' = IF Unanswered' = {} THEN "bidsDone" ELSE chain
  BY <1>1, <1>4, BidCompletedCounts
<1>6. \A c \in Buyer : rpc'[c] = IF c = b THEN s ELSE rpc[c]
  BY <1>1, <1>4 DEF BidCompleted, TypeOK
<1>7. ToDo' = ToDo
  BY <1>1, <1>6 DEF ToDo, TaskStatus
<1>8. bids' \in [Buyer -> BidKind \cup {"none"}]
  BY <1>1, <1>4 DEF TypeOK
<1>9. TypeOK'
  BY <1>1, <1>2, <1>5, <1>8 DEF OnFetchBidsDone, TypeOK
<1>10. CallbackIsDueOnce'
  BY <1>2, <1>5, <1>7 DEF IInv, OnFetchBidsDone, CallbackIsDueOnce
<1>11. PlansFitInputs'
  BY <1>7 DEF IInv, OnFetchBidsDone, PlansFitInputs, PlanFitsInputs, BuyersOf
<1>12. ReplayFollowsThePlan'
  BY <1>1, <1>7 DEF IInv, OnFetchBidsDone, ReplayFollowsThePlan, BuyersOf
<1>13. SignalsTracked' /\ ChainInOrder'
  BY <1>2, <1>3, <1>5
     DEF IInv, OnFetchBidsDone, SignalsTracked, KAnonPending, ChainInOrder
<1>14. \A c \in Buyer : bids'[c] # "none" => rpc'[c] = "SUCCESS"
  BY <1>1, <1>4, <1>6 DEF IInv, FinishedAtTheEnd, TypeOK
<1>15. FinishedAtTheEnd' /\ FailureIsReported'
  BY <1>2, <1>3, <1>5, <1>14
     DEF IInv, OnFetchBidsDone, FinishedAtTheEnd, FailureIsReported
<1> QED
  BY <1>5, <1>9, <1>10, <1>11, <1>12, <1>13, <1>15 DEF IInv

\* AnyTaskSuccessfullyCompleted looks at the buyers through the counters: it is false
\* exactly when some buyer failed and none answered, was empty or was skipped.
LEMMA SuccessIsAboutTheBuyers ==
    ASSUME IInv, AnyTaskSuccessfullyCompleted(bidTracker)
    PROVE  ~ /\ \E b \in Buyer : rpc[b] = "ERROR"
             /\ \A b \in Buyer : rpc[b] \in {"none", "ERROR", "CANCELLED"}
<1>1. ASSUME NEW s \in TaskStatus
      PROVE  /\ bidTracker.count[s] \in Nat
             /\ bidTracker.count[s] = 0 <=> \A b \in Buyer : rpc[b] # s
  <2>1. bidTracker.count[s] = Cardinality(EndedWith(s)) /\ EndedWith(s) \in SUBSET Buyer
    BY DEF IInv, CountersMatchBuyers, EndedWith
  <2>2. EndedWith(s) = {} <=> \A b \in Buyer : rpc[b] # s
    BY DEF EndedWith
  <2> QED
    BY <2>1, <2>2, BuyerSets
<1>2. {"SUCCESS", "EMPTY_RESPONSE", "SKIPPED", "ERROR"} \subseteq TaskStatus
  BY DEF TaskStatus
<1>3. CASE bidTracker.count["ERROR"] = 0
  BY <1>1, <1>2, <1>3
<1>4. CASE \E s \in {"SUCCESS", "EMPTY_RESPONSE", "SKIPPED"} : bidTracker.count[s] > 0
  BY <1>1, <1>2, <1>4
<1> QED
  BY <1>3, <1>4 DEF AnyTaskSuccessfullyCompleted

\* The callback of all tasks runs when every buyer has been counted.
LEMMA OnAllBidsDoneKeeps ==
    ASSUME IInv, OnAllBidsDone
    PROVE  IInv'
<1> USE DEF requestVars, sigVars
<1>1. /\ TypeOK /\ chain = "bidsDone" /\ conf \in Flags
      /\ exec # "execute" /\ Unanswered = {}
      /\ kv = "none" /\ kanon = "none" /\ ~deleted
  BY SelectAdAssumption
     DEF IInv, OnAllBidsDone, TypeOK, CallbackIsDueOnce, ChainInOrder, FinishedAtTheEnd
<1>2. /\ CountersMatchBuyers' /\ PlansFitInputs' /\ ReplayFollowsThePlan'
      /\ Unanswered' = Unanswered /\ ToDo' = ToDo
  BY BiddingStays, SameRpc DEF OnAllBidsDone, BiddingUnchanged
<1>3. /\ bids' \in [Buyer -> BidKind \cup {"none"}]
      /\ \A b \in Buyer : bids'[b] # "none" => rpc'[b] = "SUCCESS"
  <2>1. bids' = bids \/ bids' = Filtered
    BY DEF OnAllBidsDone
  <2> QED
    BY <1>1, <2>1 DEF IInv, OnAllBidsDone, TypeOK, FinishedAtTheEnd, Filtered
<1>4. CASE \E s \in Statuses : FinishWithStatus(s)
  <2>1. PICK s \in Statuses : FinishWithStatus(s)
    BY <1>4
  <2>2. /\ finishes' = <<s>> /\ Len(finishes') = 1
        /\ finishes' \in Seq(Statuses) /\ chain' = "ended"
    BY <1>1, <2>1, FinishOnce
  <2>3. kanon' = kanon
    BY <1>1, <2>2 DEF OnAllBidsDone
  <2>4. TypeOK' /\ CallbackIsDueOnce'
    BY <1>1, <1>2, <1>3, <2>2, <2>3
       DEF IInv, OnAllBidsDone, TypeOK, CallbackIsDueOnce
  <2>5. SignalsTracked' /\ ChainInOrder' /\ FinishedAtTheEnd'
    BY <1>1, <1>3, <2>2, <2>3
       DEF IInv, OnAllBidsDone, SignalsTracked, KAnonPending, ChainInOrder,
           FinishedAtTheEnd
  <2>6. finishes' = <<"OK">> => AnyTaskSuccessfullyCompleted(bidTracker)
    <3>1. finishes' = <<"OK">> => s = "OK"
      BY <2>2
    <3>2. ASSUME NEW r, FinishWithStatus(r)
          PROVE  finishes' = Append(finishes, r)
      BY <3>2 DEF FinishWithStatus
    <3>3. finishes = <<>>
      BY <1>1, EmptySeq DEF IInv, TypeOK, FinishedAtTheEnd
    <3>4. FinishWithStatus("CANCELLED") \/ FinishWithStatus("INTERNAL")
            \/ FinishWithStatus("INVALID_ARGUMENT") => s # "OK"
      BY <2>2, <3>2, <3>3
    <3> QED
      BY <1>1, <2>2, <3>1, <3>4 DEF OnAllBidsDone
  <2>7. FailureIsReported'
    BY <2>6, SuccessIsAboutTheBuyers DEF OnAllBidsDone, FailureIsReported
  <2> QED
    BY <1>2, <2>4, <2>5, <2>7 DEF IInv
<1>5. CASE /\ bids' = Filtered
           /\ \E b \in Bidders : bids[b] # "mismatched"
           /\ kanon' = IF conf.kanon THEN "queued" ELSE kanon
           /\ chain' = IF conf.fetch THEN "fetch"
                       ELSE IF conf.kanon THEN "wait" ELSE "score"
           /\ UNCHANGED finishes
  <2>1. \E b \in Buyer : bids'[b] # "none"
    BY <1>5 DEF Bidders, Filtered
  <2>2. chain' \in {"fetch", "wait", "score"}
    BY <1>5
  <2>3. TypeOK' /\ CallbackIsDueOnce'
    BY <1>1, <1>2, <1>3, <1>5, <2>2
       DEF IInv, OnAllBidsDone, TypeOK, CallbackIsDueOnce
  <2>4. SignalsTracked' /\ ChainInOrder'
    BY <1>1, <1>5, <2>1, <2>2
       DEF IInv, OnAllBidsDone, SignalsTracked, KAnonPending, ChainInOrder
  <2>5. FinishedAtTheEnd' /\ FailureIsReported'
    BY <1>1, <1>3, <1>5, <2>2
       DEF IInv, OnAllBidsDone, FinishedAtTheEnd, FailureIsReported
  <2> QED
    BY <1>2, <2>3, <2>4, <2>5 DEF IInv
<1> QED
  BY <1>1, <1>4, <1>5 DEF OnAllBidsDone, RespondWithChaff, Statuses

-----------------------------------------------------------------------------
(* Scoring signals and k-anonymity.                                          *)

\* Past the bids, a step that leaves them alone and does not start the chain over
\* keeps what IInv says of them, and of failures unless it finishes the request.
LEMMA BidsStay ==
    ASSUME IInv, chain # "bids", chain' # "bids", UNCHANGED bidVars,
           UNCHANGED <<requestVars, cache>>
    PROVE  /\ CountersMatchBuyers' /\ PlansFitInputs' /\ ReplayFollowsThePlan'
           /\ CallbackIsDueOnce'
           /\ \A b \in Buyer : bids'[b] # "none" => rpc'[b] = "SUCCESS"
           /\ (\E b \in Buyer : bids[b] # "none") => FailureIsReported'
           /\ finishes' = finishes => FailureIsReported'
<1> USE DEF bidVars, requestVars
<1>1. CountersMatchBuyers' /\ PlansFitInputs' /\ ReplayFollowsThePlan'
  BY BiddingStays DEF BiddingUnchanged
<1>2. exec # "execute" /\ ToDo' = ToDo /\ Unanswered' = Unanswered
  BY SameRpc DEF IInv, CallbackIsDueOnce
<1>3. CallbackIsDueOnce'
  BY <1>2 DEF IInv, CallbackIsDueOnce
<1>4. \A b \in Buyer : bids'[b] # "none" => rpc'[b] = "SUCCESS"
  BY DEF IInv, FinishedAtTheEnd
<1>5. (\E b \in Buyer : bids[b] # "none") => FailureIsReported'
  BY DEF IInv, FinishedAtTheEnd, FailureIsReported
<1>6. finishes' = finishes => FailureIsReported'
  BY DEF IInv, FailureIsReported
<1> QED
  BY <1>1, <1>3, <1>4, <1>5, <1>6

\* A task of the second tracker that reports.
LEMMA SignalTaskCounts ==
    ASSUME IInv, sigTracker.pending > 0, NEW s \in TaskStatus, SignalTaskCompleted(s)
    PROVE  /\ sigTracker' \in Trackers
           /\ sigTracker'.pending = sigTracker.pending - 1
           /\ chain' = IF sigTracker'.pending = 0 THEN "signalsDone" ELSE chain
<1>1. sigTracker \in Trackers
  BY DEF IInv, TypeOK
<1> QED
  BY <1>1, CountedFields DEF SignalTaskCompleted

\* Scoring signals are asked for once there are bids.
LEMMA FetchScoringSignalsKeeps ==
    ASSUME IInv, FetchScoringSignals
    PROVE  IInv'
<1>1. /\ TypeOK /\ chain = "fetch" /\ conf \in Flags /\ conf.fetch
      /\ kv = "none" /\ ~deleted
      /\ \E b \in Buyer : bids[b] # "none"
  BY SelectAdAssumption
     DEF IInv, FetchScoringSignals, TypeOK, ChainInOrder, FinishedAtTheEnd
<1>2. \/ \E s \in Statuses : FinishWithStatus(s) /\ kv' = kv
      \/ chain' = "wait" /\ kv' \in {"sent", "lost"} /\ finishes' = finishes
  BY DEF FetchScoringSignals, Statuses
<1>3. /\ chain' \in {"ended", "wait"} /\ finishes' \in Seq(Statuses)
      /\ Len(finishes') = IF chain' = "ended" THEN 1 ELSE 0
      /\ chain' = "wait" => kv' \in {"sent", "lost"}
      /\ chain' = "ended" => kv' = kv
  <2>1. CASE \E s \in Statuses : FinishWithStatus(s) /\ kv' = kv
    BY <1>1, <2>1, FinishOnce
  <2>2. CASE chain' = "wait" /\ kv' \in {"sent", "lost"} /\ finishes' = finishes
    BY <1>1, <2>2 DEF IInv, TypeOK, FinishedAtTheEnd
  <2> QED
    BY <1>2, <2>1, <2>2
<1>4. /\ CountersMatchBuyers' /\ PlansFitInputs' /\ ReplayFollowsThePlan'
      /\ CallbackIsDueOnce' /\ FailureIsReported'
      /\ \A b \in Buyer : bids'[b] # "none" => rpc'[b] = "SUCCESS"
  BY <1>1, <1>3, BidsStay DEF FetchScoringSignals
<1> USE DEF bidVars, requestVars
<1>5. TypeOK'
  BY <1>1, <1>3 DEF FetchScoringSignals, TypeOK
<1>6. SignalsTracked' /\ ChainInOrder'
  BY <1>1, <1>3 DEF IInv, FetchScoringSignals, SignalsTracked, KAnonPending, ChainInOrder
<1>7. FinishedAtTheEnd'
  BY <1>1, <1>3, <1>4 DEF FetchScoringSignals, FinishedAtTheEnd
<1> QED
  BY <1>4, <1>5, <1>6, <1>7 DEF IInv

\* While the lookup is on its way its task is pending and the chain waits.
LEMMA LookupIsAwaited ==
    ASSUME IInv, kv = "sent"
    PROVE  /\ TypeOK /\ chain = "wait" /\ conf \in Flags /\ conf.fetch /\ ~deleted
           /\ sigTracker.pending = KAnonPending + 1
           /\ KAnonPending \in {0, 1}
           /\ \E b \in Buyer : bids[b] # "none"
           /\ Len(finishes) = 0
BY SelectAdAssumption
   DEF IInv, TypeOK, ChainInOrder, FinishedAtTheEnd, SignalsTracked, KAnonPending, Flags

\* Signals of a key-value server come, or fail the request.
LEMMA OnScoringSignalsV1Keeps ==
    ASSUME IInv, OnScoringSignalsV1
    PROVE  IInv'
<1>1. /\ TypeOK /\ chain = "wait" /\ conf \in Flags /\ conf.fetch /\ ~deleted
      /\ sigTracker.pending = KAnonPending + 1
      /\ KAnonPending \in {0, 1}
      /\ \E b \in Buyer : bids[b] # "none"
      /\ Len(finishes) = 0
  BY LookupIsAwaited DEF OnScoringSignalsV1
<1>2. PICK s \in TaskStatus : SignalTaskCompleted(s)
  BY DEF OnScoringSignalsV1, TaskStatus
<1>3. /\ sigTracker' \in Trackers
      /\ sigTracker'.pending = KAnonPending
      /\ chain' = IF KAnonPending = 0 THEN "signalsDone" ELSE "wait"
  BY <1>1, <1>2, SignalTaskCounts
<1>4. /\ CountersMatchBuyers' /\ PlansFitInputs' /\ ReplayFollowsThePlan'
      /\ CallbackIsDueOnce' /\ FailureIsReported'
      /\ \A b \in Buyer : bids'[b] # "none" => rpc'[b] = "SUCCESS"
  BY <1>1, <1>3, BidsStay DEF OnScoringSignalsV1
<1> USE DEF bidVars, requestVars
<1>5. TypeOK'
  BY <1>1, <1>3 DEF OnScoringSignalsV1, TypeOK
<1>6. SignalsTracked' /\ ChainInOrder'
  BY <1>1, <1>3 DEF IInv, OnScoringSignalsV1, SignalsTracked, KAnonPending, ChainInOrder
<1>7. FinishedAtTheEnd'
  BY <1>1, <1>3, <1>4 DEF IInv, OnScoringSignalsV1, FinishedAtTheEnd
<1> QED
  BY <1>4, <1>5, <1>6, <1>7 DEF IInv

\* The callback of a V2 lookup may end the request itself, and leaves its task pending.
LEMMA OnScoringSignalsV2Keeps ==
    ASSUME IInv, OnScoringSignalsV2
    PROVE  IInv'
<1>1. /\ TypeOK /\ chain = "wait" /\ conf \in Flags /\ conf.fetch /\ ~deleted
      /\ sigTracker.pending = KAnonPending + 1
      /\ KAnonPending \in {0, 1}
      /\ \E b \in Buyer : bids[b] # "none"
      /\ Len(finishes) = 0
  BY LookupIsAwaited DEF OnScoringSignalsV2
<1>2. /\ kv' \in {"answered", "logging"}
      /\ \/ /\ \E s \in Statuses : FinishWithStatus(s)
            /\ sigTracker' = sigTracker /\ signals' = signals
         \/ /\ kv' = "answered" /\ signals' \in {"empty", "some"}
            /\ SignalTaskCompleted("SUCCESS") /\ finishes' = finishes
  BY DEF OnScoringSignalsV2, Statuses
<1>3. /\ sigTracker' \in Trackers /\ finishes' \in Seq(Statuses)
      /\ signals' \in {"unset", "error", "empty", "some"}
      /\ Len(finishes') = IF chain' = "ended" THEN 1 ELSE 0
      /\ \/ chain' = "ended" /\ sigTracker' = sigTracker
         \/ /\ kv' = "answered" /\ sigTracker'.pending = KAnonPending
            /\ chain' = IF KAnonPending = 0 THEN "signalsDone" ELSE "wait"
  <2>1. CASE /\ \E s \in Statuses : FinishWithStatus(s)
             /\ sigTracker' = sigTracker /\ signals' = signals
    BY <1>1, <2>1, FinishOnce DEF TypeOK
  <2>2. CASE /\ kv' = "answered" /\ signals' \in {"empty", "some"}
             /\ SignalTaskCompleted("SUCCESS") /\ finishes' = finishes
    <3>1. "SUCCESS" \in TaskStatus
      BY DEF TaskStatus
    <3>2. /\ sigTracker' \in Trackers
          /\ sigTracker'.pending = sigTracker.pending - 1
          /\ chain' = IF sigTracker'.pending = 0 THEN "signalsDone" ELSE chain
      BY <1>1, <2>2, <3>1, SignalTaskCounts
    <3> QED
      BY <1>1, <2>2, <3>2 DEF TypeOK
  <2> QED
    BY <1>2, <2>1, <2>2
<1>4. /\ CountersMatchBuyers' /\ PlansFitInputs' /\ ReplayFollowsThePlan'
      /\ CallbackIsDueOnce' /\ FailureIsReported'
      /\ \A b \in Buyer : bids'[b] # "none" => rpc'[b] = "SUCCESS"
  BY <1>1, <1>3, BidsStay DEF OnScoringSignalsV2
<1> USE DEF bidVars, requestVars
<1>5. TypeOK'
  BY <1>1, <1>2, <1>3 DEF OnScoringSignalsV2, TypeOK
<1>6. SignalsTracked' /\ ChainInOrder'
  BY <1>1, <1>2, <1>3
     DEF IInv, OnScoringSignalsV2, SignalsTracked, KAnonPending, ChainInOrder
<1>7. FinishedAtTheEnd'
  BY <1>1, <1>3, <1>4 DEF IInv, OnScoringSignalsV2, FinishedAtTheEnd
<1> QED
  BY <1>4, <1>5, <1>6, <1>7 DEF IInv

\* Logging changes nothing else.
LEMMA LogScoringSignalsKeeps ==
    ASSUME IInv, LogScoringSignals
    PROVE  IInv'
<1>1. /\ TypeOK /\ kv = "logging" /\ conf \in Flags
      /\ chain \in {"bids", "bidsDone", "fetch", "wait", "signalsDone", "score",
                    "scoring", "ended"}
  BY SelectAdAssumption DEF IInv, TypeOK, LogScoringSignals
<1>2. conf.fetch
  BY <1>1 DEF IInv, SignalsTracked
<1>3. chain = "ended"
  BY <1>1, <1>2 DEF IInv, ChainInOrder
<1>4. /\ CountersMatchBuyers' /\ PlansFitInputs' /\ ReplayFollowsThePlan'
      /\ CallbackIsDueOnce' /\ FailureIsReported'
      /\ \A b \in Buyer : bids'[b] # "none" => rpc'[b] = "SUCCESS"
  BY <1>3, BidsStay DEF LogScoringSignals
<1> USE DEF bidVars, requestVars
<1>5. TypeOK'
  BY <1>1 DEF LogScoringSignals, TypeOK
<1>6. SignalsTracked' /\ ChainInOrder' /\ FinishedAtTheEnd'
  BY <1>1, <1>2, <1>3, <1>4
     DEF IInv, LogScoringSignals, SignalsTracked, KAnonPending, ChainInOrder,
         FinishedAtTheEnd
<1> QED
  BY <1>4, <1>5, <1>6 DEF IInv

\* Until the query has been answered its task is pending, so that the chain is neither
\* before the bids nor past the tracker's callback.
LEMMA QueryIsAwaited ==
    ASSUME IInv, kanon \in {"queued", "querying"}
    PROVE  /\ TypeOK /\ conf \in Flags /\ conf.kanon /\ KAnonPending = 1
           /\ sigTracker.pending \in {1, 2}
           /\ chain \in {"fetch", "wait", "ended"}
           /\ sigTracker.pending = 1 => chain = "wait"
           /\ ~deleted \/ chain = "ended"
<1>1. TypeOK /\ conf \in Flags /\ conf.kanon
  BY SelectAdAssumption DEF IInv, TypeOK, SignalsTracked
<1>2. KAnonPending = 1
  BY <1>1 DEF KAnonPending
<1>3. sigTracker.pending \in {1, 2} /\ (sigTracker.pending = 1 => chain = "wait")
  BY <1>2 DEF IInv, SignalsTracked
<1>4. chain \in {"fetch", "wait", "ended"}
  BY <1>1, <1>3 DEF IInv, TypeOK, ChainInOrder
<1> QED
  BY <1>1, <1>2, <1>3, <1>4 DEF IInv, FinishedAtTheEnd

\* The query's task reports, from QueryKAnonHashes or from the service's answer.
LEMMA QueryReports ==
    ASSUME IInv, kanon \in {"queued", "querying"}, kanon' \in {"inserting", "done"},
           NEW s \in TaskStatus, SignalTaskCompleted(s), UNCHANGED bidVars,
           UNCHANGED <<kv, signals, requestVars, cache, finishes>>
    PROVE  IInv'
<1>1. /\ TypeOK /\ conf \in Flags /\ conf.kanon /\ KAnonPending = 1
      /\ sigTracker.pending \in {1, 2}
      /\ chain \in {"fetch", "wait", "ended"}
      /\ sigTracker.pending = 1 => chain = "wait"
  BY QueryIsAwaited
<1>2. /\ sigTracker' \in Trackers
      /\ sigTracker'.pending = sigTracker.pending - 1
      /\ chain' = IF sigTracker'.pending = 0 THEN "signalsDone" ELSE chain
  BY <1>1, SignalTaskCounts
<1>3. /\ CountersMatchBuyers' /\ PlansFitInputs' /\ ReplayFollowsThePlan'
      /\ CallbackIsDueOnce' /\ FailureIsReported'
      /\ \A b \in Buyer : bids'[b] # "none" => rpc'[b] = "SUCCESS"
  BY <1>1, <1>2, BidsStay
<1> USE DEF bidVars, requestVars
<1>4. TypeOK'
  BY <1>1, <1>2 DEF TypeOK
<1>5. KAnonPending' = 0
  BY DEF KAnonPending
<1>6. SignalsTracked'
  BY <1>1, <1>2, <1>5 DEF IInv, SignalsTracked, ChainInOrder
<1>7. ChainInOrder'
  BY <1>1, <1>2 DEF IInv, ChainInOrder, SignalsTracked
<1>8. FinishedAtTheEnd'
  BY <1>1, <1>2, <1>3 DEF IInv, FinishedAtTheEnd
<1> QED
  BY <1>3, <1>4, <1>6, <1>7, <1>8 DEF IInv

\* The query goes on without reporting: it is sent, or its hashes are inserted.
LEMMA QueryGoesOn ==
    ASSUME IInv, UNCHANGED <<bidVars, sigTracker, kv, signals, requestVars, cache, chain,
                             finishes>>,
           \/ kanon = "queued" /\ kanon' = "querying"
           \/ kanon = "inserting" /\ kanon' = "done"
    PROVE  IInv'
<1>1. TypeOK /\ conf \in Flags /\ conf.kanon
  BY SelectAdAssumption DEF IInv, TypeOK, SignalsTracked
<1> USE DEF bidVars, requestVars
<1>2. chain # "bids"
  BY DEF IInv, ChainInOrder
<1>3. /\ CountersMatchBuyers' /\ PlansFitInputs' /\ ReplayFollowsThePlan'
      /\ CallbackIsDueOnce' /\ FailureIsReported'
      /\ \A b \in Buyer : bids'[b] # "none" => rpc'[b] = "SUCCESS"
  BY <1>2, BidsStay
<1>4. TypeOK'
  BY <1>1 DEF TypeOK
<1>5. KAnonPending' = KAnonPending
  BY DEF KAnonPending
<1>6. SignalsTracked'
  BY <1>1, <1>5 DEF IInv, SignalsTracked
<1>7. ChainInOrder' /\ FinishedAtTheEnd'
  BY <1>3 DEF IInv, ChainInOrder, FinishedAtTheEnd
<1> QED
  BY <1>3, <1>4, <1>6, <1>7 DEF IInv

\* The steps of the k-anonymity query.
LEMMA KAnonStepsKeep ==
    ASSUME IInv, QueryKAnonHashes \/ OnKAnonHashes \/ InsertKAnonHashes
    PROVE  IInv'
<1>1. {"SKIPPED", "SUCCESS", "ERROR"} \subseteq TaskStatus
  BY DEF TaskStatus
<1>2. CASE QueryKAnonHashes
  <2>1. CASE kanon' = "done" /\ \E s \in {"SKIPPED", "SUCCESS", "ERROR"} : SignalTaskCompleted(s)
    BY <1>1, <1>2, <2>1, QueryReports DEF QueryKAnonHashes
  <2>2. CASE kanon' = "querying" /\ UNCHANGED <<sigTracker, chain>>
    BY <1>2, <2>2, QueryGoesOn DEF QueryKAnonHashes
  <2> QED
    BY <1>2, <2>1, <2>2 DEF QueryKAnonHashes
<1>3. CASE OnKAnonHashes
  BY <1>1, <1>3, QueryReports DEF OnKAnonHashes
<1>4. CASE InsertKAnonHashes
  BY <1>4, QueryGoesOn DEF InsertKAnonHashes
<1> QED
  BY <1>2, <1>3, <1>4

\* A step of the chain that leaves the signals and the query alone: it goes on to the
\* next callback or finishes the request.
LEMMA ChainGoesOn ==
    ASSUME IInv, chain \in {"signalsDone", "score", "scoring"},
           UNCHANGED <<bidVars, sigVars, requestVars, cache>>,
           \/ \E s \in Statuses : FinishWithStatus(s)
           \/ /\ chain' \in {"score", "scoring"} /\ finishes' = finishes
              /\ conf.fetch => signals = "some"
    PROVE  IInv'
<1> USE DEF bidVars, sigVars, requestVars
<1>1. /\ TypeOK /\ conf \in Flags /\ ~deleted
      /\ \E b \in Buyer : bids[b] # "none"
      /\ Len(finishes) = 0
  BY SelectAdAssumption DEF IInv, TypeOK, ChainInOrder, FinishedAtTheEnd
<1>2. /\ chain' \in {"score", "scoring", "ended"} /\ finishes' \in Seq(Statuses)
      /\ Len(finishes') = IF chain' = "ended" THEN 1 ELSE 0
      /\ chain' \in {"score", "scoring"} => (conf.fetch => signals = "some")
  <2>1. CASE \E s \in Statuses : FinishWithStatus(s)
    BY <2>1, FinishOnce
  <2>2. CASE /\ chain' \in {"score", "scoring"} /\ finishes' = finishes
             /\ conf.fetch => signals = "some"
    BY <1>1, <2>2 DEF TypeOK
  <2> QED
    BY <2>1, <2>2
<1>3. /\ CountersMatchBuyers' /\ PlansFitInputs' /\ ReplayFollowsThePlan'
      /\ CallbackIsDueOnce' /\ FailureIsReported'
      /\ \A b \in Buyer : bids'[b] # "none" => rpc'[b] = "SUCCESS"
  BY <1>1, <1>2, BidsStay
<1>4. TypeOK'
  BY <1>1, <1>2 DEF TypeOK
<1>5. KAnonPending' = KAnonPending
  BY DEF KAnonPending
<1>6. SignalsTracked'
  BY <1>1, <1>2, <1>5 DEF IInv, SignalsTracked, ChainInOrder
<1>7. ChainInOrder'
  BY <1>1, <1>2 DEF IInv, ChainInOrder
<1>8. FinishedAtTheEnd'
  BY <1>1, <1>2, <1>3 DEF IInv, FinishedAtTheEnd
<1> QED
  BY <1>3, <1>4, <1>6, <1>7, <1>8 DEF IInv

\* The steps of the auction and of the response.
LEMMA ScoringStepsKeep ==
    ASSUME IInv, OnFetchScoringSignalsDone \/ ScoreAds \/ OnScoreAdsDone
    PROVE  IInv'
<1>1. {"OK", "CANCELLED", "INVALID_ARGUMENT", "INTERNAL", "UNAVAILABLE"} \subseteq Statuses
  BY DEF Statuses
<1>2. CASE OnFetchScoringSignalsDone
  BY <1>1, <1>2, ChainGoesOn DEF OnFetchScoringSignalsDone, RespondWithChaff
<1>3. CASE ScoreAds
  <2>1. conf.fetch => signals = "some"
    BY <1>3 DEF IInv, ChainInOrder, ScoreAds
  <2> QED
    BY <1>1, <1>3, <2>1, ChainGoesOn DEF ScoreAds
<1>4. CASE OnScoreAdsDone
  BY <1>1, <1>4, ChainGoesOn DEF OnScoreAdsDone, RespondWithChaff
<1> QED
  BY <1>2, <1>3, <1>4

-----------------------------------------------------------------------------
(* The client, gRPC and the next request with the same ciphertext.           *)

\* Steps that change nothing but cancelled or deleted.
LEMMA OutsideStepsKeep ==
    ASSUME IInv, Cancel \/ OnDone \/ UNCHANGED vars
    PROVE  IInv'
<1> USE DEF bidVars, sigVars, requestVars
<1>1. /\ UNCHANGED <<bidVars, sigVars, conf, requests, inputs, previous, cache, chain,
                     finishes>>
      /\ cancelled' \in BOOLEAN /\ deleted' \in BOOLEAN
      /\ deleted' => chain = "ended" /\ exec = "returned"
  <2>1. CASE Cancel
    <3>1. cancelled' \in BOOLEAN /\ deleted' = deleted /\ deleted \in BOOLEAN
      BY <2>1 DEF IInv, TypeOK, Cancel
    <3> QED
      BY <2>1, <3>1 DEF IInv, FinishedAtTheEnd, Cancel
  <2>2. CASE UNCHANGED vars
    <3>1. cancelled' \in BOOLEAN /\ deleted' = deleted /\ deleted \in BOOLEAN
      BY <2>2 DEF IInv, TypeOK, vars
    <3> QED
      BY <2>2, <3>1 DEF IInv, FinishedAtTheEnd, vars
  <2>3. CASE OnDone
    <3>1. finishes \in Seq(Statuses) /\ finishes # <<>>
      BY <2>3 DEF IInv, TypeOK, OnDone
    <3>2. Len(finishes) # 0
      BY <3>1, EmptySeq
    <3>3. chain = "ended"
      BY <3>2 DEF IInv, FinishedAtTheEnd
    <3> QED
      BY <2>3, <3>3 DEF IInv, TypeOK, OnDone
  <2> QED
    BY <2>1, <2>2, <2>3
<1>2. CountersMatchBuyers' /\ PlansFitInputs' /\ ReplayFollowsThePlan'
  BY <1>1, BiddingStays DEF BiddingUnchanged
<1>3. TypeOK'
  BY <1>1 DEF IInv, TypeOK
<1>4. CallbackIsDueOnce'
  BY <1>1, SameRpc DEF IInv, CallbackIsDueOnce
<1>5. SignalsTracked' /\ ChainInOrder' /\ FinishedAtTheEnd' /\ FailureIsReported'
  BY <1>1 DEF IInv, SignalsTracked, KAnonPending, ChainInOrder, FinishedAtTheEnd,
              FailureIsReported
<1> QED
  BY <1>2, <1>3, <1>4, <1>5 DEF IInv

\* A replay begins with a new reactor, and with the plan that was cached.
LEMMA ReplayKeeps ==
    ASSUME IInv, Replay
    PROVE  IInv'
<1>1. /\ Tracking(0) \in Trackers /\ Tracking(0).pending = 0
      /\ \A s \in TaskStatus : Tracking(0).count[s] = 0
  BY TrackingFields
<1>2. /\ sigTracker' \in Trackers /\ sigTracker'.pending = SignalTasks(conf)
      /\ TypeOK /\ conf \in Flags
  BY TrackingFields, SelectAdAssumption DEF IInv, TypeOK, Replay, SignalTasks
<1>3. requests' \in 1..MaxRequests
  BY <1>2, SelectAdAssumption DEF Replay, TypeOK
<1>4. TypeOK'
  <2>1. /\ rpc' \in [Buyer -> RpcState]
        /\ bids' \in [Buyer -> BidKind \cup {"none"}]
    BY DEF Replay, RpcState
  <2>2. finishes' \in Seq(Statuses)
    BY EmptySeq DEF Replay
  <2> QED
    BY <1>1, <1>2, <1>3, <2>1, <2>2 DEF Replay, TypeOK
<1>5. /\ ToDo' = {} /\ Unanswered' = {}
      /\ \A s \in TaskStatus : EndedWith(s)' = {}
  BY DEF Replay, ToDo, Unanswered, EndedWith, TaskStatus
<1>6. CountersMatchBuyers' /\ CallbackIsDueOnce'
  BY <1>1, <1>5, FS_EmptySet DEF Replay, CountersMatchBuyers, CallbackIsDueOnce
<1>7. PlansFitInputs'
  BY <1>2, <1>5, FS_EmptySet, SelectAdAssumption
     DEF IInv, Replay, PlansFitInputs, PlanFitsInputs, BuyersOf
<1>8. ReplayFollowsThePlan'
  BY <1>5 DEF Replay, ReplayFollowsThePlan
<1>9. SignalsTracked'
  BY <1>2 DEF Replay, SignalsTracked, KAnonPending, SignalTasks, Flags
<1>10. ChainInOrder' /\ FinishedAtTheEnd' /\ FailureIsReported'
  BY DEF Replay, ChainInOrder, FinishedAtTheEnd, FailureIsReported
<1> QED
  BY <1>4, <1>6, <1>7, <1>8, <1>9, <1>10 DEF IInv

-----------------------------------------------------------------------------
(* The theorems.                                                             *)

\* Every step keeps the invariant.
LEMMA NextKeeps == IInv /\ [Next]_vars => IInv'
<1> SUFFICES ASSUME IInv, [Next]_vars
             PROVE  IInv'
  OBVIOUS
<1>1. CASE Progress
  BY <1>1, RejectRequestKeeps, FetchBidsKeeps, EndFetchBidsKeeps, SkipBuyerKeeps,
     FetchBidKeeps, OnFetchBidsDoneKeeps, OnAllBidsDoneKeeps, FetchScoringSignalsKeeps,
     OnScoringSignalsV1Keeps, OnScoringSignalsV2Keeps, LogScoringSignalsKeeps,
     KAnonStepsKeep, ScoringStepsKeep, OutsideStepsKeep
     DEF Progress
<1>2. CASE Replay
  BY <1>2, ReplayKeeps
<1> QED
  BY <1>1, <1>2, OutsideStepsKeep DEF Next

\* What every state of a request and of its replays satisfies.
THEOREM InductiveInvariant == Spec => []IInv
<1>1. Init => IInv
  BY InitIInv
<1>2. IInv /\ [Next]_vars => IInv'
  BY NextKeeps
<1> QED
  BY <1>1, <1>2, PTL DEF Spec

\* The values of every variable.
THEOREM TypeCorrect == Spec => []TypeOK
<1>1. IInv => TypeOK
  BY DEF IInv
<1> QED
  BY <1>1, InductiveInvariant, PTL

\* on_all_tasks_done_ starts when every buyer has answered or been passed over, and
\* what is pending once every request is dispatched are the calls in flight.
THEOREM BuyersAccountedFor == Spec => []AllBuyersAccountedFor
<1>1. IInv => AllBuyersAccountedFor
  <2> SUFFICES ASSUME IInv PROVE AllBuyersAccountedFor
    OBVIOUS
  <2>1. chain # "bids" => \A b \in Buyer : rpc[b] \notin {"todo", "sent"}
    BY DEF IInv, CallbackIsDueOnce, Unanswered
  <2>2. exec = "returned" => Unanswered = {b \in Buyer : rpc[b] = "sent"}
    BY DEF IInv, CallbackIsDueOnce, ToDo, Unanswered
  <2> QED
    BY <2>1, <2>2 DEF IInv, CountersMatchBuyers, AllBuyersAccountedFor
<1> QED
  BY <1>1, InductiveInvariant, PTL

\* Bids are scored with the signals and the k-anonymity they need, whichever of the
\* lookup and the query comes last.
THEOREM SignalsAndKAnonKnown == Spec => []ScoredWithSignalsAndKAnon
<1>1. IInv => ScoredWithSignalsAndKAnon
  <2> SUFFICES ASSUME IInv, chain \in {"score", "scoring"}
               PROVE  /\ conf.fetch => signals = "some"
                      /\ conf.kanon => kanon \in {"inserting", "done"}
    BY DEF ScoredWithSignalsAndKAnon
  <2>1. conf.fetch => signals = "some"
    BY DEF IInv, ChainInOrder
  <2>2. ASSUME conf.kanon, kanon \notin {"inserting", "done"}
        PROVE  FALSE
    <3>1. KAnonPending = 1
      BY <2>2 DEF KAnonPending
    <3>2. sigTracker.pending = 0
      BY <2>2 DEF IInv, ChainInOrder
    <3> QED
      BY <3>1, <3>2 DEF IInv, SignalsTracked
  <2> QED
    BY <2>1, <2>2
<1> QED
  BY <1>1, InductiveInvariant, PTL

\* A replay asks exactly the buyers the first request asked, for any cap, and whatever
\* buyers are chaff.
THEOREM ReplaysAreAlike == Spec => []ReplayAsksTheSameBuyers
<1>1. IInv => ReplayAsksTheSameBuyers
  <2> SUFFICES ASSUME IInv, previous # NoEntry, exec = "returned",
                      rpc # [b \in Buyer |-> "none"]
               PROVE  solicited = previous.chaff \cup previous.nonChaff
    BY DEF ReplayAsksTheSameBuyers
  <2>1. \E b \in Buyer : rpc[b] # "none"
    BY DEF IInv, TypeOK
  <2>2. ToDo = {}
    BY DEF IInv, CallbackIsDueOnce
  <2> QED
    BY <2>1, <2>2 DEF IInv, ReplayFollowsThePlan, BuyersOf
<1> QED
  BY <1>1, InductiveInvariant, PTL

\* Finish is called at most once whatever the order of callbacks, and no RPC or lookup
\* that is waited for outlives the reactor.
THEOREM FinishedAtMostOnce == Spec => []FinishedOnceAndLast
<1>1. IInv => FinishedOnceAndLast
  <2> SUFFICES ASSUME IInv PROVE FinishedOnceAndLast
    OBVIOUS
  <2>1. Len(finishes) <= 1
    BY DEF IInv, FinishedAtTheEnd
  <2>2. deleted => chain = "ended" /\ kv # "sent"
    BY DEF IInv, FinishedAtTheEnd, ChainInOrder
  <2>3. deleted => \A b \in Buyer : rpc[b] # "sent"
    BY <2>2 DEF IInv, FinishedAtTheEnd, CallbackIsDueOnce, Unanswered
  <2> QED
    BY <2>1, <2>2, <2>3 DEF FinishedOnceAndLast
<1> QED
  BY <1>1, InductiveInvariant, PTL

\* A request that failed at some buyer and was answered by none is never answered as
\* if no buyer had bid.
THEOREM FailuresAreReported == Spec => []FailureIsReported
<1>1. IInv => FailureIsReported
  BY DEF IInv
<1> QED
  BY <1>1, InductiveInvariant, PTL
=============================================================================
