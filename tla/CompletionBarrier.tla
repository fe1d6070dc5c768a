------------------------- MODULE CompletionBarrier --------------------------
(* What AsyncTaskTracker promises its clients (the class comment in          *)
(* async_task_tracker.h): tasks complete in any order and from any thread;   *)
(* once all have, the registered callback runs, once, with a summary of how  *)
(* they ended. It speaks of tasks and outcomes only, of no counter or lock.  *)
EXTENDS Sequences, TaskCounters

CONSTANT Task

VARIABLES tracked,   \* the tasks the client has announced
          outcome,   \* how each task ended, "UNKNOWN" until it does
          calls      \* the arguments on_all_tasks_done_ was called with

barrierVars == <<tracked, outcome, calls>>

AllCompleted ==
    tracked # {} /\ \A t \in tracked : outcome[t] # "UNKNOWN"

\* True unless some task failed and every other one failed or was cancelled.
Summary ==
    \/ \E t \in tracked :
          outcome[t] \in {"SUCCESS", "EMPTY_RESPONSE", "SKIPPED"}
    \/ \A t \in tracked : outcome[t] # "ERROR"

BarrierInit ==
    /\ tracked = {}
    /\ outcome = [t \in Task |-> "UNKNOWN"]
    /\ calls = <<>>

Announce(S) ==
    /\ \A t \in Task : outcome[t] = "UNKNOWN"
    /\ tracked' = S
    /\ UNCHANGED <<outcome, calls>>

Complete(t, s) ==
    /\ t \in tracked
    /\ outcome[t] = "UNKNOWN"
    /\ outcome' = [outcome EXCEPT ![t] = s]
    /\ UNCHANGED <<tracked, calls>>

Fire ==
    /\ AllCompleted
    /\ calls = <<>>
    /\ calls' = <<Summary>>
    /\ UNCHANGED <<tracked, outcome>>

BarrierNext ==
    \/ \E S \in SUBSET Task : Announce(S)
    \/ \E t \in Task, s \in TaskStatus : Complete(t, s)
    \/ Fire

\* The safety half, and the promise that a completed set of tasks is reported.
BarrierSafety == BarrierInit /\ [][BarrierNext]_barrierVars
BarrierSpec == BarrierSafety /\ WF_barrierVars(Fire)
=============================================================================
