-------------------------- MODULE AsyncTaskTracker --------------------------
(* AsyncTaskTracker with its lock and its callers: one thread per task calls *)
(* TaskCompleted; the critical section under mu_ runs on_single_task_done,   *)
(* counts the task and decides whether it was the last; the callback of all  *)
(* tasks runs after the lock is released, in the thread of the last task.    *)
EXTENDS FiniteSets, Sequences, TaskCounters

CONSTANTS Task,    \* the tasks (RPCs to buyers, lookups) a client may track
          NoTask   \* the owner of a free lock

ASSUME TaskAssumption == IsFiniteSet(Task) /\ NoTask \notin Task

VARIABLES
    tracked,    \* the tasks the client announced by SetNumTasksToTrack
    tracker,    \* the counters: num_tasks_to_track_, pending_tasks_count_, ...
    mu,         \* the task whose thread holds mu_
    pc,         \* where each task's thread is in TaskCompleted
    status,     \* the task_status argument of each task
    isLast,     \* the local is_last_response of each thread
    anySuccess, \* the local any_successful_tasks of each thread
    merged,     \* the tasks whose on_single_task_done has run
    calls       \* the arguments on_all_tasks_done_ was invoked with

vars == <<tracked, tracker, mu, pc, status, isLast, anySuccess, merged, calls>>

Control == {"running", "acquire", "locked", "merged", "counted", "unlocked",
            "returned"}

TypeOK ==
    /\ tracked \subseteq Task
    /\ tracker \in Trackers
    /\ mu \in Task \cup {NoTask}
    /\ pc \in [Task -> Control]
    /\ status \in [Task -> TaskStatus \cup {"UNKNOWN"}]
    /\ isLast \in [Task -> BOOLEAN]
    /\ anySuccess \in [Task -> BOOLEAN]
    /\ merged \subseteq Task
    /\ calls \in Seq(BOOLEAN)

Init ==
    /\ tracked = {}
    /\ tracker = Tracking(0)
    /\ mu = NoTask
    /\ pc = [t \in Task |-> "running"]
    /\ status = [t \in Task |-> "UNKNOWN"]
    /\ isLast = [t \in Task |-> FALSE]
    /\ anySuccess = [t \in Task |-> FALSE]
    /\ merged = {}
    /\ calls = <<>>

Goto(t, from, to) == pc[t] = from /\ pc' = [pc EXCEPT ![t] = to]

\* SetNumTasksToTrack: the reactors call it, once or twice (the number of buyers
\* in the request, then of those to be called), before they start any task.
SetNumTasksToTrack(S) ==
    /\ \A t \in Task : pc[t] = "running"
    /\ tracked' = S
    /\ tracker' = Tracking(Cardinality(S))
    /\ UNCHANGED <<mu, pc, status, isLast, anySuccess, merged, calls>>

\* A task's thread enters TaskCompleted and waits for the lock.
TaskCompleted(t, s) ==
    /\ t \in tracked
    /\ Goto(t, "running", "acquire")
    /\ status' = [status EXCEPT ![t] = s]
    /\ UNCHANGED <<tracked, tracker, mu, isLast, anySuccess, merged, calls>>

Lock(t) ==
    /\ mu = NoTask
    /\ Goto(t, "acquire", "locked")
    /\ mu' = t
    /\ UNCHANGED <<tracked, tracker, status, isLast, anySuccess, merged, calls>>

\* (*on_single_task_done)(): the client stores the task's response.
OnSingleTaskDone(t) ==
    /\ Goto(t, "locked", "merged")
    /\ merged' = merged \cup {t}
    /\ UNCHANGED <<tracked, tracker, mu, status, isLast, anySuccess, calls>>

\* Mutant: the last but one is taken for the last.
AtMostOneIsPending(tr) == tr.pending <= 1

\* if (pending_tasks_count_ == 0), on the counters of the moment.
NoneIsPending(tr) == tr.pending = 0

Count(t) ==
    LET tr == Counted(tracker, status[t])
    IN  /\ Goto(t, "merged", "counted")
        /\ tracker' = tr
        /\ isLast' = [isLast EXCEPT ![t] = NoneIsPending(tr)]
        /\ anySuccess' = [anySuccess EXCEPT
              ![t] = NoneIsPending(tr) /\ AnyTaskSuccessfullyCompleted(tr)]
        /\ UNCHANGED <<tracked, mu, status, merged, calls>>

Unlock(t) ==
    /\ Goto(t, "counted", "unlocked")
    /\ mu' = NoTask
    /\ UNCHANGED <<tracked, tracker, status, isLast, anySuccess, merged, calls>>

\* Mutant: the counter is read again without the lock.
NoneIsPendingNow(t) == tracker.pending = 0

\* if (is_last_response), on the thread's own copy taken under the lock.
IsLastResponse(t) == isLast[t]

OnAllTasksDone(t) ==
    /\ Goto(t, "unlocked", "returned")
    /\ calls' = IF IsLastResponse(t) THEN Append(calls, anySuccess[t]) ELSE calls
    /\ UNCHANGED <<tracked, tracker, mu, status, isLast, anySuccess, merged>>

InTaskCompleted(t) ==
    \/ Lock(t)
    \/ OnSingleTaskDone(t)
    \/ Count(t)
    \/ Unlock(t)
    \/ OnAllTasksDone(t)

Next ==
    \/ \E S \in SUBSET Task : SetNumTasksToTrack(S)
    \/ \E t \in Task, s \in TaskStatus : TaskCompleted(t, s)
    \/ \E t \in Task : InTaskCompleted(t)

\* Threads inside TaskCompleted are scheduled, and a thread does not wait for
\* mu_ forever: the lock is taken by finitely many threads, once each.
Spec ==
    /\ Init
    /\ [][Next]_vars
    /\ \A t \in Task : WF_vars(InTaskCompleted(t))

-----------------------------------------------------------------------------

CountedTasks == {t \in Task : pc[t] \in {"counted", "unlocked", "returned"}}

EndedWith(s) == {t \in CountedTasks : status[t] = s}

\* Every counter is the number of tasks that ended so and pending_tasks_count_
\* the number of those still to end: no order in which the threads of
\* TaskCompleted take the lock loses a task or counts it twice.
CountersMatchTasks ==
    /\ tracker.num = Cardinality(tracked)
    /\ tracker.pending = Cardinality(tracked \ CountedTasks)
    /\ \A s \in TaskStatus : tracker.count[s] = Cardinality(EndedWith(s))

\* Both DCHECKs of the class hold: a thread that got the lock finds
\* pending_tasks_count_ > 0 ("Unexpected call"), and the counters add up to
\* num_tasks_to_track_, in AnyTaskSuccessfullyCompleted as everywhere.
DChecksHold ==
    /\ \A t \in Task : pc[t] \in {"locked", "merged"} => tracker.pending > 0
    /\ SumTasksCount(tracker) = tracker.num

\* When on_all_tasks_done_ runs, the closure of every task has run: a client
\* that reads in this callback what its closures wrote needs no lock of its own
\* ("The map can be freely used without a lock after all the bids have
\* completed", select_ad_reactor.h).
ResponsesMergedBeforeCallback == calls # <<>> => merged = tracked

Barrier == INSTANCE CompletionBarrier
              WITH outcome <- [t \in Task |-> IF t \in CountedTasks
                                                THEN status[t] ELSE "UNKNOWN"]

\* The lock, the counters and the threads implement the barrier: one call, after
\* the last task, whose argument is the summary of all the outcomes, and the
\* call is made.
ImplementsBarrier == Barrier!BarrierSpec

-----------------------------------------------------------------------------
(* The inductive invariant behind the theorems of SharedStateProofs.    *)

\* The thread inside the critical section is the owner of the lock.
MutualExclusion ==
    \A t \in Task : pc[t] \in {"locked", "merged", "counted"} <=> mu = t

\* A task has a status from its call on, and only announced tasks call.
CallersAreTracked ==
    /\ \A t \in Task : pc[t] = "running" <=> status[t] = "UNKNOWN"
    /\ \A t \in Task : pc[t] # "running" => t \in tracked

MergedTasks ==
    merged = {t \in Task :
                 pc[t] \in {"merged", "counted", "unlocked", "returned"}}

\* At most one thread is the last, and only when every task has been counted.
LastIsUnique ==
    /\ \A t \in Task : isLast[t] =>
          t \in CountedTasks /\ CountedTasks = tracked
    /\ \A t, u \in Task : isLast[t] /\ isLast[u] => t = u

\* What the last thread computed under the lock is the summary of all outcomes,
\* and it is the one argument of the one call.
SummaryIsRight ==
    /\ \A t \in Task : isLast[t] => anySuccess[t] = Barrier!Summary
    /\ (\A t \in Task : ~(isLast[t] /\ pc[t] = "returned")) => calls = <<>>
    /\ (\E t \in Task : isLast[t] /\ pc[t] = "returned")
          => calls = <<Barrier!Summary>>

\* What every step of every thread preserves: the counters of TaskCompleted stand
\* for the tasks, the lock for its owner, is_last_response for the last task.
IInv ==
    /\ TypeOK
    /\ CountersMatchTasks
    /\ MutualExclusion
    /\ CallersAreTracked
    /\ MergedTasks
    /\ LastIsUnique
    /\ SummaryIsRight
=============================================================================
