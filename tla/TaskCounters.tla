---------------------------- MODULE TaskCounters ----------------------------
(* The data of AsyncTaskTracker (src/services/common/util/async_task_tracker *)
(* .{h,cc}): what the object counts under mu_, as operators on a record, so  *)
(* that every reactor holding a tracker counts its tasks the same way.       *)
EXTENDS Integers

\* enum class TaskStatus without UNKNOWN, which no caller passes.
TaskStatus == {"SKIPPED", "EMPTY_RESPONSE", "CANCELLED", "ERROR", "SUCCESS"}

\* The tracker after the constructor or SetNumTasksToTrack(n): every counter is
\* reset and n tasks are pending.
Tracking(n) ==
    [num |-> n, pending |-> n, count |-> [s \in TaskStatus |-> 0]]

Trackers == [num : Nat, pending : Nat, count : [TaskStatus -> Nat]]

\* Mutants: a task that counts for two, and a CANCELLED that is not counted.
CountedTwice(tr, s) ==
    [num |-> tr.num, pending |-> tr.pending - 2,
     count |-> [tr.count EXCEPT ![s] = @ + 1]]
CountedUnlessCancelled(tr, s) ==
    [num |-> tr.num, pending |-> tr.pending - 1,
     count |-> IF s = "CANCELLED" THEN tr.count
               ELSE [tr.count EXCEPT ![s] = @ + 1]]

\* One TaskCompleted(s), without its callbacks.
Counted(tr, s) ==
    [num |-> tr.num, pending |-> tr.pending - 1,
     count |-> [tr.count EXCEPT ![s] = @ + 1]]

\* sum_tasks_count: the counters and the pending tasks together, which the DCHECK
\* in AnyTaskSuccessfullyCompleted compares with the number of tasks.
SumTasksCount(tr) ==
    tr.count["SKIPPED"] + tr.count["SUCCESS"] + tr.count["ERROR"]
      + tr.count["EMPTY_RESPONSE"] + tr.pending + tr.count["CANCELLED"]

\* The argument of on_all_tasks_done_. An empty or a skipped task allows a chaff
\* response; with no error at all, every task was cancelled.
AnyTaskSuccessfullyCompleted(tr) ==
    \/ tr.count["SUCCESS"] > 0
    \/ tr.count["EMPTY_RESPONSE"] > 0
    \/ tr.count["SKIPPED"] > 0
    \/ tr.count["ERROR"] = 0
=============================================================================
