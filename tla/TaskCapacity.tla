--------------------------- MODULE TaskCapacity ---------------------------
(***************************************************************************)
(* How one queue proxy process tells the lifecycle service that its queue  *)
(* became empty.  Every handler that changes a task reads whether active   *)
(* tasks are left, awaits the lifecycle's reconcile and only then arms or  *)
(* disarms the delayed idle reconcile from what it read.                   *)
(***************************************************************************)
EXTENDS Integers, Sequences, SequencesExt

CONSTANTS MaxOpen,       \* bound: active tasks in the store
          MaxInFlight,   \* bound: handlers that await the lifecycle at a time
          InOrder        \* whether the lifecycle answers in the order of the calls

ASSUME MaxOpenAssumption == MaxOpen \in Nat \ {0}
ASSUME MaxInFlightAssumption == MaxInFlight \in Nat \ {0}
ASSUME InOrderAssumption == InOrder \in BOOLEAN

VARIABLES open,       \* how many rows are in ACTIVE_STATES
          inflight,   \* per awaiting handler, whether queue_lengths was empty
          timer,      \* idle_reconcile_task
          idle        \* what became of the delayed reconcile of this idle period

vars == <<open, inflight, timer, idle>>

(* "late" is a POST under way while a new task has already arrived. *)
Timer == {"none", "sleeping", "posting", "late"}

(* Type invariant of the counters, the awaiting handlers and the timer. *)
TypeOK ==
    /\ open \in 0 .. MaxOpen
    /\ inflight \in Seq(BOOLEAN)
    /\ timer \in Timer
    /\ idle \in {"due", "done", "failed"}

Init ==
    /\ open = 0
    /\ inflight = <<>>
    /\ timer = "none"
    /\ idle = "done"

(***************************************************************************)
(* A handler changes the store, reads queue_lengths_by_model and starts to *)
(* await the lifecycle: no await lies in between.                          *)
(***************************************************************************)
AwaitLifecycle(n) ==
    /\ Len(inflight) < MaxInFlight
    /\ open' = n
    /\ inflight' = Append(inflight, n = 0)

(* submit_task_queue stores a new task, or a late retry revives a cancelled one. *)
Submit ==
    /\ open < MaxOpen
    /\ AwaitLifecycle(open + 1)
    /\ idle' = "due"
    /\ timer' = IF timer = "posting" THEN "late" ELSE timer

(* Mutant: a task that is settled already is settled again. *)
SettleTwice ==
    /\ AwaitLifecycle(open - 1)
    /\ UNCHANGED <<timer, idle>>

(* The executor records a final outcome, or cancel_task cancels an active task. *)
Settle ==
    /\ open > 0
    /\ AwaitLifecycle(open - 1)
    /\ UNCHANGED <<timer, idle>>

(* A retry, a resubmitted key or a repeated cancel: the active rows stay. *)
Revisit ==
    /\ AwaitLifecycle(open)
    /\ UNCHANGED <<timer, idle>>

(* Mutant: a timer that is not done is kept instead of replaced. *)
ScheduleUnlessPending(wasEmpty) ==
    timer' = IF ~wasEmpty THEN "none" ELSE IF timer = "none" THEN "sleeping" ELSE timer

(***************************************************************************)
(* schedule_idle_reconcile_if_empty cancels the pending timer either way,  *)
(* a POST it has under way included, and arms a new one for an empty queue.*)
(***************************************************************************)
ScheduleIdleReconcileIfEmpty(wasEmpty) ==
    timer' = IF wasEmpty THEN "sleeping" ELSE "none"

MayAnswer(i) == InOrder => i = 1

(* reconcile_capacity returns: answered, or failed with an httpx.HTTPError. *)
Answer(i) ==
    /\ MayAnswer(i)
    /\ ScheduleIdleReconcileIfEmpty(inflight[i])
    /\ inflight' = RemoveAt(inflight, i)
    /\ UNCHANGED <<open, idle>>

(* It raises something else, and the handler ends before it reaches the timer. *)
AnswerRaises(i) ==
    /\ MayAnswer(i)
    /\ inflight' = RemoveAt(inflight, i)
    /\ idle' = IF inflight[i] /\ idle = "due" THEN "failed" ELSE idle
    /\ UNCHANGED <<open, timer>>

(* delayed_idle_reconcile wakes up and looks at the queue again. *)
TimerWakes ==
    /\ timer = "sleeping"
    /\ timer' = IF open = 0 THEN "posting" ELSE "none"
    /\ UNCHANGED <<open, inflight, idle>>

TimerPosted ==
    /\ timer \in {"posting", "late"}
    /\ timer' = "none"
    /\ idle' = IF timer = "posting" THEN "done" ELSE idle
    /\ UNCHANGED <<open, inflight>>

TimerPostFails ==
    /\ timer \in {"posting", "late"}
    /\ timer' = "none"
    /\ idle' = IF timer = "posting" THEN "failed" ELSE idle
    /\ UNCHANGED <<open, inflight>>

Next ==
    \/ Submit \/ Settle \/ Revisit
    \/ \E i \in DOMAIN inflight : Answer(i) \/ AnswerRaises(i)
    \/ TimerWakes \/ TimerPosted \/ TimerPostFails

Spec == Init /\ [][Next]_vars

----------------------------------------------------------------------------
(***************************************************************************)
(* docs/UNIFIED_TASK_PROTOCOL.md: the proxy "schedules a delayed reconcile *)
(* after the stored queue becomes empty".  When no handler is under way    *)
(* and the queue is empty, the reconcile of this idle period has been made *)
(* or its timer is pending.                                                *)
(***************************************************************************)
IdleReconcilePending ==
    open = 0 /\ inflight = <<>> /\ idle = "due" => timer \in {"sleeping", "posting"}
============================================================================
