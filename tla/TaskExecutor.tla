--------------------------- MODULE TaskExecutor ---------------------------
(***************************************************************************)
(* The durable task executors of the queue proxy: one task_executor_loop   *)
(* per proxy process, all of them claiming from one TaskStore, while       *)
(* callers submit and cancel tasks.  A step ends where the code awaits a   *)
(* reply or leaves a store call, so everything between two of those points *)
(* may interleave with the other processes.                                *)
(***************************************************************************)
EXTENDS TaskStore

CONSTANTS Exec,          \* the proxy processes that run an executor loop
          MaxAttempts,   \* settings.task_executor_max_attempts
          FaultPoints,   \* where an exception the callee does not handle may surface
          Crashes        \* whether a process may stop and be started again

(***************************************************************************)
(* claim: claim_next raises.  resolve: backend_resolver.resolve raises     *)
(* something other than httpx.HTTPError.  post: so does the upstream call. *)
(* record: a record_* call of the store raises and changes nothing.        *)
(* recover: so does the one in the except clause of task_executor_loop.    *)
(* refresh: reconcile_current_task_capacity raises (a query of the store,  *)
(* or a reply of the lifecycle service that is not JSON).  A record whose  *)
(* commit reaches Postgres although its acknowledgement is lost raises     *)
(* after it changed the row: for row and frame that is the record followed *)
(* by refresh, so a run without refresh leaves it out as well.  A claim    *)
(* whose acknowledgement is lost is the claim followed by a restart.       *)
(***************************************************************************)
FaultPoint == {"claim", "resolve", "post", "record", "recover", "refresh"}

ASSUME ExecAssumption == Exec # {}
ASSUME MaxAttemptsAssumption == MaxAttempts \in Nat \ {0}
ASSUME FaultPointsAssumption == FaultPoints \subseteq FaultPoint
ASSUME CrashesAssumption == Crashes \in BOOLEAN

VARIABLE exec   \* per process, the frame of its loop and of execute_stored_task

vars == <<task, stamp, exec>>

Tenant == {s.tenant : s \in Submission}

PC == {"idle",        \* about to call claim_next, or asleep
       "claiming",    \* claim_next has read the table, its row is not locked yet
       "resolving",   \* awaiting backend_resolver.resolve
       "posting",     \* awaiting the backend's response
       "releasing",   \* the finally clause: awaiting backend_resolver.release
       "recording",   \* about to record the outcome
       "refreshing",  \* recorded; awaiting the lifecycle's reconcile
       "recovering",  \* in the loop's except clause, about to record a failure
       "recovered",   \* the except clause awaits the lifecycle's reconcile
       "dead"}        \* the loop's coroutine ended with an exception

Outcome == {"none", "success", "retryable", "permanent", "done", "raised"}

NoTid == 0

(***************************************************************************)
(* seen is the attempt_count of the claimed copy of the row.  Postgres     *)
(* returns a copy; in memory it is the row itself, but then there is a     *)
(* single executor and no one else counts attempts.                        *)
(***************************************************************************)
Frame == [pc      : PC,
          tid     : TaskId \union {NoTid},
          seen    : Nat,
          lease   : BOOLEAN,
          outcome : Outcome,
          snap    : SUBSET TaskId]

Rest == [pc |-> "idle", tid |-> NoTid, seen |-> 0, lease |-> FALSE,
         outcome |-> "none", snap |-> {}]

(* Type invariant of the task table and of the executors' frames. *)
TypeOK == StoreTypeOK /\ exec \in [Exec -> Frame]

Init == StoreInit /\ exec = [e \in Exec |-> Rest]

At(e, pc) == exec[e].pc = pc

Goto(e, pc) == exec' = [exec EXCEPT ![e].pc = pc]

(* Leave the loop body: the next iteration starts with a fresh frame. *)
EndIteration(e) == exec' = [exec EXCEPT ![e] = Rest]

Die(e) == exec' = [exec EXCEPT ![e] = [Rest EXCEPT !.pc = "dead"]]

----------------------------------------------------------------------------
(* The callers: POST /tasks/queue and DELETE /tasks/{id}; and the clock. *)
Submit(batch) == SubmitMany(batch) /\ UNCHANGED exec

Cancel(tenant, t) == CancelTask(tenant, t) /\ UNCHANGED exec

Wait(t) == Elapse(t) /\ UNCHANGED exec

----------------------------------------------------------------------------
(***************************************************************************)
(* claim_next.  The statement chooses the fair group, and its candidates,  *)
(* from a snapshot; a candidate that another process changed meanwhile is  *)
(* checked again under its row lock and skipped if it no longer qualifies. *)
(***************************************************************************)
SelectRunnable(e) ==
    /\ At(e, "idle")
    /\ RunnableGroups # {}
    /\ exec' = [exec EXCEPT ![e].pc = "claiming", ![e].snap = Runnable(FairGroup)]
    /\ UNCHANGED storeVars

ClaimNothing(e) ==
    /\ At(e, "claiming")
    /\ \A t \in exec[e].snap : ~Claimable(t)
    /\ EndIteration(e)
    /\ UNCHANGED storeVars

(* Mutant: the locked row is not checked again. *)
ClaimNextUnchecked(e) ==
    /\ At(e, "claiming")
    /\ \E t \in exec[e].snap :
          /\ \A u \in exec[e].snap : t <= u
          /\ Claim(t)
          /\ exec' = [exec EXCEPT ![e] =
                [Rest EXCEPT !.pc = "resolving", !.tid = t, !.seen = task[t].attempts + 1]]

(* Mutant: the copy returned is the row as it was before the update. *)
ClaimNextOldCopy(e) ==
    /\ At(e, "claiming")
    /\ \E t \in exec[e].snap :
          /\ Claimable(t)
          /\ \A u \in exec[e].snap : Claimable(u) => t <= u
          /\ Claim(t)
          /\ exec' = [exec EXCEPT ![e] =
                [Rest EXCEPT !.pc = "resolving", !.tid = t, !.seen = task[t].attempts]]

(***************************************************************************)
(* The claim, and the checks of execute_stored_task up to its first await: *)
(* a task whose payload or model is refused goes straight to record_error. *)
(***************************************************************************)
ClaimNext(e) ==
    /\ At(e, "claiming")
    /\ \E t \in exec[e].snap :
          /\ Claimable(t)
          /\ \A u \in exec[e].snap : Claimable(u) => t <= u
          /\ Claim(t)
          /\ exec' = [exec EXCEPT ![e] =
                [Rest EXCEPT
                    !.pc = IF task[t].sub.valid THEN "resolving" ELSE "recording",
                    !.outcome = IF task[t].sub.valid THEN "none" ELSE "permanent",
                    !.tid = t,
                    !.seen = task[t].attempts + 1]]

ClaimRaises(e) ==
    /\ At(e, "claiming")
    /\ "claim" \in FaultPoints
    /\ Die(e)
    /\ UNCHANGED storeVars

----------------------------------------------------------------------------
(* backend_resolver.resolve: no backend, a leased one, or the default upstream. *)
NoBackend(e) ==
    /\ At(e, "resolving")
    /\ exec' = [exec EXCEPT ![e].pc = "recording", ![e].outcome = "retryable"]
    /\ UNCHANGED storeVars

BackendResolved(e) ==
    /\ At(e, "resolving")
    /\ \E leased \in BOOLEAN :
          exec' = [exec EXCEPT ![e].pc = "posting", ![e].lease = leased]
    /\ UNCHANGED storeVars

ResolveRaises(e) ==
    /\ At(e, "resolving")
    /\ "resolve" \in FaultPoints
    /\ Goto(e, "recovering")
    /\ UNCHANGED storeVars

----------------------------------------------------------------------------
(* client.post.  An httpx.HTTPError is recorded inside the try statement,  *)
(* before its finally clause gives the lease back.                         *)
PostFails(e) ==
    /\ At(e, "posting")
    /\ exec' = [exec EXCEPT ![e].pc = "recording", ![e].outcome = "retryable"]
    /\ UNCHANGED storeVars

PostAnswered(e) ==
    /\ At(e, "posting")
    /\ \E answer \in {"success", "retryable", "permanent"} :
          exec' = [exec EXCEPT ![e].pc = "releasing", ![e].outcome = answer]
    /\ UNCHANGED storeVars

PostRaises(e) ==
    /\ At(e, "posting")
    /\ "post" \in FaultPoints
    /\ exec' = [exec EXCEPT ![e].pc = "releasing", ![e].outcome = "raised"]
    /\ UNCHANGED storeVars

(* release swallows an httpx.HTTPError; what follows depends on how the try ended. *)
Release(e) ==
    /\ At(e, "releasing")
    /\ \/ exec[e].outcome = "done" /\ EndIteration(e)
       \/ /\ exec[e].outcome # "done"
          /\ exec' = [exec EXCEPT ![e].pc = IF exec[e].outcome = "raised"
                                            THEN "recovering" ELSE "recording",
                                  ![e].lease = FALSE]
    /\ UNCHANGED storeVars

----------------------------------------------------------------------------
(* Mutant: one attempt too many. *)
RecordFailureOffByOne(t, seen, retryable) ==
    IF retryable /\ seen <= MaxAttempts THEN RecordRetry(t) ELSE RecordError(t)

(* record_task_failure decides by the claimed copy's attempt count. *)
RecordFailure(t, seen, retryable) ==
    IF retryable /\ seen < MaxAttempts THEN RecordRetry(t) ELSE RecordError(t)

Record(e) ==
    /\ At(e, "recording")
    /\ IF exec[e].outcome = "success"
       THEN RecordResult(exec[e].tid)
       ELSE RecordFailure(exec[e].tid, exec[e].seen, exec[e].outcome = "retryable")
    /\ exec' = [exec EXCEPT ![e].pc = "refreshing", ![e].outcome = "done"]

(* An exception after the upstream call: the lease, if it is still held, goes first. *)
Raised(e) ==
    exec' = [exec EXCEPT ![e].pc = IF exec[e].lease THEN "releasing" ELSE "recovering",
                         ![e].outcome = "raised"]

(* The row is as it was; had the commit gone through, see RefreshRaises. *)
RecordRaises(e) ==
    /\ At(e, "recording")
    /\ "record" \in FaultPoints
    /\ Raised(e)
    /\ UNCHANGED storeVars

(* Mutant: the error path returns without the finally clause. *)
RefreshKeepsLease(e) ==
    /\ At(e, "refreshing")
    /\ EndIteration(e)
    /\ UNCHANGED storeVars

(* reconcile_current_task_capacity; reconcile_capacity swallows httpx.HTTPError. *)
Refresh(e) ==
    /\ At(e, "refreshing")
    /\ IF exec[e].lease THEN Goto(e, "releasing") ELSE EndIteration(e)
    /\ UNCHANGED storeVars

RefreshRaises(e) ==
    /\ At(e, "refreshing")
    /\ "refresh" \in FaultPoints
    /\ Raised(e)
    /\ UNCHANGED storeVars

----------------------------------------------------------------------------
(***************************************************************************)
(* The except clause of task_executor_loop records a retryable failure for *)
(* the claimed task, whatever its row says by now.  An exception in the    *)
(* clause itself ends the loop.                                            *)
(***************************************************************************)
Recover(e) ==
    /\ At(e, "recovering")
    /\ RecordFailure(exec[e].tid, exec[e].seen, TRUE)
    /\ exec' = [exec EXCEPT ![e].pc = "recovered", ![e].outcome = "done"]

RecoverRaises(e) ==
    /\ At(e, "recovering")
    /\ "recover" \in FaultPoints
    /\ Die(e)
    /\ UNCHANGED storeVars

RecoverRefresh(e) ==
    /\ At(e, "recovered")
    /\ EndIteration(e)
    /\ UNCHANGED storeVars

RecoverRefreshRaises(e) ==
    /\ At(e, "recovered")
    /\ "refresh" \in FaultPoints
    /\ Die(e)
    /\ UNCHANGED storeVars

(***************************************************************************)
(* The process stops (a crash, or stop_task_executor cancelling the loop)  *)
(* and start_task_executor runs again.  Rows survive, frames do not, and   *)
(* nothing at startup looks for rows left in "running".                    *)
(***************************************************************************)
Restart(e) ==
    /\ Crashes
    /\ exec[e] # Rest
    /\ EndIteration(e)
    /\ UNCHANGED storeVars

----------------------------------------------------------------------------
(* The loop's own progress: what the event loop schedules without a fault. *)
ExecStep(e) ==
    \/ SelectRunnable(e) \/ ClaimNothing(e) \/ ClaimNext(e)
    \/ NoBackend(e) \/ BackendResolved(e)
    \/ PostFails(e) \/ PostAnswered(e) \/ Release(e)
    \/ Record(e) \/ Refresh(e)
    \/ Recover(e) \/ RecoverRefresh(e)

ExecFault(e) ==
    \/ ClaimRaises(e) \/ ResolveRaises(e) \/ PostRaises(e)
    \/ RecordRaises(e) \/ RefreshRaises(e)
    \/ RecoverRaises(e) \/ RecoverRefreshRaises(e)
    \/ Restart(e)

Next ==
    \/ \E batch \in Batches : Submit(batch)
    \/ \E tenant \in Tenant, t \in TaskId : Cancel(tenant, t)
    \/ \E t \in TaskId : Wait(t)
    \/ \E e \in Exec : ExecStep(e) \/ ExecFault(e)

Spec == Init /\ [][Next]_vars

(***************************************************************************)
(* Every await of the loop ends: httpx calls carry request_timeout_seconds *)
(* and the store's calls return or raise, so a process that can step does. *)
(* Retry delays are finite.  Callers, faults and restarts owe nothing.     *)
(***************************************************************************)
Fairness ==
    /\ \A e \in Exec : WF_vars(ExecStep(e))
    /\ \A t \in TaskId : WF_vars(Wait(t))

FairSpec == Spec /\ Fairness

----------------------------------------------------------------------------
(* The frame owns a claim whose outcome is not recorded yet. *)
Holding(e) ==
    \/ exec[e].pc \in {"resolving", "posting", "recording", "recovering"}
    \/ exec[e].pc = "releasing" /\ exec[e].outcome # "done"

Holders(t) == {e \in Exec : Holding(e) /\ exec[e].tid = t}

(***************************************************************************)
(* A task is executed by at most one process at a time, and while it is,   *)
(* its row is in "running", or "cancelled" by a caller: no overlap of two  *)
(* claims, of a claim with a retry or of a claim with a cancel makes a     *)
(* second process call the backend for it.                                 *)
(***************************************************************************)
SingleExecution ==
    \A e \in Exec : Holding(e) =>
        /\ exec[e].tid \in TaskId
        /\ task[exec[e].tid].state \in {"running", "cancelled"}
        /\ Holders(exec[e].tid) = {e}

(***************************************************************************)
(* record_task_failure compares the attempt count of the claimed copy with *)
(* the limit; the copy is never behind the row while the claim is held.    *)
(***************************************************************************)
HeldCopyIsCurrent ==
    \A e \in Exec : Holding(e) => exec[e].seen = task[exec[e].tid].attempts

(***************************************************************************)
(* No task is attempted more often than task_executor_max_attempts, and a  *)
(* task that used its attempts up is never put back in the queue.          *)
(***************************************************************************)
AttemptsBounded ==
    \A t \in TaskId :
        /\ task[t].attempts <= MaxAttempts
        /\ task[t].state = "queued" => task[t].attempts < MaxAttempts

(***************************************************************************)
(* A stored result is one the caller may read as the outcome: the row has  *)
(* a result exactly when it reads "succeeded", whatever retries, cancels   *)
(* and restarts came before or in between.                                 *)
(***************************************************************************)
ResultMeansSucceeded ==
    \A t \in TaskId : task[t].result <=> task[t].state = "succeeded"

(***************************************************************************)
(* Two rows never share a tenant and an idempotency key, also when a key   *)
(* is repeated within one batch or after the first task has settled.       *)
(***************************************************************************)
OneTaskPerKey ==
    \A t, u \in TaskId :
        /\ t # u
        /\ task[t].state # "absent"
        /\ task[u].state # "absent"
        => ~SameKey(task[t].sub, task[u].sub)

(***************************************************************************)
(* Attempt numbers tell executions apart: two processes that both still    *)
(* work for one task carry different attempt counts, even after stale      *)
(* retries put a task back that another process had claimed again.         *)
(***************************************************************************)
AttemptIdentity ==
    \A e, f \in Exec :
        e # f /\ exec[e].tid # NoTid /\ exec[e].tid = exec[f].tid
            => exec[e].seen # exec[f].seen

(* A row that reads settled and that no process holds stays as it is and   *)
(* unheld, so that the same is true of every later step.                   *)
KeepsSettled ==
    \A t \in TaskId :
        task[t].state \in Settled /\ Holders(t) = {}
            => task'[t] = task[t] /\ Holders(t)' = {}

(***************************************************************************)
(* Once the outcome of a task is recorded, or a waiting task is cancelled, *)
(* the row a caller polls is final: no late step of any process revives or *)
(* rewrites it.                                                            *)
(***************************************************************************)
SettledIsFinal == [][KeepsSettled]_vars

(* What a caller knows of a key: the row it was answered with, its state    *)
(* without the split in queued and running, and whether it is held.        *)
Key == {<<s.tenant, s.key>> : s \in Submission}

RowsOf(k) == {t \in TaskId : /\ task[t].state # "absent"
                             /\ <<task[t].sub.tenant, task[t].sub.key>> = k}

KeyStatus(k) ==
    IF RowsOf(k) = {} THEN "unknown"
    ELSE LET state == task[Oldest(RowsOf(k))].state
         IN IF state \in Active THEN "pending" ELSE state

Contract == INSTANCE TaskContract WITH
    Limit   <- MaxAttempts,
    status  <- [k \in Key |-> KeyStatus(k)],
    working <- [k \in Key |-> \E t \in RowsOf(k) : Holders(t) # {}],
    tries   <- [k \in Key |-> IF RowsOf(k) = {} THEN 0 ELSE task[Oldest(RowsOf(k))].attempts]

(***************************************************************************)
(* Rows, locks, snapshots, retries and restarts together implement the     *)
(* contract: seen by key, an execution begins only for a pending key that  *)
(* no other execution works on, and a key with an outcome changes only at  *)
(* the end of an execution that a cancel overtook.                         *)
(***************************************************************************)
ImplementsContract == Contract!Spec

(***************************************************************************)
(* A backend lease ends only by the release call: every way out of the     *)
(* upstream request, exceptions while recording included, passes it.       *)
(***************************************************************************)
LeaseEndsByRelease ==
    [][\A e \in Exec : exec[e].lease /\ ~exec'[e].lease => At(e, "releasing")]_vars

(***************************************************************************)
(* Every accepted task reaches an outcome and keeps it for as long as the  *)
(* loop of one process is alive: retries end, cancels do not strand a      *)
(* task, and a task that was put back by a loop that then ended with an    *)
(* exception is taken over by another process.                             *)
(***************************************************************************)
EventuallySettled ==
    \A t \in TaskId :
        task[t].state # "absent"
            ~> [](task[t].state \in Settled \/ \A e \in Exec : At(e, "dead"))

(***************************************************************************)
(* docs/UNIFIED_TASK_PROTOCOL.md: "Employers submit a task once, receive   *)
(* task ids, and poll status", the orchestrator owns the execution after   *)
(* that.  So the same promise, when processes restart finitely often.      *)
(***************************************************************************)
SettledAfterRestarts ==
    <>[][\A e \in Exec : ~Restart(e)]_vars => EventuallySettled

(***************************************************************************)
(* docs/UNIFIED_TASK_PROTOCOL.md has no transition out of cancelled, and   *)
(* permanent failures and failures after the attempt limit "end in         *)
(* failed".  The executor's record calls do not look at the state they     *)
(* overwrite: neither a cancel during the backend call nor a failure on    *)
(* record before a raising reconcile is the last word.                     *)
(***************************************************************************)
OutcomeIsFinal ==
    [][\A t \in TaskId :
          task[t].state \in {"cancelled", "failed"} => task'[t].state = task[t].state]_vars
============================================================================
