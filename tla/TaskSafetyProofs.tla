------------------------- MODULE TaskSafetyProofs -------------------------
(***************************************************************************)
(* The safety theorems of TaskExecutor that rest on one inductive          *)
(* invariant.  It holds as long as reconcile_current_task_capacity does    *)
(* not raise: an exception there sends a process that has already recorded *)
(* its outcome back to the loop's except clause.                           *)
(***************************************************************************)
EXTENDS TaskExecutorProofs

Recorded == \A e \in Exec : exec[e].pc = "refreshing" => exec[e].outcome = "done"

(* A held row is running, or cancelled, and in the attempt its holder saw. *)
HeldRow ==
    \A e \in Exec : Holding(e) =>
        /\ task[exec[e].tid].state \in {"running", "cancelled"}
        /\ exec[e].seen = task[exec[e].tid].attempts

Exclusive ==
    \A e, f \in Exec : e # f /\ Holding(e) /\ Holding(f) => exec[e].tid # exec[f].tid

(* Only a queued row waits for next_attempt_at. *)
DelayedIsQueued == \A t \in TaskId : task[t].delayed => task[t].state = "queued"

RowsOK == AttemptsBounded /\ ResultMeansSucceeded /\ DelayedIsQueued

(* The inductive invariant. *)
IInv == TypeInv /\ Recorded /\ HeldRow /\ Exclusive /\ RowsOK

LEMMA InitIInv == Init => IInv
<1> SUFFICES ASSUME Init PROVE IInv
  OBVIOUS
<1>1. TypeInv
  BY InitTypeInv
<1>2. Recorded /\ HeldRow /\ Exclusive
  BY DEF Init, Rest, Recorded, HeldRow, Exclusive, Holding
<1>3. \A t \in TaskId : task[t].state = "absent" /\ task[t].attempts = 0
                           /\ ~task[t].result /\ ~task[t].delayed
  BY DEF Init, StoreInit, NoTask, NewTask
<1>4. RowsOK
  BY <1>3, MaxAttemptsAssumption DEF RowsOK, AttemptsBounded, ResultMeansSucceeded, DelayedIsQueued
<1> QED BY <1>1, <1>2, <1>4 DEF IInv

----------------------------------------------------------------------------
(* No frame starts to hold a row, and the holders keep row and attempt. *)
HoldersKeep ==
    \A f \in Exec : Holding(f)' => /\ Holding(f)
                                   /\ exec'[f].tid = exec[f].tid
                                   /\ exec'[f].seen = exec[f].seen

LEMMA QuietStep ==
    ASSUME IInv, TypeInv', UNCHANGED storeVars, Recorded', HoldersKeep
    PROVE  IInv'
<1>1. HeldRow' /\ Exclusive'
  BY DEF IInv, HeldRow, Exclusive, HoldersKeep, storeVars
<1>2. RowsOK'
  BY DEF IInv, RowsOK, AttemptsBounded, ResultMeansSucceeded, DelayedIsQueued, storeVars
<1> QED BY <1>1, <1>2 DEF IInv

(* The steps of a process that neither claim nor record. *)
LEMMA QuietActions ==
    ASSUME IInv, NEW e \in Exec, "refresh" \notin FaultPoints,
           \/ SelectRunnable(e) \/ ClaimNothing(e) \/ NoBackend(e) \/ BackendResolved(e)
           \/ PostFails(e) \/ PostAnswered(e) \/ Release(e) \/ Refresh(e)
           \/ RecoverRefresh(e) \/ ExecFault(e)
    PROVE  UNCHANGED storeVars /\ Recorded' /\ HoldersKeep
<1> USE DEF At, Holding, HoldersKeep, Recorded, IInv, TypeInv, TypeOK
<1>1. CASE SelectRunnable(e)
  BY <1>1 DEF SelectRunnable, Frame
<1>2. CASE EndIteration(e) /\ UNCHANGED storeVars
  BY <1>2 DEF EndIteration, Rest
<1>3. CASE Die(e) /\ UNCHANGED storeVars
  BY <1>3 DEF Die, Rest
<1>4. CASE NoBackend(e) \/ BackendResolved(e) \/ PostFails(e) \/ PostAnswered(e)
  BY <1>4 DEF NoBackend, BackendResolved, PostFails, PostAnswered, Frame
<1>5. CASE Release(e) /\ ~EndIteration(e)
  BY <1>5 DEF Release, Frame
<1>6. CASE Refresh(e) /\ ~EndIteration(e)
  BY <1>6 DEF Refresh, Goto, Frame
<1>7. CASE ResolveRaises(e) \/ PostRaises(e)
  BY <1>7 DEF ResolveRaises, PostRaises, Goto, Frame
<1>8. CASE RecordRaises(e)
  BY <1>8 DEF RecordRaises, Raised, Frame
<1>9. ~RefreshRaises(e) /\ ~RecoverRefreshRaises(e)
  BY DEF RefreshRaises, RecoverRefreshRaises
<1>10. CASE ClaimNothing(e) \/ RecoverRefresh(e) \/ Restart(e)
  BY <1>2, <1>10 DEF ClaimNothing, RecoverRefresh, Restart
<1>11. CASE ClaimRaises(e) \/ RecoverRaises(e)
  BY <1>3, <1>11 DEF ClaimRaises, RecoverRaises
<1>12. CASE (Release(e) \/ Refresh(e)) /\ EndIteration(e)
  BY <1>2, <1>12 DEF Release, Refresh
<1> QED BY <1>1, <1>4, <1>5, <1>6, <1>7, <1>8, <1>9, <1>10, <1>11, <1>12 DEF ExecFault

----------------------------------------------------------------------------
(* claim_next takes a queued row, and no one holds a queued row. *)
LEMMA ClaimStep ==
    ASSUME IInv, NEW e \in Exec, ClaimNext(e)
    PROVE  IInv'
<1> USE DEF IInv, TypeInv, TypeOK
<1>1. TypeInv'
  BY ExecStepTypeInv DEF ExecStep
<1>2. PICK t \in exec[e].snap :
        /\ Claimable(t)
        /\ Claim(t)
        /\ exec' = [exec EXCEPT ![e] =
              [Rest EXCEPT
                  !.pc = IF task[t].sub.valid THEN "resolving" ELSE "recording",
                  !.outcome = IF task[t].sub.valid THEN "none" ELSE "permanent",
                  !.tid = t,
                  !.seen = task[t].attempts + 1]]
  BY DEF ClaimNext
<1>3. t \in TaskId /\ task[t].state = "queued" /\ task[t] \in StoredTask
  BY <1>2 DEF Frame, Claimable, StoreTypeOK
<1>4. /\ task'[t].state = "running"
      /\ task'[t].attempts = task[t].attempts + 1
      /\ task'[t].result = task[t].result
      /\ ~task'[t].delayed
      /\ \A u \in TaskId \ {t} : task'[u] = task[u]
  BY <1>2, <1>3 DEF Claim, Claimed, StoreTypeOK, StoredTask
<1>5. /\ exec'[e].pc \in {"resolving", "recording"}
      /\ exec'[e].tid = t
      /\ exec'[e].seen = task[t].attempts + 1
      /\ \A f \in Exec \ {e} : exec'[f] = exec[f]
  BY <1>2 DEF Rest
<1>6. \A f \in Exec : Holding(f) => exec[f].tid \in TaskId \ {t}
  BY <1>3 DEF HeldRow, Engaged, Holding
<1>7. Recorded'
  BY <1>5 DEF Recorded
<1>8. \A f \in Exec \ {e} : Holding(f)' => Holding(f)
  BY <1>5 DEF Holding
<1>9. HeldRow'
  BY <1>4, <1>5, <1>6, <1>8 DEF HeldRow
<1>10. Exclusive'
  BY <1>5, <1>6, <1>8 DEF Exclusive
<1>11. RowsOK'
  BY <1>3, <1>4, MaxAttemptsAssumption
  DEF RowsOK, AttemptsBounded, ResultMeansSucceeded, DelayedIsQueued, StoredTask
<1> QED BY <1>1, <1>7, <1>9, <1>10, <1>11

(* The row a recording call leaves behind, given what the holder knows of it. *)
LEMMA RecordedRow ==
    ASSUME IInv, NEW e \in Exec, Holding(e),
           NEW retryable \in BOOLEAN,
           \/ RecordResult(exec[e].tid)
           \/ RecordFailure(exec[e].tid, exec[e].seen, retryable)
    PROVE  /\ RowsOK'
           /\ \A u \in TaskId \ {exec[e].tid} : task'[u] = task[u]
<1> DEFINE t == exec[e].tid
<1> USE DEF IInv, TypeInv, TypeOK
<1>1. t \in TaskId /\ task[t] \in StoredTask
  BY DEF Engaged, Holding, StoreTypeOK
<1>2. /\ task[t].attempts = exec[e].seen
      /\ task[t].attempts <= MaxAttempts
      /\ ~task[t].result
  BY <1>1 DEF HeldRow, RowsOK, AttemptsBounded, ResultMeansSucceeded, DelayedIsQueued
<1>3. CASE RecordResult(t)
  BY <1>1, <1>2, <1>3
  DEF RecordResult, Succeeded, StoreTypeOK, StoredTask, RowsOK,
      AttemptsBounded, ResultMeansSucceeded, DelayedIsQueued
<1>4. CASE RecordError(t)
  BY <1>1, <1>2, <1>4
  DEF RecordError, Failed, StoreTypeOK, StoredTask, RowsOK,
      AttemptsBounded, ResultMeansSucceeded, DelayedIsQueued
<1>5. CASE exec[e].seen < MaxAttempts /\ RecordRetry(t)
  BY <1>1, <1>2, <1>5
  DEF RecordRetry, Retried, StoreTypeOK, StoredTask, RowsOK,
      AttemptsBounded, ResultMeansSucceeded, DelayedIsQueued
<1> QED BY <1>3, <1>4, <1>5 DEF RecordFailure

(* Recording ends the hold, and the other holders hold other rows. *)
LEMMA RecordStep ==
    ASSUME IInv, NEW e \in Exec, Record(e) \/ Recover(e)
    PROVE  IInv'
<1> USE DEF IInv, TypeInv, TypeOK
<1>1. TypeInv'
  BY ExecStepTypeInv DEF ExecStep
<1>2. Holding(e)
  BY DEF Record, Recover, At, Holding
<1>3. RowsOK' /\ \A u \in TaskId \ {exec[e].tid} : task'[u] = task[u]
  BY <1>2, RecordedRow DEF Record, Recover
<1>4. /\ exec'[e].pc \in {"refreshing", "recovered"}
      /\ exec'[e].outcome = "done"
      /\ \A f \in Exec \ {e} : exec'[f] = exec[f]
  <2>1. \/ exec' = [exec EXCEPT ![e].pc = "refreshing", ![e].outcome = "done"]
        \/ exec' = [exec EXCEPT ![e].pc = "recovered", ![e].outcome = "done"]
    BY DEF Record, Recover
  <2>2. exec[e] \in Frame
    OBVIOUS
  <2> QED BY <2>1, <2>2 DEF Frame
<1>5. Recorded' /\ HoldersKeep /\ ~Holding(e)'
  BY <1>4 DEF Recorded, HoldersKeep, Holding
<1>6. \A f \in Exec : Holding(f)' => exec[f].tid \in TaskId \ {exec[e].tid}
  BY <1>2, <1>5 DEF HoldersKeep, Exclusive, Engaged, Holding
<1>7. HeldRow' /\ Exclusive'
  BY <1>3, <1>5, <1>6 DEF HeldRow, Exclusive, HoldersKeep
<1> QED BY <1>1, <1>3, <1>5, <1>7

(* Callers and the clock: new rows have no holder, a cancel keeps the attempt. *)
LEMMA CallerStep ==
    ASSUME IInv,
           \/ \E batch \in Batches : Submit(batch)
           \/ \E tenant \in Tenant, t \in TaskId : Cancel(tenant, t)
           \/ \E t \in TaskId : Wait(t)
           \/ UNCHANGED vars
    PROVE  IInv'
<1> USE DEF IInv, TypeInv, TypeOK
<1>1. TypeInv'
  BY CallerTypeInv
<1>2. UNCHANGED exec
  BY DEF Submit, Cancel, Wait, vars
<1>3. Recorded' /\ Exclusive'
  BY <1>2 DEF Recorded, Exclusive, Holding
<1>4. ASSUME \E batch \in Batches : Submit(batch)
      PROVE  HeldRow' /\ RowsOK'
  <2>1. \A t \in TaskId :
           \/ task'[t] = task[t]
           \/ /\ task[t].state = "absent"
              /\ task'[t].state = "queued" /\ task'[t].attempts = 0
              /\ ~task'[t].result /\ ~task'[t].delayed
    <3>1. \A s \in Submission : /\ NewTask(s).state = "queued"
                                /\ NewTask(s).attempts = 0
                                /\ ~NewTask(s).result /\ ~NewTask(s).delayed
      BY DEF NewTask
    <3>2. PICK batch \in Batches : SubmitMany(batch)
      BY <1>4 DEF Submit
    <3>3. \A t \in TaskId :
             \/ task'[t] = task[t]
             \/ /\ task[t].state = "absent"
                /\ \E s \in Submission : task'[t] = NewTask(s)
      BY <3>2, SubmitRows
    <3> QED BY <3>1, <3>3
  <2>2. RowsOK'
    BY <2>1, MaxAttemptsAssumption DEF RowsOK, AttemptsBounded, ResultMeansSucceeded, DelayedIsQueued
  <2>3. HeldRow'
    BY <1>2, <2>1 DEF HeldRow, Holding, Engaged
  <2> QED BY <2>2, <2>3
<1>5. ASSUME NEW t \in TaskId, \E tenant \in Tenant : Cancel(tenant, t)
      PROVE  HeldRow' /\ RowsOK'
  <2>1. /\ task[t].state \in {"queued", "running"}
        /\ task'[t].state = "cancelled"
        /\ task'[t].attempts = task[t].attempts
        /\ task'[t].result = task[t].result
        /\ ~task'[t].delayed
        /\ \A u \in TaskId \ {t} : task'[u] = task[u]
    <3>1. task[t] \in StoredTask
      BY DEF StoreTypeOK
    <3>2. /\ task[t].state \in {"queued", "running"}
          /\ task' = [task EXCEPT ![t].state = "cancelled",
                                  ![t].delayed = FALSE, ![t].finished = TRUE]
      BY <1>5 DEF Cancel, CancelTask, Cancelled, Active
    <3> QED BY <3>1, <3>2 DEF StoreTypeOK, StoredTask
  <2>2. RowsOK'
    BY <2>1 DEF RowsOK, AttemptsBounded, ResultMeansSucceeded, DelayedIsQueued
  <2>3. HeldRow'
    BY <1>2, <2>1 DEF HeldRow, Holding, Engaged
  <2> QED BY <2>2, <2>3
<1>6. ASSUME NEW t \in TaskId, Wait(t)
      PROVE  HeldRow' /\ RowsOK'
  <2>1. \A u \in TaskId : /\ task'[u].state = task[u].state
                          /\ task'[u].attempts = task[u].attempts
                          /\ task'[u].result = task[u].result
                          /\ task'[u].delayed => task[u].delayed
    BY <1>6 DEF Wait, Elapse, StoreTypeOK, StoredTask
  <2>2. RowsOK'
    BY <2>1 DEF RowsOK, AttemptsBounded, ResultMeansSucceeded, DelayedIsQueued
  <2>3. HeldRow'
    BY <1>2, <2>1 DEF HeldRow, Holding, Engaged
  <2> QED BY <2>2, <2>3
<1>7. ASSUME UNCHANGED vars
      PROVE  HeldRow' /\ RowsOK'
  BY <1>7 DEF vars, HeldRow, Holding, RowsOK, AttemptsBounded, ResultMeansSucceeded, DelayedIsQueued
<1> QED BY <1>1, <1>3, <1>4, <1>5, <1>6, <1>7

LEMMA NextIInv ==
    ASSUME "refresh" \notin FaultPoints, IInv, [Next]_vars
    PROVE  IInv'
<1>1. TypeInv'
  BY NextTypeInv DEF IInv
<1>2. ASSUME NEW e \in Exec, ExecStep(e) \/ ExecFault(e)
      PROVE  IInv'
  BY <1>1, <1>2, QuietActions, QuietStep, ClaimStep, RecordStep DEF ExecStep
<1> QED BY <1>2, CallerStep DEF Next

(***************************************************************************)
(* At most one process works for a task, and its row reads running or      *)
(* cancelled meanwhile; the copy of the row it works from is current.      *)
(***************************************************************************)
THEOREM SingleExecutionTheorem ==
    ASSUME "refresh" \notin FaultPoints
    PROVE  Spec => [](SingleExecution /\ HeldCopyIsCurrent)
<1>1. IInv => SingleExecution /\ HeldCopyIsCurrent
  BY DEF IInv, TypeInv, Engaged, HeldRow, Exclusive, Holding, SingleExecution,
         HeldCopyIsCurrent, Holders
<1>2. IInv /\ [Next]_vars => IInv'
  BY NextIInv
<1> QED BY <1>1, <1>2, InitIInv, PTL DEF Spec

(***************************************************************************)
(* No task is attempted more often than the configured limit, whatever the *)
(* overlap of retries, cancels, faults and restarts.                       *)
(***************************************************************************)
THEOREM AttemptsBoundedTheorem ==
    ASSUME "refresh" \notin FaultPoints
    PROVE  Spec => []AttemptsBounded
<1>1. IInv => AttemptsBounded
  BY DEF IInv, RowsOK
<1>2. IInv /\ [Next]_vars => IInv'
  BY NextIInv
<1> QED BY <1>1, <1>2, InitIInv, PTL DEF Spec

(* A row has a result exactly when it reads succeeded. *)
THEOREM ResultTheorem ==
    ASSUME "refresh" \notin FaultPoints
    PROVE  Spec => []ResultMeansSucceeded
<1>1. IInv => ResultMeansSucceeded
  BY DEF IInv, RowsOK
<1>2. IInv /\ [Next]_vars => IInv'
  BY NextIInv
<1> QED BY <1>1, <1>2, InitIInv, PTL DEF Spec

----------------------------------------------------------------------------
(* No process starts to hold t. *)
LEMMA StaysUnheld ==
    ASSUME NEW t, Holders(t) = {},
           \A f \in Exec : Holding(f)' /\ exec'[f].tid = t => Holding(f) /\ exec[f].tid = t
    PROVE  Holders(t)' = {}
BY DEF Holders

LEMMA StepKeepsSettled ==
    ASSUME "refresh" \notin FaultPoints, IInv, [Next]_vars
    PROVE  KeepsSettled
<1> USE DEF IInv, TypeInv, TypeOK
<1> SUFFICES ASSUME NEW t \in TaskId, task[t].state \in Settled, Holders(t) = {}
             PROVE  task'[t] = task[t] /\ Holders(t)' = {}
  BY DEF KeepsSettled
<1>1. ASSUME NEW e \in Exec, ExecStep(e) \/ ExecFault(e)
      PROVE  task'[t] = task[t] /\ Holders(t)' = {}
  <2>1. CASE Record(e) \/ Recover(e)
    <3>1. Holding(e)
      BY <2>1 DEF Record, Recover, At, Holding
    <3>2. exec[e].tid # t
      BY <3>1 DEF Holders
    <3>3. task'[t] = task[t]
      BY <2>1, <3>1, <3>2, RecordedRow DEF Record, Recover
    <3>4. \A f \in Exec \ {e} : exec'[f] = exec[f]
      BY <2>1 DEF Record, Recover
    <3>5. exec'[e].tid = exec[e].tid
      <4>1. exec[e] \in Frame
        OBVIOUS
      <4>2. \/ exec' = [exec EXCEPT ![e].pc = "refreshing", ![e].outcome = "done"]
            \/ exec' = [exec EXCEPT ![e].pc = "recovered", ![e].outcome = "done"]
        BY <2>1 DEF Record, Recover
      <4> QED BY <4>1, <4>2 DEF Frame
    <3>6. Holders(t)' = {}
      BY <3>2, <3>4, <3>5, StaysUnheld DEF Holding
    <3> QED BY <3>3, <3>6
  <2>2. CASE ClaimNext(e)
    <3>1. PICK u \in exec[e].snap :
            /\ Claimable(u)
            /\ Claim(u)
            /\ exec'[e].tid = u
            /\ \A f \in Exec \ {e} : exec'[f] = exec[f]
      BY <2>2 DEF ClaimNext, Rest
    <3>2. u # t
      BY <3>1 DEF Claimable, Settled
    <3>3. task'[t] = task[t]
      BY <3>1, <3>2 DEF Claim, Claimed, StoreTypeOK
    <3>4. Holders(t)' = {}
      BY <3>1, <3>2, StaysUnheld DEF Holding
    <3> QED BY <3>3, <3>4
  <2>3. CASE ~Record(e) /\ ~Recover(e) /\ ~ClaimNext(e)
    <3>1. UNCHANGED storeVars /\ HoldersKeep
      BY <1>1, <2>3, QuietActions DEF ExecStep
    <3> QED BY <3>1, StaysUnheld DEF storeVars, HoldersKeep
  <2> QED BY <2>1, <2>2, <2>3
<1>2. ASSUME UNCHANGED exec
      PROVE  Holders(t)' = {}
  BY <1>2, StaysUnheld DEF Holding
<1>3. CASE \E batch \in Batches : Submit(batch)
  <2>1. PICK batch \in Batches : SubmitMany(batch)
    BY <1>3 DEF Submit
  <2>2. task'[t] = task[t]
    BY <2>1, SubmitRows DEF Settled
  <2> QED BY <1>2, <1>3, <2>2 DEF Submit
<1>4. CASE \E tenant \in Tenant, u \in TaskId : Cancel(tenant, u)
  <2>1. task'[t] = task[t]
    BY <1>4 DEF Cancel, CancelTask, Cancelled, Active, Settled, StoreTypeOK
  <2> QED BY <1>2, <1>4, <2>1 DEF Cancel
<1>5. CASE \E u \in TaskId : Wait(u)
  <2>1. task'[t] = task[t]
    BY <1>5 DEF Wait, Elapse, Settled, RowsOK, DelayedIsQueued, StoreTypeOK
  <2> QED BY <1>2, <1>5, <2>1 DEF Wait
<1>6. CASE UNCHANGED vars
  BY <1>2, <1>6 DEF vars
<1> QED BY <1>1, <1>3, <1>4, <1>5, <1>6 DEF Next

(***************************************************************************)
(* A settled row that no process still holds is final: retries, late       *)
(* outcomes, cancels and resubmissions leave it alone, and no process      *)
(* starts to work for it again.                                            *)
(***************************************************************************)
THEOREM SettledIsFinalTheorem ==
    ASSUME "refresh" \notin FaultPoints
    PROVE  Spec => SettledIsFinal
<1>1. IInv /\ [Next]_vars => IInv'
  BY NextIInv
<1>2. IInv /\ [Next]_vars => [KeepsSettled]_vars
  BY StepKeepsSettled
<1> QED BY <1>1, <1>2, InitIInv, PTL DEF Spec, SettledIsFinal
============================================================================
