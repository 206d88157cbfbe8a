------------------------ MODULE TaskExecutorProofs ------------------------
(***************************************************************************)
(* Theorems about TaskExecutor, for any number of processes, tasks and     *)
(* attempts.                                                               *)
(***************************************************************************)
EXTENDS TaskExecutor, TaskStoreProofs

(* Between its claim and the end of its iteration a frame names a row. *)
Engaged ==
    \A e \in Exec : exec[e].pc \notin {"idle", "claiming", "dead"} => exec[e].tid \in TaskId

TypeInv == TypeOK /\ Engaged

(* A store call on a row yields a row. *)
LEMMA RecordType ==
    ASSUME StoreTypeOK, NEW t \in TaskId,
           \/ Claim(t) \/ RecordResult(t) \/ RecordError(t) \/ RecordRetry(t)
           \/ Elapse(t) \/ \E tenant \in Tenant : CancelTask(tenant, t)
    PROVE  StoreTypeOK'
<1>1. stamp' \in [TaskId -> 0 .. MaxTasks]
  BY TouchType
  DEF StoreTypeOK, Claim, Claimed, RecordResult, Succeeded, RecordError, Failed, RecordRetry, Retried, Elapse, CancelTask, Cancelled
<1>2. task[t] \in StoredTask
  BY DEF StoreTypeOK
<1>3. PICK row \in StoredTask : task' = [task EXCEPT ![t] = row]
  <2>1. CASE Claim(t)
    <3> DEFINE row == [task[t] EXCEPT !.state = "running",
                                      !.attempts = task[t].attempts + 1,
                                      !.delayed = FALSE]
    <3>1. task[t].attempts + 1 \in Nat
      BY <1>2 DEF StoredTask
    <3>2. row \in StoredTask
      BY <1>2, <3>1 DEF StoredTask, State, Active
    <3>3. task' = [task EXCEPT ![t] = row]
      BY <2>1 DEF Claim, Claimed
    <3> QED BY <3>2, <3>3
  <2>2. CASE RecordResult(t)
    BY <1>2, <2>2 DEF RecordResult, Succeeded, StoredTask, State, Settled
  <2>3. CASE RecordError(t)
    BY <1>2, <2>3 DEF RecordError, Failed, StoredTask, State, Settled
  <2>4. CASE RecordRetry(t)
    BY <1>2, <2>4 DEF RecordRetry, Retried, StoredTask, State, Active
  <2>5. CASE Elapse(t)
    BY <1>2, <2>5 DEF Elapse, StoredTask
  <2>6. CASE \E tenant \in Tenant : CancelTask(tenant, t)
    BY <1>2, <2>6 DEF CancelTask, Cancelled, StoredTask, State, Settled
  <2> QED BY <2>1, <2>2, <2>3, <2>4, <2>5, <2>6
<1>4. task' \in [TaskId -> StoredTask]
  BY <1>3 DEF StoreTypeOK
<1> QED BY <1>1, <1>4 DEF StoreTypeOK

LEMMA RestType == Rest \in Frame
BY DEF Rest, Frame, PC, Outcome

LEMMA InitTypeInv == Init => TypeInv
<1> SUFFICES ASSUME Init PROVE TypeInv
  OBVIOUS
<1>1. NoTask \in StoredTask
  BY SubmissionAssumption DEF NoTask, NewTask, StoredTask, State, Active
<1>2. StoreTypeOK
  BY <1>1, MaxTasksAssumption DEF Init, StoreInit, StoreTypeOK
<1>3. exec \in [Exec -> Frame] /\ Engaged
  BY RestType DEF Init, Engaged, Rest
<1> QED BY <1>2, <1>3 DEF TypeInv, TypeOK

(* record_task_failure writes a well-typed row. *)
LEMMA RecordFailureType ==
    ASSUME TypeInv, NEW t \in TaskId, NEW seen, NEW retryable \in BOOLEAN,
           RecordFailure(t, seen, retryable)
    PROVE  StoreTypeOK'
<1>1. RecordRetry(t) \/ RecordError(t)
  BY DEF RecordFailure
<1> QED BY <1>1, RecordType DEF TypeInv, TypeOK

LEMMA ExecStepTypeInv ==
    ASSUME TypeInv, NEW e \in Exec, ExecStep(e)
    PROVE  TypeInv'
<1> USE DEF TypeInv, TypeOK, At
<1>0. exec[e] \in Frame
  OBVIOUS
<1>1. CASE SelectRunnable(e)
  <2>1. Runnable(FairGroup) \in SUBSET TaskId
    BY DEF Runnable
  <2> QED BY <1>0, <1>1, <2>1 DEF SelectRunnable, Frame, PC, Engaged, storeVars, StoreTypeOK
<1>2. CASE ClaimNothing(e)
  BY <1>2, RestType DEF ClaimNothing, EndIteration, Rest, Engaged, storeVars, StoreTypeOK
<1>3. CASE ClaimNext(e)
  <2>1. PICK t \in exec[e].snap :
          /\ Claim(t)
          /\ exec' = [exec EXCEPT ![e] =
                [Rest EXCEPT
                    !.pc = IF task[t].sub.valid THEN "resolving" ELSE "recording",
                    !.outcome = IF task[t].sub.valid THEN "none" ELSE "permanent",
                    !.tid = t,
                    !.seen = task[t].attempts + 1]]
    BY <1>3 DEF ClaimNext
  <2>2. t \in TaskId
    BY <1>0 DEF Frame
  <2>3. StoreTypeOK'
    BY <2>1, <2>2, RecordType
  <2>4. task[t].attempts + 1 \in Nat
    BY <2>2 DEF StoreTypeOK, StoredTask
  <2> QED BY <2>1, <2>2, <2>3, <2>4 DEF Rest, Frame, PC, Outcome, Engaged
<1>4. CASE NoBackend(e) \/ BackendResolved(e) \/ PostFails(e) \/ PostAnswered(e)
  BY <1>0, <1>4 DEF NoBackend, BackendResolved, PostFails, PostAnswered,
                    Frame, PC, Outcome, Engaged, storeVars, StoreTypeOK
<1>5. CASE Release(e)
  <2>1. StoreTypeOK'
    BY <1>5 DEF Release, storeVars, StoreTypeOK
  <2>2. CASE EndIteration(e)
    BY <2>1, <2>2, RestType DEF EndIteration, Rest, Engaged
  <2>3. CASE ~EndIteration(e)
    BY <1>0, <1>5, <2>1, <2>3 DEF Release, Frame, PC, Engaged
  <2> QED BY <2>2, <2>3
<1>6. CASE Record(e)
  <2>1. exec[e].tid \in TaskId
    BY <1>6 DEF Record, Engaged
  <2>2. StoreTypeOK'
    BY <1>6, <2>1, RecordType, RecordFailureType DEF Record
  <2> QED BY <1>0, <1>6, <2>1, <2>2 DEF Record, Frame, PC, Outcome, Engaged
<1>7. CASE Refresh(e)
  <2>1. StoreTypeOK'
    BY <1>7 DEF Refresh, storeVars, StoreTypeOK
  <2>2. CASE EndIteration(e)
    BY <2>1, <2>2, RestType DEF EndIteration, Rest, Engaged
  <2>3. CASE Goto(e, "releasing")
    BY <1>0, <1>7, <2>1, <2>3 DEF Refresh, Goto, Frame, PC, Engaged
  <2> QED BY <1>7, <2>2, <2>3 DEF Refresh
<1>8. CASE Recover(e)
  <2>1. exec[e].tid \in TaskId
    BY <1>8 DEF Recover, Engaged
  <2>2. StoreTypeOK'
    BY <1>8, <2>1, RecordFailureType DEF Recover
  <2> QED BY <1>0, <1>8, <2>1, <2>2 DEF Recover, Frame, PC, Outcome, Engaged
<1>9. CASE RecoverRefresh(e)
  BY <1>9, RestType DEF RecoverRefresh, EndIteration, Rest, Engaged, storeVars, StoreTypeOK
<1> QED BY <1>1, <1>2, <1>3, <1>4, <1>5, <1>6, <1>7, <1>8, <1>9 DEF ExecStep

LEMMA ExecFaultTypeInv ==
    ASSUME TypeInv, NEW e \in Exec, ExecFault(e)
    PROVE  TypeInv'
<1> USE DEF TypeInv, TypeOK, At
<1>0. exec[e] \in Frame
  OBVIOUS
<1>1. CASE ClaimRaises(e) \/ RecoverRaises(e) \/ RecoverRefreshRaises(e)
  <2>1. StoreTypeOK' /\ Die(e)
    BY <1>1 DEF ClaimRaises, RecoverRaises, RecoverRefreshRaises, storeVars, StoreTypeOK
  <2> QED BY <2>1 DEF Die, Rest, Frame, PC, Outcome, Engaged
<1>2. CASE ResolveRaises(e) \/ PostRaises(e)
  BY <1>0, <1>2 DEF ResolveRaises, PostRaises, Goto, Frame, PC, Outcome, Engaged,
                    storeVars, StoreTypeOK
<1>3. CASE RecordRaises(e) \/ RefreshRaises(e)
  BY <1>0, <1>3 DEF RecordRaises, RefreshRaises, Raised, Frame, PC, Outcome, Engaged,
                    storeVars, StoreTypeOK
<1>4. CASE Restart(e)
  BY <1>4, RestType DEF Restart, EndIteration, Rest, Engaged, storeVars, StoreTypeOK
<1> QED BY <1>1, <1>2, <1>3, <1>4 DEF ExecFault

(* The steps of callers and of the clock leave every frame alone. *)
LEMMA CallerTypeInv ==
    ASSUME TypeInv,
           \/ \E batch \in Batches : Submit(batch)
           \/ \E tenant \in Tenant, t \in TaskId : Cancel(tenant, t)
           \/ \E t \in TaskId : Wait(t)
           \/ UNCHANGED vars
    PROVE  TypeInv'
<1>1. StoreTypeOK' /\ UNCHANGED exec
  BY SubmitRows, RecordType DEF TypeInv, TypeOK, Submit, Cancel, Wait, vars, StoreTypeOK
<1> QED BY <1>1 DEF TypeInv, TypeOK, Engaged

LEMMA NextTypeInv == TypeInv /\ [Next]_vars => TypeInv'
<1> SUFFICES ASSUME TypeInv, [Next]_vars PROVE TypeInv'
  OBVIOUS
<1>1. CASE \E e \in Exec : ExecStep(e) \/ ExecFault(e)
  BY <1>1, ExecStepTypeInv, ExecFaultTypeInv
<1>2. CASE ~\E e \in Exec : ExecStep(e) \/ ExecFault(e)
  BY <1>2, CallerTypeInv DEF Next
<1> QED BY <1>1, <1>2

(***************************************************************************)
(* The rows and the frames keep their types, for any number of processes,  *)
(* tasks and attempts, under every fault and restart.                      *)
(***************************************************************************)
THEOREM TypeCorrect == Spec => []TypeOK
<1>1. Spec => []TypeInv
  BY InitTypeInv, NextTypeInv, PTL DEF Spec
<1>2. TypeInv => TypeOK
  BY DEF TypeInv
<1> QED BY <1>1, <1>2, PTL

----------------------------------------------------------------------------
(* Attempts are only counted up, and rows that do not exist have none. *)
SeenInPast ==
    /\ \A t \in TaskId : task[t].state = "absent" => task[t].attempts = 0
    /\ \A e \in Exec : exec[e].tid # NoTid => exec[e].seen <= task[exec[e].tid].attempts

AInv == TypeInv /\ SeenInPast /\ AttemptIdentity

LEMMA InitAInv == Init => AInv
<1> SUFFICES ASSUME Init PROVE AInv
  OBVIOUS
<1>1. TypeInv
  BY InitTypeInv
<1>2. \A t \in TaskId : task[t].attempts = 0
  BY DEF Init, StoreInit, NoTask, NewTask
<1>3. \A e \in Exec : exec[e].tid = NoTid
  BY DEF Init, Rest
<1> QED BY <1>1, <1>2, <1>3 DEF AInv, SeenInPast, AttemptIdentity

(* What the steps other than a claim do to rows and to frames. *)
LEMMA AttemptsKept ==
    ASSUME TypeInv, TypeInv', SeenInPast, AttemptIdentity,
           \A t \in TaskId : /\ task'[t].attempts = task[t].attempts
                             /\ task'[t].state = "absent" => task[t].state = "absent",
           \A e \in Exec : \/ exec'[e].tid = NoTid
                           \/ exec'[e].tid = exec[e].tid /\ exec'[e].seen = exec[e].seen
    PROVE  AInv'
<1> USE DEF TypeInv, TypeOK
<1>1. \A e \in Exec : exec[e].tid \in TaskId \union {NoTid}
  BY DEF Frame
<1>2. SeenInPast'
  BY <1>1 DEF SeenInPast
<1>3. AttemptIdentity'
  BY DEF AttemptIdentity
<1> QED BY <1>2, <1>3 DEF AInv

LEMMA RowsOfCalls ==
    ASSUME StoreTypeOK, NEW t \in TaskId,
           \/ RecordResult(t) \/ RecordError(t) \/ RecordRetry(t)
           \/ Elapse(t) \/ \E tenant \in Tenant : CancelTask(tenant, t)
    PROVE  \A u \in TaskId : /\ task'[u].attempts = task[u].attempts
                             /\ task'[u].state = "absent" => task[u].state = "absent"
<1>1. task[t] \in StoredTask
  BY DEF StoreTypeOK
<1>2. CASE RecordResult(t)
  BY <1>1, <1>2 DEF RecordResult, Succeeded, StoreTypeOK, StoredTask
<1>3. CASE RecordError(t)
  BY <1>1, <1>3 DEF RecordError, Failed, StoreTypeOK, StoredTask
<1>4. CASE RecordRetry(t)
  BY <1>1, <1>4 DEF RecordRetry, Retried, StoreTypeOK, StoredTask
<1>5. CASE Elapse(t)
  BY <1>1, <1>5 DEF Elapse, StoreTypeOK, StoredTask
<1>6. CASE \E tenant \in Tenant : CancelTask(tenant, t)
  BY <1>1, <1>6 DEF CancelTask, Cancelled, StoreTypeOK, StoredTask
<1> QED BY <1>2, <1>3, <1>4, <1>5, <1>6

LEMMA FramesOfSteps ==
    ASSUME TypeInv, NEW e \in Exec, ExecStep(e) \/ ExecFault(e), ~ClaimNext(e)
    PROVE  \A f \in Exec : \/ exec'[f].tid = NoTid
                           \/ exec'[f].tid = exec[f].tid /\ exec'[f].seen = exec[f].seen
<1> USE DEF TypeInv, TypeOK
<1>0. exec[e] \in Frame
  OBVIOUS
<1>1. CASE EndIteration(e) \/ Die(e)
  BY <1>1 DEF EndIteration, Die, Rest
<1>2. CASE ~EndIteration(e) /\ ~Die(e)
  <2>1. CASE SelectRunnable(e) \/ NoBackend(e) \/ BackendResolved(e) \/ PostFails(e)
             \/ PostAnswered(e)
    BY <1>0, <2>1 DEF SelectRunnable, NoBackend, BackendResolved, PostFails, PostAnswered, Frame
  <2>2. CASE Release(e) \/ Record(e) \/ Refresh(e) \/ Recover(e)
    <3>1. CASE Release(e) \/ Refresh(e)
      BY <1>0, <1>2, <3>1 DEF Release, Refresh, Goto, Frame
    <3>2. CASE Record(e) \/ Recover(e)
      <4>1. \E pc \in PC : exec' = [exec EXCEPT ![e].pc = pc, ![e].outcome = "done"]
        BY <3>2 DEF Record, Recover, PC
      <4> QED BY <1>0, <4>1 DEF Frame
    <3> QED BY <2>2, <3>1, <3>2
  <2>3. CASE ResolveRaises(e) \/ PostRaises(e) \/ RecordRaises(e) \/ RefreshRaises(e)
    BY <1>0, <2>3 DEF ResolveRaises, PostRaises, RecordRaises, RefreshRaises, Goto, Raised, Frame
  <2> QED BY <1>2, <2>1, <2>2, <2>3
          DEF ExecStep, ExecFault, ClaimNothing, RecoverRefresh, ClaimRaises,
              RecoverRaises, RecoverRefreshRaises, Restart
<1> QED BY <1>1, <1>2

LEMMA RowsOfSteps ==
    ASSUME TypeInv, NEW e \in Exec, ExecStep(e) \/ ExecFault(e), ~ClaimNext(e)
    PROVE  \A u \in TaskId : /\ task'[u].attempts = task[u].attempts
                             /\ task'[u].state = "absent" => task[u].state = "absent"
<1>1. CASE Record(e) \/ Recover(e)
  <2>1. exec[e].tid \in TaskId
    BY <1>1 DEF Record, Recover, At, TypeInv, Engaged
  <2>2. \/ RecordResult(exec[e].tid) \/ RecordError(exec[e].tid) \/ RecordRetry(exec[e].tid)
    BY <1>1 DEF Record, Recover, RecordFailure
  <2> QED BY <2>1, <2>2, RowsOfCalls DEF TypeInv, TypeOK
<1>2. CASE ~Record(e) /\ ~Recover(e)
  <2>1. UNCHANGED storeVars
    BY <1>2 DEF ExecStep, ExecFault, SelectRunnable, ClaimNothing, NoBackend, BackendResolved,
                PostFails, PostAnswered, Release, Refresh, RecoverRefresh, ClaimRaises,
                ResolveRaises, PostRaises, RecordRaises, RefreshRaises, RecoverRaises,
                RecoverRefreshRaises, Restart
  <2> QED BY <2>1 DEF storeVars
<1> QED BY <1>1, <1>2

(* A claim carries a number above every number seen for the row so far. *)
LEMMA ClaimAInv ==
    ASSUME AInv, NEW e \in Exec, ClaimNext(e)
    PROVE  AInv'
<1> USE DEF AInv, TypeInv, TypeOK
<1>1. TypeInv'
  BY ExecStepTypeInv DEF ExecStep
<1>2. PICK t \in exec[e].snap :
        /\ Claim(t)
        /\ exec' = [exec EXCEPT ![e] =
              [Rest EXCEPT
                  !.pc = IF task[t].sub.valid THEN "resolving" ELSE "recording",
                  !.outcome = IF task[t].sub.valid THEN "none" ELSE "permanent",
                  !.tid = t,
                  !.seen = task[t].attempts + 1]]
  BY DEF ClaimNext
<1>3. t \in TaskId /\ task[t] \in StoredTask /\ task[t].attempts \in Nat
  BY <1>2 DEF Frame, StoreTypeOK, StoredTask
<1>4. /\ task'[t].state = "running"
      /\ task'[t].attempts = task[t].attempts + 1
      /\ \A u \in TaskId \ {t} : task'[u] = task[u]
  BY <1>2, <1>3 DEF Claim, Claimed, StoreTypeOK, StoredTask
<1>5. /\ exec'[e].tid = t
      /\ exec'[e].seen = task[t].attempts + 1
      /\ \A f \in Exec \ {e} : exec'[f] = exec[f]
  BY <1>2 DEF Rest
<1>6. \A f \in Exec : exec[f].tid \in TaskId \union {NoTid} /\ exec[f].seen \in Nat
  BY DEF Frame
<1>7. SeenInPast'
  BY <1>3, <1>4, <1>5, <1>6 DEF SeenInPast
<1>8. \A f \in Exec \ {e} : exec[f].tid = t => exec[f].seen < task[t].attempts + 1
  BY <1>3, <1>6 DEF SeenInPast, NoTid, TaskId
<1>9. AttemptIdentity'
  BY <1>3, <1>5, <1>6, <1>8 DEF AttemptIdentity
<1> QED BY <1>1, <1>7, <1>9

LEMMA NextAInv == AInv /\ [Next]_vars => AInv'
<1> SUFFICES ASSUME AInv, [Next]_vars PROVE AInv'
  OBVIOUS
<1> USE DEF AInv
<1>1. TypeInv'
  BY NextTypeInv
<1>2. ASSUME NEW e \in Exec, ExecStep(e) \/ ExecFault(e)
      PROVE  AInv'
  BY <1>1, <1>2, ClaimAInv, AttemptsKept, FramesOfSteps, RowsOfSteps
<1>3. CASE \E batch \in Batches : Submit(batch)
  <2>1. PICK batch \in Batches : SubmitMany(batch) /\ UNCHANGED exec
    BY <1>3 DEF Submit
  <2>2. \A s \in Submission : NewTask(s).attempts = 0 /\ NewTask(s).state = "queued"
    BY DEF NewTask
  <2>3. \A t \in TaskId : /\ task'[t].attempts = task[t].attempts
                          /\ task'[t].state = "absent" => task[t].state = "absent"
    BY <2>1, <2>2, SubmitRows DEF SeenInPast, TypeInv, TypeOK
  <2> QED BY <1>1, <2>1, <2>3, AttemptsKept
<1>4. CASE \/ \E tenant \in Tenant, t \in TaskId : Cancel(tenant, t)
           \/ \E t \in TaskId : Wait(t)
  <2>1. UNCHANGED exec
    BY <1>4 DEF Cancel, Wait
  <2>2. \A t \in TaskId : /\ task'[t].attempts = task[t].attempts
                          /\ task'[t].state = "absent" => task[t].state = "absent"
    BY <1>4, RowsOfCalls DEF Cancel, Wait, TypeInv, TypeOK
  <2> QED BY <1>1, <2>1, <2>2, AttemptsKept
<1>5. CASE UNCHANGED vars
  BY <1>1, <1>5, AttemptsKept DEF vars
<1> QED BY <1>2, <1>3, <1>4, <1>5 DEF Next

(***************************************************************************)
(* Two processes that work for one task carry different attempt counts,    *)
(* under every fault, also where the loop's except clause requeues a task  *)
(* that another process has claimed since.                                 *)
(***************************************************************************)
THEOREM AttemptIdentityTheorem == Spec => []AttemptIdentity
<1>1. AInv => AttemptIdentity
  BY DEF AInv
<1> QED BY <1>1, InitAInv, NextAInv, PTL DEF Spec

----------------------------------------------------------------------------
(* A frame never names a row that does not exist. *)
NamedExists == \A e \in Exec : exec[e].tid # NoTid => task[exec[e].tid].state # "absent"

KInv == TypeInv /\ NamedExists /\ OneTaskPerKey

(* The steps other than a submission keep the set of rows and their keys. *)
SameRows == \A t \in TaskId : /\ task'[t].sub = task[t].sub
                              /\ task'[t].state = "absent" <=> task[t].state = "absent"

LEMMA CallSameRows ==
    ASSUME StoreTypeOK, NEW t \in TaskId,
           \/ /\ task[t].state # "absent"
              /\ Claim(t) \/ RecordResult(t) \/ RecordError(t) \/ RecordRetry(t)
           \/ Elapse(t) \/ \E tenant \in Tenant : CancelTask(tenant, t)
    PROVE  SameRows
<1>1. task[t] \in StoredTask
  BY DEF StoreTypeOK
<1>2. CASE task[t].state # "absent" /\ Claim(t)
  BY <1>1, <1>2 DEF Claim, Claimed, SameRows, StoreTypeOK, StoredTask
<1>3. CASE task[t].state # "absent" /\ RecordResult(t)
  BY <1>1, <1>3 DEF RecordResult, Succeeded, SameRows, StoreTypeOK, StoredTask
<1>4. CASE task[t].state # "absent" /\ RecordError(t)
  BY <1>1, <1>4 DEF RecordError, Failed, SameRows, StoreTypeOK, StoredTask
<1>5. CASE task[t].state # "absent" /\ RecordRetry(t)
  BY <1>1, <1>5 DEF RecordRetry, Retried, SameRows, StoreTypeOK, StoredTask
<1>6. CASE Elapse(t)
  BY <1>1, <1>6 DEF Elapse, SameRows, StoreTypeOK, StoredTask
<1>7. CASE \E tenant \in Tenant : CancelTask(tenant, t)
  BY <1>1, <1>7 DEF CancelTask, Cancelled, Active, SameRows, StoreTypeOK, StoredTask
<1> QED BY <1>2, <1>3, <1>4, <1>5, <1>6, <1>7

LEMMA SameRowsKInv ==
    ASSUME KInv, TypeInv', SameRows,
           \A e \in Exec : \/ exec'[e].tid = NoTid
                           \/ exec'[e].tid = exec[e].tid
                           \/ exec'[e].tid \in TaskId /\ task[exec'[e].tid].state # "absent"
    PROVE  KInv'
<1>1. \A e \in Exec : exec[e].tid \in TaskId \union {NoTid}
  BY DEF KInv, TypeInv, TypeOK, Frame
<1>2. NamedExists'
  BY <1>1 DEF KInv, NamedExists, SameRows
<1>3. OneTaskPerKey'
  BY DEF KInv, OneTaskPerKey, SameRows, SameKey
<1> QED BY <1>2, <1>3 DEF KInv

LEMMA ExecKInv ==
    ASSUME KInv, NEW e \in Exec, ExecStep(e) \/ ExecFault(e)
    PROVE  KInv'
<1> USE DEF KInv, TypeInv, TypeOK
<1>1. TypeInv'
  BY ExecStepTypeInv, ExecFaultTypeInv
<1>2. CASE ClaimNext(e)
  <2>1. PICK t \in exec[e].snap : Claimable(t) /\ Claim(t) /\ exec'[e].tid = t
                                  /\ \A f \in Exec \ {e} : exec'[f] = exec[f]
    BY <1>2 DEF ClaimNext, Rest
  <2>2. t \in TaskId /\ task[t].state # "absent"
    BY <2>1 DEF Frame, Claimable
  <2> QED BY <1>1, <2>1, <2>2, CallSameRows, SameRowsKInv
<1>3. CASE Record(e) \/ Recover(e)
  <2>0. exec[e].tid \in TaskId
    BY <1>3 DEF Record, Recover, At, Engaged
  <2>1. exec[e].tid \in TaskId /\ task[exec[e].tid].state # "absent"
    BY <2>0 DEF NamedExists, NoTid, TaskId
  <2>2. \/ RecordResult(exec[e].tid) \/ RecordError(exec[e].tid) \/ RecordRetry(exec[e].tid)
    BY <1>3 DEF Record, Recover, RecordFailure
  <2>3. SameRows
    BY <2>1, <2>2, CallSameRows
  <2>4. ~ClaimNext(e)
    BY <1>3 DEF Record, Recover, ClaimNext, At
  <2> QED BY <1>1, <2>3, <2>4, FramesOfSteps, SameRowsKInv
<1>4. CASE ~ClaimNext(e) /\ ~Record(e) /\ ~Recover(e)
  <2>1. UNCHANGED storeVars
    BY <1>4 DEF ExecStep, ExecFault, SelectRunnable, ClaimNothing, NoBackend, BackendResolved,
                PostFails, PostAnswered, Release, Refresh, RecoverRefresh, ClaimRaises,
                ResolveRaises, PostRaises, RecordRaises, RefreshRaises, RecoverRaises,
                RecoverRefreshRaises, Restart
  <2>2. SameRows
    BY <2>1 DEF SameRows, storeVars
  <2> QED BY <1>1, <1>4, <2>2, FramesOfSteps, SameRowsKInv
<1> QED BY <1>2, <1>3, <1>4

(* submit_many adds a row only for a key no row and no earlier entry has. *)
LEMMA SubmitKInv ==
    ASSUME KInv, NEW batch \in Batches, Submit(batch)
    PROVE  KInv'
<1> USE DEF KInv, TypeInv, TypeOK
<1> DEFINE fresh == Fresh(batch)
<1>1. TypeInv' /\ UNCHANGED exec
  BY CallerTypeInv DEF Submit
<1>2. PICK id \in [fresh -> TaskId] :
        /\ \A i \in fresh : task[id[i]].state = "absent"
        /\ task' = [t \in TaskId |->
                      IF \E i \in fresh : id[i] = t
                      THEN NewTask(batch[CHOOSE i \in fresh : id[i] = t])
                      ELSE task[t]]
  BY DEF Submit, SubmitMany
<1>3. /\ fresh \subseteq Nat
      /\ \A i \in fresh : ~Indexed(batch[i])
      /\ \A i, j \in fresh : j < i => ~SameKey(batch[i], batch[j])
  BY BatchesAssumption DEF Fresh
<1>4. \A t \in TaskId : \/ task'[t] = task[t]
                        \/ \E i \in fresh : id[i] = t /\ task'[t].sub = batch[i]
  BY <1>2 DEF NewTask
<1>5. NamedExists'
  <2>1. \A e \in Exec : exec[e].tid \in TaskId \union {NoTid}
    BY DEF Frame
  <2>2. \A t \in TaskId : task[t].state # "absent" => task'[t] = task[t]
    BY <1>2
  <2> QED BY <1>1, <2>1, <2>2 DEF NamedExists
<1>6. OneTaskPerKey'
  <2> SUFFICES ASSUME NEW t \in TaskId, NEW u \in TaskId, t # u,
                      task'[t].state # "absent", task'[u].state # "absent",
                      SameKey(task'[t].sub, task'[u].sub)
               PROVE  FALSE
    BY DEF OneTaskPerKey
  <2>1. CASE task'[t] = task[t] /\ task'[u] = task[u]
    BY <2>1 DEF OneTaskPerKey
  <2>2. ASSUME NEW x \in TaskId, NEW y \in TaskId, NEW i \in fresh,
               task'[x].sub = batch[i], task'[y] = task[y], task'[y].state # "absent",
               SameKey(task'[x].sub, task'[y].sub)
        PROVE  FALSE
    BY <1>3, <2>2 DEF Indexed, SameKey
  <2>3. ASSUME NEW i \in fresh, NEW j \in fresh, id[i] = t, id[j] = u,
               task'[t].sub = batch[i], task'[u].sub = batch[j]
        PROVE  FALSE
    <3>1. i # j /\ i \in Nat /\ j \in Nat
      BY <1>3, <2>3
    <3>2. i < j \/ j < i
      BY <3>1
    <3> QED BY <1>3, <2>3, <3>2 DEF SameKey
  <2>4. SameKey(task'[u].sub, task'[t].sub)
    BY DEF SameKey
  <2> QED BY <1>4, <2>1, <2>2, <2>3, <2>4
<1> QED BY <1>1, <1>5, <1>6

LEMMA NextKInv == KInv /\ [Next]_vars => KInv'
<1> SUFFICES ASSUME KInv, [Next]_vars PROVE KInv'
  OBVIOUS
<1>1. CASE \E e \in Exec : ExecStep(e) \/ ExecFault(e)
  BY <1>1, ExecKInv
<1>2. CASE \E batch \in Batches : Submit(batch)
  BY <1>2, SubmitKInv
<1>3. CASE \/ \E tenant \in Tenant, t \in TaskId : Cancel(tenant, t)
           \/ \E t \in TaskId : Wait(t)
  <2>1. UNCHANGED exec /\ TypeInv'
    BY <1>3, CallerTypeInv DEF Cancel, Wait, KInv
  <2>2. SameRows
    BY <1>3, CallSameRows DEF Cancel, Wait, KInv, TypeInv, TypeOK
  <2> QED BY <2>1, <2>2, SameRowsKInv
<1>4. CASE UNCHANGED vars
  BY <1>4, CallerTypeInv, SameRowsKInv DEF vars, SameRows, KInv
<1> QED BY <1>1, <1>2, <1>3, <1>4 DEF Next

(***************************************************************************)
(* Two rows never share a tenant and an idempotency key, under every fault *)
(* and restart and for any batches.                                        *)
(***************************************************************************)
THEOREM OneTaskPerKeyTheorem == Spec => []OneTaskPerKey
<1>1. Init => KInv
  <2> SUFFICES ASSUME Init PROVE KInv
    OBVIOUS
  <2>1. \A t \in TaskId : task[t].state = "absent"
    BY DEF Init, StoreInit, NoTask, NewTask
  <2>2. \A e \in Exec : exec[e].tid = NoTid
    BY DEF Init, Rest
  <2> QED BY <2>1, <2>2, InitTypeInv DEF KInv, NamedExists, OneTaskPerKey
<1>2. KInv => OneTaskPerKey
  BY DEF KInv
<1> QED BY <1>1, <1>2, NextKInv, PTL DEF Spec
============================================================================
