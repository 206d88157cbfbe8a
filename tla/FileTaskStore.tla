--------------------------- MODULE FileTaskStore ---------------------------
(***************************************************************************)
(* JsonFileTaskStore and the executor loop of the one process that owns    *)
(* it.  Every mutating call changes the table in memory and then writes    *)
(* the whole table to a temporary file that replaces the old one; the      *)
(* write may raise, which the callers of the store meet in different       *)
(* places, and the process may stop at any time and load what the file     *)
(* holds.  The store's calls are synchronous: a step is what the event     *)
(* loop runs between two awaits.  What happens within one execution is the *)
(* subject of TaskExecutor; here it is the await of an outcome, and the    *)
(* await of the reconcile after the outcome was recorded.                  *)
(***************************************************************************)
EXTENDS TaskStore, TaskAdmission

CONSTANTS MaxAttempts,   \* settings.task_executor_max_attempts
          Raw,           \* what each submission asks for, as its request body has it
          MaxFaults      \* bound: the writes of the file that raise

ASSUME FileAttemptsAssumption == MaxAttempts \in Nat \ {0}
ASSUME RawAssumption == Raw \in [Submission -> RawTask]
ASSUME ValidAssumption == \A s \in Submission : s.valid = Executable(Raw[s])
ASSUME MaxFaultsAssumption == MaxFaults \in Nat

VARIABLES disk,   \* the file: the records of the stored rows and their updated_at
          faults, \* the writes that raised so far
          loop,   \* task_executor_loop: where it is and the task it executes
          acked,  \* history: the submissions answered with 202
          calls,  \* history: how often a backend was called for a task
          turns   \* history: per waiting group, the groups served since it waits

fileVars == <<task, stamp, disk, faults, loop, acked, calls, turns>>

Idle == [pc |-> "idle", tid |-> 0]
Dead == [pc |-> "dead", tid |-> 0]
Executing(t) == [pc |-> "executing", tid |-> t]
Refreshing(t) == [pc |-> "refreshing", tid |-> t]   \* recorded, awaiting the reconcile
Recovering(t) == [pc |-> "recovering", tid |-> t]   \* not recorded: the write raised

Stored(rows) == {t \in TaskId : rows[t].state # "absent"}

(* _save_to_disk writes one record per row. *)
File(rows, ranks) == [rows  |-> [t \in Stored(rows) |-> rows[t]],
                      ranks |-> [t \in Stored(rows) |-> ranks[t]]]

(* Type invariant of the table, the file and the loop. *)
TypeOK ==
    /\ StoreTypeOK
    /\ DOMAIN disk.rows \subseteq TaskId
    /\ DOMAIN disk.ranks = DOMAIN disk.rows
    /\ \A t \in DOMAIN disk.rows : /\ disk.rows[t] \in StoredTask
                                   /\ disk.rows[t].state # "absent"
                                   /\ disk.ranks[t] \in 0 .. MaxTasks
    /\ faults \in 0 .. MaxFaults
    /\ loop \in {Idle, Dead} \union {Executing(t) : t \in TaskId}
                           \union {Refreshing(t) : t \in TaskId}
                           \union {Recovering(t) : t \in TaskId}
    /\ acked \subseteq Submission
    /\ calls \in [TaskId -> Nat]
    /\ turns \in [Group -> SUBSET Group]

Init ==
    /\ StoreInit
    /\ disk = File(task, stamp)
    /\ faults = 0
    /\ loop = Idle
    /\ acked = {}
    /\ calls = [t \in TaskId |-> 0]
    /\ turns = [g \in Group |-> {}]

----------------------------------------------------------------------------
(* Mutant: the file itself is truncated and written, so a failed write empties it. *)
SaveRaisesInPlace ==
    /\ faults < MaxFaults
    /\ faults' = faults + 1
    /\ disk' = File([t \in TaskId |-> NoTask], stamp)

(* _save_to_disk: the new file replaces the old one, or an exception leaves the old. *)
Saved == disk' = File(task', stamp') /\ UNCHANGED faults

SaveRaises ==
    /\ faults < MaxFaults
    /\ faults' = faults + 1
    /\ UNCHANGED disk

----------------------------------------------------------------------------
(* The bodies that parse. *)
Accepted == {batch \in Batches : ParsesAll([i \in DOMAIN batch |-> Raw[batch[i]]])}

(***************************************************************************)
(* POST /tasks/queue: 400 for a body that does not parse, else 202, or 500 *)
(* when the save raises.  If the reconcile awaited after the save raises,  *)
(* the answer is 500 for tasks that are on file: one promise less to keep. *)
(***************************************************************************)
Submit(batch) ==
    /\ batch \in Accepted
    /\ SubmitMany(batch)
    /\ Saved
    /\ acked' = acked \union {batch[i] : i \in DOMAIN batch}
    /\ UNCHANGED <<loop, calls>>

SubmitRaises(batch) ==
    /\ batch \in Accepted
    /\ SubmitMany(batch)
    /\ SaveRaises
    /\ UNCHANGED <<loop, acked, calls>>

(* DELETE /tasks/{id} *)
Cancel(tenant, t) ==
    /\ CancelTask(tenant, t)
    /\ Saved \/ SaveRaises
    /\ UNCHANGED <<loop, acked, calls>>

(* The clock passes next_attempt_at; nothing is written. *)
Wait(t) ==
    /\ Elapse(t)
    /\ UNCHANGED <<disk, faults, loop, acked, calls>>

----------------------------------------------------------------------------
(* Mutant: the file learns of a claim with the outcome only. *)
ClaimNextUnsaved ==
    /\ loop = Idle
    /\ RunnableGroups # {}
    /\ LET t == Oldest(Runnable(FairGroup)) IN
          /\ Claim(t)
          /\ loop' = Executing(t)
          /\ calls' = [calls EXCEPT ![t] = IF Executable(Raw[task[t].sub]) THEN @ + 1 ELSE @]
    /\ UNCHANGED <<acked, disk, faults>>

(* claim_next, and the call of a backend for the task if it passes the executor's checks. *)
ClaimNext ==
    /\ loop = Idle
    /\ RunnableGroups # {}
    /\ LET t == Oldest(Runnable(FairGroup)) IN
          /\ Claim(t)
          /\ loop' = Executing(t)
          /\ calls' = [calls EXCEPT ![t] = IF Executable(Raw[task[t].sub]) THEN @ + 1 ELSE @]
    /\ Saved
    /\ UNCHANGED acked

(* The exception leaves claim_next, which no try statement of the loop covers. *)
ClaimRaises ==
    /\ loop = Idle
    /\ RunnableGroups # {}
    /\ Claim(Oldest(Runnable(FairGroup)))
    /\ SaveRaises
    /\ loop' = Dead
    /\ UNCHANGED <<acked, calls>>

(* record_task_failure: the task in hand is the row itself, not a copy. *)
FailedOrRetried(r, retryable) ==
    IF retryable /\ r.attempts < MaxAttempts THEN Retried(r) ELSE Failed(r)

OutcomeRows(r) ==
    IF Executable(Raw[r.sub])
    THEN {Succeeded(r), FailedOrRetried(r, TRUE), FailedOrRetried(r, FALSE)}
    ELSE {FailedOrRetried(r, FALSE)}

(* The execution ends and its outcome is recorded, in memory at least. *)
Record ==
    /\ loop.pc = "executing"
    /\ \E row \in OutcomeRows(task[loop.tid]) : task' = [task EXCEPT ![loop.tid] = row]
    /\ Touch(loop.tid)
    /\ Saved
    /\ loop' = Refreshing(loop.tid)
    /\ UNCHANGED <<acked, calls>>

(***************************************************************************)
(* The write of the outcome raises.  On the way to the except clause of    *)
(* the loop the release of a backend may be awaited, where others run.     *)
(***************************************************************************)
RecordRaises ==
    /\ loop.pc = "executing"
    /\ \E row \in OutcomeRows(task[loop.tid]) : task' = [task EXCEPT ![loop.tid] = row]
    /\ Touch(loop.tid)
    /\ SaveRaises
    /\ loop' = Recovering(loop.tid)
    /\ UNCHANGED <<acked, calls>>

(* The reconcile after the record, and the release of the backend, return. *)
Refresh ==
    /\ loop.pc = "refreshing"
    /\ loop' = Idle
    /\ UNCHANGED <<storeVars, disk, faults, acked, calls>>

(***************************************************************************)
(* The resolver or the call of the backend raises, the reconcile after the *)
(* record does, or the write of the outcome did: the except clause of the  *)
(* loop records a retryable failure on the row as it is by now and awaits  *)
(* another reconcile.  An exception of this write, or of that reconcile,   *)
(* ends the loop.                                                          *)
(***************************************************************************)
Recover ==
    /\ \/ loop.pc = "executing" /\ Executable(Raw[task[loop.tid].sub])
       \/ loop.pc \in {"refreshing", "recovering"}
    /\ task' = [task EXCEPT ![loop.tid] = FailedOrRetried(task[loop.tid], TRUE)]
    /\ Touch(loop.tid)
    /\ \/ Saved /\ loop' \in {Idle, Dead}
       \/ SaveRaises /\ loop' = Dead
    /\ UNCHANGED <<acked, calls>>

----------------------------------------------------------------------------
(* _load_from_disk and _load_tasks *)
LoadedRows == [t \in TaskId |-> IF t \in DOMAIN disk.rows THEN disk.rows[t] ELSE NoTask]

(***************************************************************************)
(* The process stops, also between the write of the temporary file and its *)
(* renaming, and starts again: the table and its index are built from the  *)
(* records of the file.                                                    *)
(***************************************************************************)
Restart ==
    /\ task' = LoadedRows
    /\ stamp' = [t \in TaskId |-> IF t \in DOMAIN disk.ranks THEN disk.ranks[t] ELSE 0]
    /\ loop' = Idle
    /\ turns' = [g \in Group |-> {}]
    /\ UNCHANGED <<disk, faults, acked, calls>>

----------------------------------------------------------------------------
(* Bookkeeping of turns. *)
Waits(g) == Runnable(g) # {}

(* The step is the claim of a task of g. *)
Claims(g) ==
    /\ loop = Idle
    /\ loop'.pc = "executing"
    /\ task[loop'.tid].sub.group = g

(* A cancel of a task that was tried counts as an update of its group, *)
(* which moves the group back.                                         *)
Disturbs(g) ==
    \E t \in TaskId : /\ task[t].sub.group = g
                      /\ task[t].attempts >= 1
                      /\ task[t].state \in Active
                      /\ task'[t].state = "cancelled"

CountTurns ==
    turns' = [g \in Group |->
                IF Claims(g) \/ Disturbs(g) \/ ~Waits(g)' THEN {}
                ELSE turns[g] \union {h \in Group : Claims(h)}]

Step ==
    \/ \E batch \in Batches : Submit(batch) \/ SubmitRaises(batch)
    \/ \E tenant \in {s.tenant : s \in Submission}, t \in TaskId : Cancel(tenant, t)
    \/ \E t \in TaskId : Wait(t)
    \/ ClaimNext \/ ClaimRaises
    \/ Record \/ RecordRaises \/ Refresh \/ Recover

Next == (Step /\ CountTurns) \/ Restart

Spec == Init /\ [][Next]_fileVars

----------------------------------------------------------------------------
(***************************************************************************)
(* docs/TASK_CONTEXT_ORCHESTRATION_PLAN.md: "Restarting queue proxy does   *)
(* not lose queued tasks".  A caller that was answered with 202 finds its  *)
(* task after any restart, also when an earlier write of the file raised   *)
(* and the 202 only repeats a task that was in memory.                     *)
(***************************************************************************)
AcknowledgedIsDurable ==
    \A s \in acked : \E t \in DOMAIN disk.rows : SameKey(disk.rows[t].sub, s)

(***************************************************************************)
(* A backend is called for a task only after the file has counted the      *)
(* attempt: no restart and no failed write gives a task more executions    *)
(* than its attempt count, or the limit, allows.                           *)
(***************************************************************************)
WorkIsAccounted ==
    \A t \in TaskId : calls[t] > 0 =>
        /\ t \in DOMAIN disk.rows
        /\ calls[t] <= disk.rows[t].attempts
        /\ calls[t] <= MaxAttempts

(* Memory and file agree that t is settled, and the loop is done with it. *)
Final(t) ==
    /\ t \in DOMAIN disk.rows
    /\ disk.rows[t] = task[t]
    /\ task[t].state \in Settled
    /\ loop.tid # t

(***************************************************************************)
(* "Completed tasks survive service restart": an outcome that reached the  *)
(* file stays as it is, in the file and for those who poll, through later  *)
(* writes, failed writes and restarts, once the loop has left the task.    *)
(* While it awaits the reconcile after the record the outcome may still be *)
(* overwritten (OutcomeIsFinal of TaskExecutor).                           *)
(***************************************************************************)
OutcomeOnFileIsFinal ==
    [][\A t \in TaskId : Final(t) => Final(t)' /\ task'[t] = task[t]]_fileVars

(***************************************************************************)
(* Fair claiming: while a group has a claimable task, no other group is    *)
(* served twice, unless a cancel or a restart changed what the store knows *)
(* of the waiting group.                                                   *)
(***************************************************************************)
NoSecondTurn ==
    [][\A g, h \in Group : Claims(g) /\ h # g /\ Waits(h) => g \notin turns[h]]_fileVars

ActiveFor(model) ==
    {t \in TaskId : task[t].state \in Active /\ Raw[task[t].sub].model = model}

(***************************************************************************)
(* The context plan sent to the lifecycle service fits what it is for: the *)
(* recommended context holds every active task not reported as oversized   *)
(* and exceeds no task's cap, and there is never a slot more than tasks.   *)
(***************************************************************************)
PlanServesTasks ==
    \A model \in {Raw[s].model : s \in Submission} :
        LET S    == ActiveFor(model)
            raw  == [t \in S |-> Raw[task[t].sub]]
            plan == ContextPlan(S, raw)
        IN S # {} => /\ \A t \in S \ plan.oversized : RequiredContext(raw[t]) <= plan.context
                     /\ \A cap \in Caps(S, raw) : plan.context <= cap
                     /\ plan.parallel \in 1 .. Cardinality(S)
============================================================================
