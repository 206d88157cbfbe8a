----------------------------- MODULE TaskStore -----------------------------
(***************************************************************************)
(* The durable task table of the queue proxy (InMemoryTaskStore and        *)
(* PostgresTaskStore): one row per task, the (tenant, idempotency key)     *)
(* index, the claim order and the calls that move a task between states.   *)
(* Every operator that primes a variable is one call of the store, which   *)
(* runs as one step: a transaction in Postgres, a stretch of the event     *)
(* loop without an await in memory.                                        *)
(***************************************************************************)
EXTENDS Integers, FiniteSets, Sequences

CONSTANTS MaxTasks,     \* bound: the rows the table may ever hold
          Submission,   \* what a caller may ask for
          Batches       \* the request bodies that reach submit_many

(***************************************************************************)
(* A submission is [tenant, key, group, valid]: the idempotency key, the   *)
(* fairness group it belongs to (tenant, project, service, task, priority  *)
(* and model), and whether its payload and model pass the checks the       *)
(* executor makes before it looks for a backend.                           *)
(***************************************************************************)
ASSUME MaxTasksAssumption == MaxTasks \in Nat \ {0}

ASSUME SubmissionAssumption ==
    /\ Submission # {}
    /\ \A s \in Submission : s = [tenant |-> s.tenant, key |-> s.key,
                                  group |-> s.group, valid |-> s.valid]
    /\ \A s, r \in Submission : s.group = r.group => s.tenant = r.tenant

ASSUME BatchesAssumption == Batches \subseteq Seq(Submission)

VARIABLES task,   \* _tasks_by_id / llmo_tasks, by creation order
          stamp   \* rank of updated_at among the rows updated since submission

storeVars == <<task, stamp>>

TaskId == 1 .. MaxTasks

Settled == {"succeeded", "failed", "cancelled"}
Active  == {"queued", "running"}
State   == {"absent"} \union Active \union Settled

(***************************************************************************)
(* One row.  delayed: next_attempt_at is set and still ahead; result:      *)
(* result_json is set; finished: finished_at is set.                       *)
(***************************************************************************)
StoredTask == [state    : State,
               sub      : Submission,
               attempts : Nat,
               delayed  : BOOLEAN,
               result   : BOOLEAN,
               finished : BOOLEAN]

NewTask(s) == [state |-> "queued", sub |-> s, attempts |-> 0,
               delayed |-> FALSE, result |-> FALSE, finished |-> FALSE]

NoTask == [NewTask(CHOOSE s \in Submission : TRUE) EXCEPT !.state = "absent"]

StoreTypeOK ==
    /\ task \in [TaskId -> StoredTask]
    /\ stamp \in [TaskId -> 0 .. MaxTasks]

StoreInit ==
    /\ task = [t \in TaskId |-> NoTask]
    /\ stamp = [t \in TaskId |-> 0]

----------------------------------------------------------------------------
(* updated_at = now: t becomes the most recently updated row. *)
Touch(t) ==
    stamp' = [u \in TaskId |-> IF u = t THEN MaxTasks
                               ELSE IF stamp[u] > stamp[t] THEN stamp[u] - 1
                               ELSE stamp[u]]

(***************************************************************************)
(* submit_many: only the first of the submissions that share an unindexed  *)
(* (tenant, key) becomes a row; the others are answered with that row.     *)
(***************************************************************************)
SameKey(s, r) == s.tenant = r.tenant /\ s.key = r.key

(* Mutant: only unsettled rows keep their key. *)
IndexedActive(s) == \E t \in TaskId : task[t].state \in Active /\ SameKey(task[t].sub, s)

Indexed(s) == \E t \in TaskId : task[t].state # "absent" /\ SameKey(task[t].sub, s)

Fresh(batch) ==
    {i \in DOMAIN batch : /\ ~Indexed(batch[i])
                          /\ \A j \in 1 .. i - 1 : ~SameKey(batch[i], batch[j])}

SubmitMany(batch) ==
    LET fresh == Fresh(batch) IN
    \E id \in [fresh -> TaskId] :
        /\ \A i \in fresh : task[id[i]].state = "absent"
        /\ \A i, j \in fresh : i < j => id[i] < id[j]
        /\ \A t \in TaskId : \A i \in fresh :
              task[t].state = "absent" /\ t < id[i] => \E j \in fresh : id[j] = t
        /\ task' = [t \in TaskId |->
                      IF \E i \in fresh : id[i] = t
                      THEN NewTask(batch[CHOOSE i \in fresh : id[i] = t])
                      ELSE task[t]]
        /\ UNCHANGED stamp

----------------------------------------------------------------------------
(* is_task_claimable *)
Claimable(t) == task[t].state = "queued" /\ ~task[t].delayed

Group == {s.group : s \in Submission}

Runnable(g) == {t \in TaskId : Claimable(t) /\ task[t].sub.group = g}

RunnableGroups == {g \in Group : Runnable(g) # {}}

Oldest(S) == CHOOSE t \in S : \A u \in S : t <= u

(* The updates of rows that were claimed at least once, 0 for none. *)
Served(g) == {0} \union {stamp[t] : t \in {u \in TaskId : /\ task[u].attempts >= 1
                                                        /\ task[u].sub.group = g}}

LastClaimed(g) == CHOOSE n \in Served(g) : \A m \in Served(g) : m <= n

(* Mutant: the oldest candidate comes first, whoever was served. *)
PrecedesOldest(g, h) == Oldest(Runnable(g)) <= Oldest(Runnable(h))

(***************************************************************************)
(* group_sort_key: groups never served first, then the one whose served    *)
(* rows were updated longest ago, then the one with the oldest candidate.  *)
(***************************************************************************)
Precedes(g, h) ==
    \/ LastClaimed(g) < LastClaimed(h)
    \/ /\ LastClaimed(g) = LastClaimed(h)
       /\ Oldest(Runnable(g)) <= Oldest(Runnable(h))

FairGroup == CHOOSE g \in RunnableGroups : \A h \in RunnableGroups : Precedes(g, h)

(* Mutant: every claim counts as the first attempt. *)
ClaimedFirstAttempt(r) == [r EXCEPT !.state = "running", !.attempts = 1, !.delayed = FALSE]

(* The row claim_next leaves behind. *)
Claimed(r) == [r EXCEPT !.state = "running", !.attempts = @ + 1, !.delayed = FALSE]

(* The UPDATE of claim_next on the row it selected. *)
Claim(t) == task' = [task EXCEPT ![t] = Claimed(@)] /\ Touch(t)

----------------------------------------------------------------------------
(* Mutant: a result is stored, but a cancelled row keeps its state. *)
SucceededUnlessCancelled(r) ==
    [r EXCEPT !.state = IF @ = "cancelled" THEN @ ELSE "succeeded",
              !.result = TRUE, !.delayed = FALSE, !.finished = TRUE]

(* Mutant: a state that claim_next and the status filter do not know. *)
RetriedUnknownState(r) == [r EXCEPT !.state = "retrying", !.delayed = TRUE]

(* Mutant: next_attempt_at is set but the state is left as it is. *)
RetriedStaysRunning(r) == [r EXCEPT !.delayed = TRUE]

(* Mutant: a task that goes back to the queue starts to count anew. *)
RetriedFromScratch(r) == [r EXCEPT !.state = "queued", !.attempts = 0, !.delayed = TRUE]

(* The rows that record_result, record_error, record_retry and cancel_task leave. *)
Succeeded(r) == [r EXCEPT !.state = "succeeded", !.result = TRUE,
                          !.delayed = FALSE, !.finished = TRUE]

Failed(r) == [r EXCEPT !.state = "failed", !.delayed = FALSE, !.finished = TRUE]

Retried(r) == [r EXCEPT !.state = "queued", !.delayed = TRUE]

Cancelled(r) == [r EXCEPT !.state = "cancelled", !.delayed = FALSE, !.finished = TRUE]

(* The recording calls find the row by its id alone: no state is required. *)
RecordResult(t) == task' = [task EXCEPT ![t] = Succeeded(@)] /\ Touch(t)

RecordError(t) == task' = [task EXCEPT ![t] = Failed(@)] /\ Touch(t)

RecordRetry(t) == task' = [task EXCEPT ![t] = Retried(@)] /\ Touch(t)

(* Mutant: a settled task may be cancelled. *)
CancelAnyTask(tenant, t) ==
    /\ task[t].state # "absent"
    /\ task[t].sub.tenant = tenant
    /\ task' = [task EXCEPT ![t] = Cancelled(@)]
    /\ Touch(t)

(***************************************************************************)
(* cancel_task of a row of the caller's tenant.  An unknown or foreign id  *)
(* is a 404 and a settled task is returned as it is: no step.              *)
(***************************************************************************)
CancelTask(tenant, t) ==
    /\ task[t].state \in Active
    /\ task[t].sub.tenant = tenant
    /\ task' = [task EXCEPT ![t] = Cancelled(@)]
    /\ Touch(t)

(* The clock passes next_attempt_at. *)
Elapse(t) ==
    /\ task[t].delayed
    /\ task' = [task EXCEPT ![t].delayed = FALSE]
    /\ UNCHANGED stamp
============================================================================
