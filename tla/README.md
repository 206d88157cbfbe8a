# Verification of the local LLM orchestrator

TLA+ modules, TLC runs and TLAPS proofs about the queue proxy of this
repository (its durable task queue with the file it is kept in, the executors
that work it off, the way it reports capacity to the lifecycle service, and the
synchronous request path with its token budget)
and about the lifecycle service that starts, reloads and stops the backends.
`PROJECT.json` holds the same facts in machine-readable form: which definition
models which lines, which run checks which property, and a plausible bug for
every property that makes the run fail.

Paths below are relative to the repository; `qp/` stands for
`services/queue_proxy/queue_proxy/`, `lc/` for `services/lifecycle/lifecycle/`.
A run finishes in at most three minutes with two workers.

## 1. The system

| part | state | operations | talks to |
|---|---|---|---|
| task store (`qp/task_queue.py`, `qp/postgres_task_store.py`) | one row per task, the (tenant, idempotency key) index | submit_many, claim_next, record_result, record_error, record_retry, cancel_task | called by handlers and executors; shared between processes in Postgres |
| task executor (`qp/main.py` 555-772) | the coroutine's frame: claimed copy, backend lease | claim, resolve, post, release, record, reconcile | store, backend registry, backend |
| capacity reporting (`qp/main.py` 476-528) | `idle_reconcile_task` | reconcile_capacity, schedule_idle_reconcile_if_empty, delayed_idle_reconcile | lifecycle `/reconcile` |
| model limiter (`qp/limiter.py`) | active and queued counters, limits, a condition variable | acquire, release, update_limits | the request path |
| synchronous path (`qp/main.py` 295-437, `qp/forwarder.py`, `qp/routing.py`) | slot and lease of each request | resolve, forward, stream, release_once | limiter, registry, upstream |
| file store (`JsonFileTaskStore` in `qp/task_queue.py`) | the table in memory and the file | the store's calls, each followed by a save; load at start | handlers and the one executor loop |
| admission (parsing and planning in `qp/task_queue.py`, checks in `qp/main.py` 736-784) | none | parse_task_queue_payload, task_tokens, context_plan_for_model | the store, lifecycle `/reconcile` |
| policy (`qp/policy.py`, `qp/request_preparation.py`) | none | overrides, token budget | the request path |
| lifecycle registry (`lc/registry.py`, `lc/registry_store.py`) | instances, their states and lease counts, a JSON file | upsert, remove, lease, release | controller, proxies |
| lifecycle controller (`lc/controller.py`, `lc/allocation_service.py`, `lc/cleanup.py`) | through the registry | plan, reconcile, sync, allocate, reload, cleanup | adapters, GPU inventory |
| placement (`lc/allocation.py`, `lc/scheduler.py`) | none | GPU choice, desired replicas, VRAM reservation | controller |
| adapters, LM Studio, bridge, inventory, health check, client, CLI | none that outlives a call | I/O | |

What is hard here: several proxy processes share one table and a claim is not
atomic with the execution; every `await` lets cancels, submissions and other
handlers in; recording a result does not look at the state it overwrites; an
exception after the record is treated like one before it; a process may stop
between any two steps, and the write of a file, the task store's or the
registry's, may raise when memory has already changed; values read before an
`await` are used after it; limits change under requests that already wait;
replies of the registry get lost; streams hand the duty to release over to a
generator, which a disconnecting client gets cancelled. `PROJECT.json` lists
these places as hazards, line by line.

What makes each part correct:

* store and executor: one execution of a task at a time, attempts within the
  limit, one row per idempotency key, a recorded outcome is final, every
  accepted task ends; together, the contract with the callers;
* file store: what was acknowledged is on file, no work is done that the file
  does not know of, outcomes on file stay, groups take turns;
* admission: the context plan sent to the lifecycle serves the stored tasks;
* capacity reporting: an idle queue is reported to the lifecycle;
* limiter and synchronous path: slots and leases are given back exactly once on
  every way out (the code does so but for streams that are cut off, section 4),
  the policy's limits and token budget hold, no one sleeps
  beside a free slot;
* lifecycle: an instance that is being initialised is left alone and not left
  behind, no leased backend is stopped, idle stops keep the minimum of replicas,
  ports are distinct, and reservations fit the GPUs.

## 2. Modules

| module | models |
|---|---|
| `TaskStore` | the rows, the index, the fair claim order and the store's calls, as operators that an actor's action uses |
| `TaskExecutor` | processes, callers and the clock on top of `TaskStore`; the properties of the durable queue |
| `TaskContract` | what the queue promises to callers, per idempotency key; `TaskExecutor` implements it |
| `TaskExecutorProofs`, `TaskSafetyProofs` | the theorems about `TaskExecutor` |
| `TaskContractProofs` | the proof that `TaskExecutor` implements `TaskContract` |
| `TaskStoreProofs` | lemmas about the store's operators, for the proofs of both its users |
| `MCTaskExecutor` | its instances for TLC |
| `TaskAdmission` | what POST /tasks/queue accepts, token estimates, context plans: functions only |
| `FileTaskStore`, `MCFileTaskStore` | the JSON file store with its executor loop, on top of `TaskStore` and `TaskAdmission` |
| `FileStoreProofs` | its theorems |
| `TaskCapacity`, `TaskCapacityProofs` | the reconcile handlers and the idle timer of one process; its theorems |
| `TokenPolicy` | overrides of a request, input estimate and output budget: functions only |
| `RequestProxy`, `MCRequestProxy` | limiter, lease and request path for one model, on top of `TokenPolicy` |
| `RequestProxyProofs` | its theorems |
| `Lifecycle`, `MCLifecycle` | registry, handlers, LM Studio's loads and the proxies' leases |
| `LifecycleProofs` | its theorems |

### TaskStore and TaskExecutor

A row keeps its state, what was submitted, `attempt_count`, and whether
`next_attempt_at` is ahead (`delayed`), a result is stored and `finished_at` is
set. A submission keeps the tenant, the idempotency key, the fairness group and
whether the executor's own checks accept it; a group belongs to one tenant, as
its first field is the tenant. The states `submitted`, `allocating`,
`starting` and `warming` appear in `ACTIVE_STATES` but no code sets them.
`updated_at` matters only for its order among attempted rows, so `stamp` keeps
the rank (the last row updated has the highest). Rows are numbered in the order
of `created_at`; equal time stamps, for which the code compares ids, are not
modelled.

The store's calls are single steps: a transaction in Postgres, a stretch of the
event loop in memory. The exception is `claim_next`. Its SQL chooses the group
and the candidates from a snapshot and checks the row again under its lock
(`FOR UPDATE SKIP LOCKED`), so it is two steps, `SelectRunnable` and
`ClaimNext` (or `ClaimNothing`). With one process and no step in between, this
is also the claim of the in-memory store.

Each process has a frame with a program counter. A step ends where the code
awaits a reply or leaves a store call. The outcome `done` marks a frame that has
recorded; `raised` one whose `try` statement is being left by an exception. An
`httpx.HTTPError` of the upstream call is recorded before the `finally` clause
releases the lease, an answer after it: the model keeps that order.
`FaultPoints` says where an exception may surface that the callee does not
handle: in the claim, the resolution, the upstream call, the record, the
reconcile after it, and the record of the loop's own except clause (`recover`),
which like that of the claim ends the loop (`dead`) while the process goes on
answering requests. A fault leaves the row as it was. A call of Postgres whose
commit goes through and whose acknowledgement is lost is not an action of its
own, because the pair of an action and a later fault has its effect: for a
record it is `Record` followed by the fault `refresh`, after which the except
clause records again; for a claim it is `ClaimNext` followed by a restart, after
which the row is running and no one works on it. `Crashes` says whether a
process may stop and start again; the frame is lost then and the rows stay.

### TaskContract

Its state is per idempotency key: what a poll answers (`status`), whether an
execution is under way (`working`) and how many were begun (`tries`). The
refinement mapping (`KeyStatus`, `RowsOf`, `Contract` in `TaskExecutor`) reads
these off the rows and off the frames that hold a claim. `Finish` and `GiveBack`
are allowed for a key that was cancelled meanwhile, because the code does that
(`outcome_overwritten`); everything else the contract says is what a caller
would expect: no execution begins for a settled key, or beside another one, or
beyond the limit, and an outcome changes only at the end of such an execution.

### TaskAdmission

A raw task keeps what admission looks at: the length of its text, the numbers
it sets (missing, unreadable or any natural number), the fields its payload has
and the variables its template names. A body is stored as a whole or refused as
a whole (`ParsesAll`); whether a stored task can be executed (`Executable`) is
found out by the executor only. `ContextPlan` is `context_plan_for_model`, with
the code's buckets.

### FileTaskStore

Every mutating call changes the table and then writes all of it to a temporary
file that replaces the old one. `SaveRaises` is a write that fails: memory has
the change, the file has not. Where the exception surfaces depends on the
caller: a submission or a cancel is answered with an error, a claim ends the
loop, an outcome reaches the except clause (`recovering`; on the way the release
of the backend may be awaited, so that others run). A recorded outcome is
followed by the awaited reconcile (`refreshing`), which may return (`Refresh`) or
raise. `Recover` is the except clause, for both, and for an exception of the
resolver or of the backend's call: it records a retryable failure on the row as
it is by then, a settled one included. `Restart` rebuilds the table from the
file at any time. In this store the executor holds the row itself, not a copy.
`acked` and `calls` remember what callers were told and how often a backend was
called; `turns` remembers, for each group with a claimable task, which groups
were served since it waits. What happens inside an execution is one step here
and the subject of `TaskExecutor`.

### TaskCapacity

Only one number of the store matters: how many rows are active. A handler
changes it, reads whether it is zero, and waits (`inflight`); when the lifecycle
answers, it arms or cancels the timer by its old reading. `idle` follows the
current idle period: its reconcile is due, made, or was tried and failed. The
model is one process; with several, each has a timer of its own and any of them
may report. `InOrder` says whether answers come in the order of the calls.

### RequestProxy

One model's limiter, the registry's count for its backend and a fixed set of
requests, each of which may be made again after it ended. The limits a request
brings are its overrides capped by the policy (`Effective`), and they replace
everyone's, as `update_limits` does. `TokenPolicy` says which bodies are refused
before that (contract, input, output or total budget) and with which output
limit a body is forwarded: `Forwarded` bounds the key that `output_token_key`
picks and leaves a second one as the caller set it. A parked request is
`waiting` until a `notify_all`, then `notified` until it is back in the lock;
its deadline may pass in both. A lost lease reply is `LeaseLost`: counted, but
the resolver goes on without. A stream gives slot and lease back in the
`finally` clause of its generator. With `Disconnects` the web framework, which
is not part of this repository, may cancel a response whose client is gone. Then
a generator that has not started runs no `finally` clause and one that has may
be struck in an `aclose` of the clause (`StreamCutOff`); and `release_once`,
which has set `released` by then, may be struck while it awaits the registry
(`ReleaseCancelled`) or the limiter's lock (`FreeCancelled`). Such a request is
`stranded`: nothing of it runs any more and its slot stays counted.

### Lifecycle

`inst` holds the registry's entries in the order in which they were made; a
purged entry stays in the list as `removed`, because ids are never used again
and a plan may still name one. `ext` is the `external` entry of each model,
`live` what LM Studio has loaded under the model's identifier. Handlers run on
one event loop, so a step ends at an `await`. `lms` and `docker` commands are
synchronous and part of their step, so an idle stop, or a reload's stop and
start, is not interrupted. `reconcile` is `Reconcile` (sync and idle stops),
`Plan` after the inventory's answer, then, each after another answer, one
`StartPlanned` or `ReloadPlanned` per decision, each followed by `Healthy`,
`Warmed` or `InitFails` of the instance. `allocate` is `Allocate`,
`AllocateStart` and the same initialisation. Whatever raises before an
initialisation ends the handler (`Abandon`).

The registry writes its `file` at every change (`Saved`), and each such write
may raise when memory has the change already, `MaxFaults` times in a run. What
follows is what the handler does with the exception: it ends, with the entries
it has changed so far in memory and all but the last of its writes on file
(`SyncRaises`, `ReconcileRaises`, `CleanupRaises`, `StopRaises`,
`UpsertRaises`), or, inside the `try` statement of a stop or of an
initialisation, the except clause marks the entry as failed and writes again.
`Restart` loads the file (`LoadedFromFile`), so that entries and marks that only
memory had are gone.

A second start of a model finds the identifier loaded and makes an entry that
does not own the load; so does a start where the `lms` command is missing or
the profile says not to load (`Owns`). A host port is the lowest one, from
the model's base port, that no entry of the registry has. A shape field of 0 is
unknown, or not set by the profile or the plan. `lms ps` may fail, which the
code reads as no load at all (`Readings`). TTLs and dwell times are abstract:
any idle entry may have passed its TTL. A reconcile's one demand stands for the
queue lengths and the context plans it is sent; the idle stops, which look at the
former only, meet the other combinations in `Cleanup`. `ExternalGpus` are the
GPUs an `external` entry may be booked on. The VRAM of a model does not depend on
its shape here and a GPU's free memory is any amount up to its size; the
dry-run mode is left out.

## 3. Runs

| run | instance | states | shows |
|---|---|---|---|
| `executor_safety` | 2 processes, 2 rows, 2 attempts, 3 batches, every fault but the one after a record, restarts | 157,780 | `TypeOK`, `SingleExecution`, `HeldCopyIsCurrent`, `AttemptsBounded`, `ResultMeansSucceeded`, `OneTaskPerKey`, `SettledIsFinal`, `ImplementsContract` |
| `executor_liveness` | 2 processes, 1 row, 3 attempts, every fault but the one of the except clause, fair | 46,077 | `AttemptIdentity`, `LeaseEndsByRelease`, `EventuallySettled` |
| `outcome_overwritten` | 1 process, 1 row, a reconcile that may raise | violation | a cancelled or failed task is queued again (`OutcomeIsFinal`) |
| `restart_strands` | 1 process, 1 row, restarts, fair | violation | a task stays in running (`SettledAfterRestarts`) |
| `file_store` | 3 rows in 2 groups, 2 attempts, 4 request bodies, 1 write that raises, restarts | 474,600 | `TypeOK`, `AcknowledgedIsDurable`, `WorkIsAccounted`, `PlanServesTasks`, `OutcomeOnFileIsFinal`, `NoSecondTurn` |
| `capacity_in_order` | 3 open tasks, 5 handlers | 646 | `TypeOK`, `IdleReconcilePending` |
| `capacity_out_of_order` | 2 open tasks, 3 handlers | violation | the idle reconcile is forgotten (`IdleReconcilePending`) |
| `requests` | 3 requests, 2 slots, overridden limits and budgets, lost replies, cut-off streams, fair | 252,374 | `TypeOK`, `SlotsBalanced`, `LeasesCovered`, `ActiveWithinPolicy`, `ForwardedWithinBudget`, `NoParkingBesideFreeSlot`, `EveryRequestEnds` |
| `disconnect_leaks` | 2 requests, no lost replies | violation | a cut-off stream keeps its slot and its lease (`BalancedOnDisconnect`) |
| `lifecycle` | 1 LM Studio model, 1 to 2 replicas, 2 handlers, 2 entries, 1 proxy request, 1 write that raises, restarts | 643,516 | `TypeOK`, `InitialisingUntouched`, `PortsDistinct`, `LeasedBackendKept`, `OrphansHaveCause`, `IdleStopKeepsMinimum` |
| `reload_busy` | at most 1 replica | violation | a reload unloads a model in use (`GracefulReload`) |
| `plan_overbooks` | 2 docker models, 1 GPU with room for one | violation | one plan books the same VRAM twice (`PlacementsFit`) |

**Bounds.** Two processes and two rows are the smallest instance in which two
claims overlap, a claim overlaps a cancel or a retry, and one group waits for
another. Two attempts give one retry and one refusal. The batches hold a key
twice, a task the executor's checks refuse, and one key for two tenants. The
liveness run follows one task through three attempts: with an exception after
the record possible, its row is put back, claimed by the other process while the
first still works, and settled twice; a second row would only be a second such
task, as no step of one waits for the other.

In `file_store` three rows make a group wait behind two tasks of another, and
one failing write (`MaxFaults`) puts memory ahead of the file at any point, also
under an execution, a cancel or a restart; the theorems allow any number of
them. Its bodies hold a task that fills a bucket exactly, one beyond the largest
bucket, one with a cap and no usable input, one with an unreadable number and
one with an unknown template variable.

The bodies of `requests` lower, raise and zero the limits, leave the output
limit out, set it to null and set two keys, and three of them are refused.
`MaxTasks` caps the table, `MaxLeases` the registry's count, which lost releases
would let grow without end, `MaxOpen` and `MaxInFlight` the idle model. Three
requests reach a full queue, because overrides lower the limits to one slot and
one place.

In `Lifecycle`, `MaxInstances` caps the entries ever made: two let a reload, an
allocation and a reconcile overlap and leave one replica above the minimum; one
raising write is enough to leave any entry, or any mark on one, in memory alone.
After it the run follows one handler at a time (`OneHandlerAfterFault`): the
write may raise while two handlers overlap, and a second one is seen to begin
beside the first but is not followed further. The theorems have no such bound.
The one kind of queued demand asks for more parallel slots, for which a plan may
decide on a reload or not; a demand with a longer context or an oversized task
leads to a subset of these decisions. One model suffices for the properties of
`lifecycle` and `reload_busy`, which never relate two; `plan_overbooks` has two,
which docker runs, so that nothing but the plan decides. Processes and handlers are
symmetric where no liveness is checked.

**Fairness.** `TaskExecutor` assumes weak fairness of each loop's fault-free
steps and of each retry delay: HTTP calls carry `request_timeout_seconds`, store
calls return or raise, delays are capped by `task_executor_retry_max_seconds`.
No loop is assumed to live: `EventuallySettled` promises an outcome as long as
one loop is alive.
`RequestProxy` assumes it of each request's steps and, on its own, of the queue
timeout: the deadline of `asyncio.wait_for` runs on while notifications come and
go. Callers, clients, faults and restarts owe nothing.

**Restrictions to read with the results.** `executor_safety` leaves out the
fault `refresh`, an exception of the reconcile after the record, and
`executor_liveness` the fault `recover`, an exception of the except clause's own
record, after which the row stays in running. With `refresh`
`SingleExecution`, `AttemptsBounded`, `ResultMeansSucceeded` and
`SettledIsFinal` fail, for the reason `outcome_overwritten` shows; that is why the
theorems name it as their assumption. `SettledIsFinal` speaks of rows no process
holds, because of `outcome_overwritten`, and says that such a row neither changes
nor finds a holder again. `NoParkingBesideFreeSlot` goes by the lowest limit a
request may set, since `update_limits` notifies no one when it raises a limit:
then the queue timeout is what ends the wait (`EveryRequestEnds`).
`SlotsBalanced` and `LeasesCovered` count cut-off streams beside the requests
under way: they say that there is no leak but this one, and `disconnect_leaks`
shows it. `ForwardedWithinBudget` speaks of the one output key that
`output_token_key` picks; a second key in the same body is forwarded as it is.
`OutcomeOnFileIsFinal` is about tasks the loop has left: until then the except
clause may record over an outcome. `LeasedBackendKept` excepts one case: if the
write that marked a leased entry as draining raised, a restart
brings the entry back as it was before. `NoSecondTurn`
excepts groups of which a tried task was cancelled, since the cancel counts as
their turn, and restarts. `AcknowledgedIsDurable` is about submissions: an
acknowledged cancel need not survive a restart (section 4).

## 4. What the violations mean

* The store's record calls do not look at the state they overwrite. A caller
  cancels a running task and is told `cancelled`; the executor's record call
  overwrites this, and after a retryable failure the task runs again. This is
  the trace of `outcome_overwritten`; a second way to violate the same property
  needs no cancel: an exception of the reconcile call after `record_error` puts a
  permanently failed task back in the queue.
* A task claimed by a process that stops is never claimed again.
* A stream whose client goes away is cancelled, and if this happens before its
  generator starts, in its `finally` clause or inside `release_once`, its slot and
  lease are never given back. `docs/UNIFIED_TASK_PROTOCOL.md` promises their
  release on client disconnect (612-617, 636-637, 826-827). Two such streams use
  up the slots of a policy with two; the other requests still end
  (`EveryRequestEnds`), by the queue timeout if need be.
* Two reconcile calls answered out of order can leave an idle queue without the
  delayed reconcile that unloads its models. The lifecycle's own periodic loop
  would make up for it, but it is off by default.
* Two allocations of a model at once make two entries on one LM Studio load; a
  reload of the entry that owns it looks only at that entry's requests and
  unloads the model under those of the other.
* Two models that each lack a replica are placed in one plan on the same free
  VRAM, because reservations are made by the starts, which come later.

Departures from the documents that no run shows:

* A body with two output keys has the second forwarded as it is, although the
  proxy "enforces token limits" (`docs/UNIFIED_TASK_PROTOCOL.md` 626) and hints
  are to be clamped (581-589, 824). The model has it (`Forwarded`, and a body of
  the run `requests`); it follows from one line of `policy.py` and needs no run.
* The mark that the lifecycle owns a load outlives the load, so that a load its
  user makes afterwards may be unloaded; and a load its user makes while the model
  has an old record is not entered as `external`. Both depart from
  `docs/TASK_CONTEXT_ORCHESTRATION_PLAN.md` (75-78, 250-251, 286-287). Code and LM
  Studio share nothing but the identifier of a load, so the state does not say
  whose load it is; a property about this would need a history that the program
  does not keep.

Behaviour the models contain that no document speaks about, so that it is
neither a property nor a finding:

* If the write of a result raises, the task is retried although its result is
  in memory; if the write of a claim raises, the loop ends.
* A cancel whose write raised reads `cancelled` in memory, so its repetition is
  answered without another write, and a restart brings the task back.
* After a restart the entries that were starting or warming keep their VRAM and
  count as replicas for ever. So does an entry whose first write raised, since the
  handler ends and the entry stays in memory. `OrphansHaveCause` says nothing else
  does this.

## 5. Proofs

All theorems hold for every value of the constants that satisfies the named
assumptions: any set of processes, requests, handlers or clients, any number of
rows or entries, any submissions, policies and profiles. Every safety property
of a passing run is stated by a theorem. The inductive invariants were first
checked with TLC on the runs' instances.

`TaskExecutorProofs`:

* `TypeCorrect`: `Spec => []TypeOK`, one step per action.
* `AttemptIdentityTheorem`: with any faults and restarts. The invariant adds
  that a frame's copy is never ahead of its row; a claim then hands out a number
  above every other frame's.
* `OneTaskPerKeyTheorem`: only `SubmitMany` adds rows, and `Fresh` takes keys
  that neither the table nor an earlier entry of the batch has.

`TaskSafetyProofs`, each assuming that the reconcile after a record does not
raise (`"refresh" \notin FaultPoints`): `SingleExecutionTheorem`,
`AttemptsBoundedTheorem`, `ResultTheorem` and `SettledIsFinalTheorem` from one
inductive invariant `IInv`. `SingleExecution` alone is not inductive: a second
claim is excluded because a held row is never `queued`, which needs that a frame
past its record holds nothing, that the held copy has the row's attempt count,
and that this count is within the limit. `SettledIsFinal` also needs that only
queued rows wait for `next_attempt_at`. Restarts only drop frames, which the
invariant allows.

`TaskContractProofs`:

* `ContractTheorem`: `Spec => ImplementsContract`, under the same assumption.
  By `OneTaskPerKey` the mapping is a view of one row per key (`KeysViewed`).
  `OneKeyStep` turns a step that changes one row or its holders into a step of
  that row's key; then there is one lemma per kind of step (a claim is `Begin`,
  a record `Finish` or `GiveBack`, and so on), and every other step of a frame
  that keeps its claim is a stutter. A batch is one step of the contract, which
  accepts all of its new keys together. `IInv` supplies that `Begin` finds no
  other holder and a count below the limit.
* `HeldCopyTheorem`: the count a process compares with the limit is the row's.
* `LeaseTheorem`, assuming that no process stops (`~Crashes`; a lease is lost
  with its process): with any faults. The invariant says at which points of the
  `try` statement a frame may hold a lease.

`TaskCapacityProofs`: `TypeCorrect`, and `IdleReconcileTheorem`, assuming
`InOrder`. The invariant says that the last reading under way agrees with the
store, and that with nothing under way and an empty queue the timer is armed or
the period is over.

`RequestProxyProofs`, for any finite set of requests:

* `SlotsAreBalanced` and `LeasesAreCovered`, from the invariant `IInv`, which
  adds where a request may hold a lease and that only streams are stranded. They
  say where each counted slot and lease belongs: to a request under way, to a
  cut-off stream, or (a lease) to a lost reply. With `Disconnects` and `Losses`
  empty this is that everything is given back. Each step moves one request from
  one program point to another (`StepOfOne`), so each of the counted sets
  changes by at most that request, and the counters change with it; `notify_all`
  moves many requests, but inside one of these sets.
* `PolicyIsRespected`, `BudgetIsRespected` and `NoLostWakeup`, from `PolicyInv`:
  whoever was received last, the limiter's limits lie between the lowest limit a
  body can set and the policy's. A lowered limit never evicts anyone, so the
  number of active requests is bounded by the policy and not by the current
  limit. `BudgetIsRespected` is about the key that `output_token_key` picks, for
  any bodies, those with a second key included. A request parks only when the
  current limit is reached, and each release notifies those parked.

`FileStoreProofs`, for any number of writes that raise and any restarts:

* `Durability` and `WorkAccounting`, from the invariant `FInv`. Memory is never
  behind the file (`FileIsKnown`), although a failed write leaves it ahead; calls
  of a backend are covered by the attempts of both (`CallsCounted`), since the
  call comes after the write of the claim; and a queued row has an attempt left.
  A step of the running process only lets a row grow (`Grows`), and afterwards
  the file is the old one or the new table (`FileFollows`): the two facts
  together keep `FInv`, whichever action it was.
* `OutcomeFinality`: a settled row that the loop has left is written by no action
  and is not claimed again, and a restart reads what memory had. While the loop is
  still at the row, after its record, `Recover` may write it.
* `PlanIsServing`: `FInv` says that each stored row has parsed, so that what the
  plan computes with are numbers (`FieldAssumption` in `TaskAdmission`: a missing
  or unreadable field is no number). `PlanFits` is then a fact about
  `ContextPlan` alone, for any set of tasks that parse.
* `FairTurns`: from `TurnInv`. A group that was served while another waits has a
  later update (`ServedComesLater`), so `claim_next` takes the waiting one first.
  This is inductive only together with the facts that the ranks of `updated_at`
  are distinct and leave none out above the lowest, in memory and on file, and
  that during an execution no other group has had a turn since its claim: the
  record moves the group of the executed task back, and must pass no one.

`LifecycleProofs`, for any finite set of models and any handlers and clients,
from one invariant `LInv`: a planned reload names an entry of its model that has
left its initialisation behind; an entry under initialisation is in the state
its job gave it and no second job has it; leases are counted at the entries they
were taken on; ports are distinct. A step changes entries in place or adds one
(`RegistryStep`), which is what the other jobs and the clients rely on, or it is
a restart. For the latter the invariant says how far the file may lag behind
(`FileOK`): it has each entry's model and port and no port twice, it counts every
lease, and an entry that is ready is ready in it. A step writes the whole
registry, leaves the file alone or stops halfway through its writes (`FileStep`),
and each of the three keeps this, for any number of writes that raise.

* `InitialisationIsExclusive` and `PortsAreDistinct` are parts of it.
  `TypeCorrect` needs that the demands contain one for an empty queue
  (`DemandsAssumption`), which an idle handler is given.
* `OrphansAreExplained`: a step that registers an entry begins its
  initialisation, and one that ends an initialisation leaves the entry ready or
  failed. The exceptions are a restart and a raising write of the new entry.
* `LeasesAreRespected`: whatever takes an entry out of service looks at its
  `active` count in the same step, and a lease makes it positive. A plan's
  decision may be stale, but `ReloadPlanned` reads the count again. After a
  restart a ready entry is ready again, since it was on file.
* `MinimumIsKept`: all steps but idle stops and reloads leave serving entries as
  they are, and idle stops leave `min` of them; a restart loses no ready entry,
  again by `FileOK`.

Only model-checked: the liveness properties `EventuallySettled` and
`EveryRequestEnds`, since TLAPS does not handle fairness. The properties of the
violation runs are false of the code; `IdleReconcilePending` is proved with
`InOrder` and violated without.

## 6. Not modelled

* `client.py`, `llmoctl.py`, the LM Studio bridge, GPU inventory and the health
  check: each call is I/O and formatting, and nothing outlives it. The fake
  backend is a test double.
* Configuration and settings of both services, the choice of a policy or profile
  by name and the profiles made for models that are not configured: they are
  the constants of the modules.
* Metrics, logging, HTTP headers, authentication, error bodies and the
  explanation of a plan: formatting.
* The Postgres schema's creation; the in-memory store without a file, which is
  `TaskStore` itself.
* Command lines and parsing of `lms` and `docker` output, the dry-run adapter,
  VRAM estimates and which of several GPUs with room is taken.
* Time is abstract: a delay or a deadline ends at any moment. Equal time stamps
  do not occur.

## 7. Plan

What could still be proved is what holds in place of the properties that the
code violates:

1. `PlacementsFit` for plans that start at most one instance, and `GracefulReload`
   for models with one entry in service: the two conditions that separate the
   runs `plan_overbooks` and `reload_busy` from harmless ones.
2. Properties of `ContextPlan` and of the token budget beyond those the state
   machines need, for instance that a larger task never gets a smaller context.

A composition of `RequestProxy` with the registry of `Lifecycle`, in which
draining could be shown to end, would need a promise that proxies go on
reporting a queue, which the code does not give.
