-------------------------- MODULE FileStoreProofs --------------------------
(***************************************************************************)
(* Theorems about FileTaskStore, for any number of tasks, attempts, writes *)
(* that raise and restarts: what was acknowledged or executed is on file,  *)
(* outcomes on file are final, the context plan fits the stored tasks, and *)
(* no group is served twice while another waits.                           *)
(***************************************************************************)
EXTENDS FileTaskStore, TaskStoreProofs, FiniteSetTheorems

(* What holds of every row, in memory and on file. *)
RowOK(r) ==
    /\ r.attempts <= MaxAttempts
    /\ r.state = "queued" => r.attempts < MaxAttempts
    /\ r.delayed => r.state = "queued"
    /\ r.state # "absent" => ParsesTask(Raw[r.sub])

RowsOK ==
    /\ \A t \in TaskId : RowOK(task[t])
    /\ \A t \in DOMAIN disk.rows : RowOK(disk.rows[t])

(* The table in memory is never behind the file. *)
FileIsKnown ==
    \A t \in DOMAIN disk.rows : task[t].state # "absent" /\ task[t].sub = disk.rows[t].sub

(* Both count an attempt before a backend is called for it. *)
CallsCounted ==
    \A t \in TaskId : calls[t] > 0 =>
        /\ t \in DOMAIN disk.rows
        /\ calls[t] <= disk.rows[t].attempts
        /\ calls[t] <= task[t].attempts

(* The loop has a task in hand, which is a row of the table. *)
Busy == loop.pc \in {"executing", "refreshing", "recovering"}

LoopHasRow == Busy => task[loop.tid].state # "absent"

(* The inductive invariant. *)
FInv == TypeOK /\ RowsOK /\ FileIsKnown /\ CallsCounted /\ LoopHasRow /\ AcknowledgedIsDurable

----------------------------------------------------------------------------
(* What a step of the running process may do to a row in memory. *)
Grows(r, s) ==
    /\ s \in StoredTask
    /\ RowOK(s)
    /\ r.state # "absent" => s.state # "absent" /\ s.sub = r.sub /\ s.attempts >= r.attempts

TableGrows == stamp' \in [TaskId -> 0 .. MaxTasks]
              /\ DOMAIN task' = TaskId /\ task' = [t \in TaskId |-> task'[t]]
              /\ \A t \in TaskId : Grows(task[t], task'[t])

(* The file is replaced by the table, or left alone. *)
FileFollows == disk' = File(task', stamp') \/ disk' = disk

(* The loop goes on with the task in hand, or leaves it. *)
LoopStays ==
    \/ loop' \in {loop, Idle, Dead}
    \/ Busy /\ loop' \in {Refreshing(loop.tid), Recovering(loop.tid)}

LEMMA LoopCases ==
    ASSUME TypeOK
    PROVE  Busy => loop.tid \in TaskId
BY DEF TypeOK, Busy, Idle, Dead, Executing, Refreshing, Recovering

(* A row that replaces one row of the table. *)
LEMMA OneRowGrows ==
    ASSUME FInv, NEW t \in TaskId, NEW row, Grows(task[t], row),
           task' = [task EXCEPT ![t] = row], Touch(t) \/ UNCHANGED stamp
    PROVE  TableGrows
<1>1. stamp' \in [TaskId -> 0 .. MaxTasks]
  BY TouchType DEF FInv, TypeOK, StoreTypeOK
<1>2. \A u \in TaskId : task[u] \in StoredTask /\ task[u].attempts \in Nat /\ RowOK(task[u])
  BY DEF FInv, TypeOK, StoreTypeOK, StoredTask, RowsOK
<1>3. \A u \in TaskId : Grows(task[u], task[u])
  BY <1>2 DEF Grows
<1>4. task' \in [TaskId -> StoredTask]
  BY DEF FInv, TypeOK, StoreTypeOK, Grows
<1>5. \A u \in TaskId : Grows(task[u], task'[u])
  BY <1>3 DEF FInv, TypeOK, StoreTypeOK
<1> QED BY <1>1, <1>4, <1>5 DEF TableGrows

LEMMA SubmitGrows ==
    ASSUME FInv, NEW batch \in Batches, SubmitMany(batch), batch \in Accepted
    PROVE  TableGrows
<1> USE DEF FInv, TypeOK
<1>1. StoreTypeOK'
  BY SubmitRows
<1>2. \A i \in DOMAIN batch : ParsesTask(Raw[batch[i]])
  BY DEF Accepted, ParsesAll
<1>3. ASSUME NEW t \in TaskId PROVE Grows(task[t], task'[t])
  <2>1. task[t] \in StoredTask /\ RowOK(task[t])
    BY DEF StoreTypeOK, RowsOK
  <2>2. CASE task'[t] = task[t]
    BY <2>1, <2>2 DEF Grows, StoredTask
  <2>3. CASE task'[t] # task[t]
    <3>1. PICK i \in DOMAIN batch : /\ task[t].state = "absent" /\ batch[i] \in Submission
                                    /\ task'[t] = NewTask(batch[i])
      BY <2>3, SubmitRows
    <3>2. /\ task'[t] \in StoredTask /\ task'[t].sub = batch[i]
          /\ task'[t].state = "queued" /\ task'[t].attempts = 0 /\ task'[t].delayed = FALSE
      BY <3>1, NewTaskType
    <3>3. RowOK(task'[t])
      BY <1>2, <3>2, FileAttemptsAssumption DEF RowOK
    <3> QED BY <3>1, <3>2, <3>3 DEF Grows
  <2> QED BY <2>2, <2>3
<1> QED BY <1>1, <1>3 DEF TableGrows, StoreTypeOK

LEMMA CancelGrows ==
    ASSUME FInv, NEW tenant, NEW t \in TaskId, CancelTask(tenant, t)
    PROVE  TableGrows
<1>1. task[t] \in StoredTask /\ RowOK(task[t]) /\ task[t].state \in Active
  BY DEF FInv, TypeOK, StoreTypeOK, RowsOK, CancelTask
<1>0. task[t].attempts \in Nat
  BY <1>1 DEF StoredTask
<1>2. Grows(task[t], Cancelled(task[t]))
  <2> DEFINE row == Cancelled(task[t])
  <2>1. /\ row \in StoredTask /\ row.sub = task[t].sub /\ row.state = "cancelled"
        /\ row.attempts = task[t].attempts /\ row.delayed = FALSE
    BY <1>1, WrittenRows
  <2> HIDE DEF row
  <2>2. Grows(task[t], row)
    BY <1>0, <1>1, <2>1 DEF Grows, RowOK, Active
  <2> QED BY <2>2 DEF row
<1> QED BY <1>2, OneRowGrows DEF CancelTask

LEMMA ElapseGrows ==
    ASSUME FInv, NEW t \in TaskId, Elapse(t)
    PROVE  TableGrows
<1>1. task[t] \in StoredTask /\ RowOK(task[t])
  BY DEF FInv, TypeOK, StoreTypeOK, RowsOK
<1> DEFINE row == [task[t] EXCEPT !.delayed = FALSE]
<1>2. /\ row \in StoredTask /\ row.state = task[t].state /\ row.sub = task[t].sub
      /\ row.attempts = task[t].attempts /\ row.delayed = FALSE /\ row.attempts \in Nat
  BY <1>1 DEF StoredTask
<1>3. task' = [task EXCEPT ![t] = row]
  BY DEF Elapse
<1> HIDE DEF row
<1>4. Grows(task[t], row)
  BY <1>1, <1>2 DEF Grows, RowOK
<1> QED BY <1>3, <1>4, OneRowGrows DEF Elapse

LEMMA ClaimGrows ==
    ASSUME FInv, NEW t \in TaskId, Claimable(t), Claim(t)
    PROVE  /\ TableGrows
           /\ task'[t].attempts = task[t].attempts + 1
           /\ task'[t].state = "running"
           /\ task'[t].attempts <= MaxAttempts
           /\ \A u \in TaskId \ {t} : task'[u] = task[u]
<1>1. task[t] \in StoredTask /\ RowOK(task[t]) /\ task[t].state = "queued"
      /\ task[t].attempts \in Nat
  BY DEF FInv, TypeOK, StoreTypeOK, StoredTask, RowsOK, Claimable
<1> DEFINE row == Claimed(task[t])
<1>0. /\ row \in StoredTask /\ row.sub = task[t].sub /\ row.state = "running"
      /\ row.attempts = task[t].attempts + 1 /\ row.delayed = FALSE
  BY <1>1, WrittenRows
<1> HIDE DEF row
<1>2. Grows(task[t], row)
  BY <1>0, <1>1, FileAttemptsAssumption DEF Grows, RowOK
<1>3. task' = [task EXCEPT ![t] = row]
  BY DEF Claim, row
<1>4. TableGrows
  BY <1>2, <1>3, OneRowGrows DEF Claim
<1>5. task'[t] = row /\ \A u \in TaskId \ {t} : task'[u] = task[u]
  BY <1>3 DEF FInv, TypeOK, StoreTypeOK
<1> QED BY <1>0, <1>1, <1>4, <1>5, FileAttemptsAssumption DEF RowOK

(* Every outcome of an execution keeps the row's attempts within the limit. *)
LEMMA OutcomeGrows ==
    ASSUME NEW r \in StoredTask, RowOK(r), r.state # "absent", NEW retryable \in BOOLEAN
    PROVE  /\ Grows(r, FailedOrRetried(r, retryable))
           /\ Grows(r, Succeeded(r))
<1>1. r.attempts \in Nat
  BY DEF StoredTask
<1>2. ASSUME NEW row \in StoredTask, row.sub = r.sub, row.state \in {"succeeded", "failed"},
             row.attempts = r.attempts, row.delayed = FALSE
      PROVE  Grows(r, row)
  BY <1>1, <1>2 DEF Grows, RowOK
<1>3. ASSUME NEW row \in StoredTask, row.sub = r.sub, row.state = "queued",
             row.attempts = r.attempts, r.attempts < MaxAttempts
      PROVE  Grows(r, row)
  BY <1>1, <1>3 DEF Grows, RowOK
<1>4. Grows(r, Succeeded(r)) /\ Grows(r, Failed(r))
  BY <1>2, WrittenRows
<1>5. r.attempts < MaxAttempts => Grows(r, Retried(r))
  BY <1>3, WrittenRows
<1> QED BY <1>4, <1>5 DEF FailedOrRetried

LEMMA RecordGrows ==
    ASSUME FInv, Busy, NEW row,
           \/ row \in OutcomeRows(task[loop.tid])
           \/ row = FailedOrRetried(task[loop.tid], TRUE),
           task' = [task EXCEPT ![loop.tid] = row], Touch(loop.tid)
    PROVE  TableGrows
<1> DEFINE r == task[loop.tid]
<1>1. loop.tid \in TaskId /\ r \in StoredTask /\ RowOK(r) /\ r.state # "absent"
  BY LoopCases DEF FInv, TypeOK, StoreTypeOK, RowsOK, LoopHasRow
<1>2. Grows(r, row)
  BY <1>1, OutcomeGrows DEF OutcomeRows
<1> QED BY <1>1, <1>2, OneRowGrows

----------------------------------------------------------------------------
(* What a write of the file leaves in it. *)
LEMMA Written ==
    ASSUME NEW rows \in [TaskId -> StoredTask], NEW ranks \in [TaskId -> 0 .. MaxTasks],
           NEW f, f = File(rows, ranks)
    PROVE  /\ DOMAIN f.rows = {t \in TaskId : rows[t].state # "absent"}
           /\ DOMAIN f.ranks = DOMAIN f.rows
           /\ \A t \in DOMAIN f.rows : f.rows[t] = rows[t] /\ f.ranks[t] = ranks[t]
BY DEF File, Stored

(* The part of the type invariant that is about the file. *)
FileTypeOK ==
    /\ DOMAIN disk.rows \subseteq TaskId
    /\ DOMAIN disk.ranks = DOMAIN disk.rows
    /\ \A t \in DOMAIN disk.rows : /\ disk.rows[t] \in StoredTask
                                   /\ disk.rows[t].state # "absent"
                                   /\ disk.ranks[t] \in 0 .. MaxTasks

(* A row that is on file stays there, and grows like the row in memory does. *)
LEMMA FileGrows ==
    ASSUME FInv, TableGrows, FileFollows
    PROVE  /\ StoreTypeOK'
           /\ FileTypeOK'
           /\ RowsOK'
           /\ FileIsKnown'
           /\ \A t \in DOMAIN disk.rows : t \in DOMAIN disk'.rows
                                       /\ disk'.rows[t].sub = disk.rows[t].sub
           /\ disk' = disk \/ (\A t \in DOMAIN disk'.rows : disk'.rows[t] = task'[t])
<1>1. StoreTypeOK'
  BY DEF TableGrows, Grows, StoreTypeOK
<1>2. \A t \in TaskId : RowOK(task'[t]) /\ task'[t] \in StoredTask
                        /\ (task[t].state # "absent" =>
                              task'[t].state # "absent" /\ task'[t].sub = task[t].sub)
  BY DEF TableGrows, Grows
<1>3. CASE disk' = File(task', stamp')
  <2>1. /\ DOMAIN disk'.rows = {t \in TaskId : task'[t].state # "absent"}
        /\ DOMAIN disk'.ranks = DOMAIN disk'.rows
        /\ \A t \in DOMAIN disk'.rows : disk'.rows[t] = task'[t] /\ disk'.ranks[t] = stamp'[t]
    BY <1>1, <1>3, Written DEF StoreTypeOK
  <2>2. FileTypeOK' /\ RowsOK' /\ FileIsKnown'
    BY <1>1, <1>2, <2>1 DEF FileTypeOK, RowsOK, FileIsKnown, StoreTypeOK
  <2>3. ASSUME NEW t \in DOMAIN disk.rows
        PROVE  t \in DOMAIN disk'.rows /\ disk'.rows[t].sub = disk.rows[t].sub
    <3>1. t \in TaskId /\ task[t].state # "absent" /\ task[t].sub = disk.rows[t].sub
      BY DEF FInv, TypeOK, FileIsKnown
    <3> QED BY <1>2, <2>1, <3>1
  <2> QED BY <1>1, <2>1, <2>2, <2>3
<1>4. CASE disk' = disk
  <2>1. FileTypeOK' /\ RowsOK'
    BY <1>2, <1>4 DEF FInv, TypeOK, FileTypeOK, RowsOK
  <2>2. FileIsKnown'
    BY <1>2, <1>4 DEF FInv, TypeOK, FileIsKnown
  <2> QED BY <1>1, <1>4, <2>1, <2>2
<1> QED BY <1>3, <1>4 DEF FileFollows

(* A step of the process that calls no backend and answers no submission. *)
LEMMA QuietStep ==
    ASSUME FInv, TableGrows, FileFollows, UNCHANGED <<acked, calls>>
    PROVE  CallsCounted' /\ AcknowledgedIsDurable'
<1>1. /\ \A t \in DOMAIN disk.rows : t \in DOMAIN disk'.rows
                                   /\ disk'.rows[t].sub = disk.rows[t].sub
      /\ disk' = disk \/ (\A t \in DOMAIN disk'.rows : disk'.rows[t] = task'[t])
      /\ FileTypeOK' /\ StoreTypeOK'
  BY FileGrows
<1>2. AcknowledgedIsDurable'
  <2> SUFFICES ASSUME NEW s \in acked
               PROVE  \E t \in DOMAIN disk'.rows : SameKey(disk'.rows[t].sub, s)
    BY DEF AcknowledgedIsDurable
  <2>1. PICK t \in DOMAIN disk.rows : SameKey(disk.rows[t].sub, s)
    BY DEF FInv, AcknowledgedIsDurable
  <2> QED BY <1>1, <2>1
<1>3. CallsCounted'
  <2> SUFFICES ASSUME NEW t \in TaskId, calls[t] > 0
               PROVE  /\ t \in DOMAIN disk'.rows
                      /\ calls[t] <= disk'.rows[t].attempts
                      /\ calls[t] <= task'[t].attempts
    BY DEF CallsCounted
  <2>1. t \in DOMAIN disk.rows /\ calls[t] <= disk.rows[t].attempts
        /\ calls[t] <= task[t].attempts /\ task[t].state # "absent"
    BY DEF FInv, CallsCounted, FileIsKnown
  <2>2. t \in DOMAIN disk'.rows
    BY <1>1, <2>1
  <2>3. task'[t].attempts >= task[t].attempts
    BY <2>1 DEF TableGrows, Grows
  <2>4. task[t].attempts \in Nat /\ task'[t].attempts \in Nat /\ calls[t] \in Nat
    BY <1>1 DEF FInv, TypeOK, StoreTypeOK, StoredTask
  <2>5. calls[t] <= task'[t].attempts
    BY <2>1, <2>3, <2>4
  <2> QED BY <1>1, <2>1, <2>2, <2>5
<1> QED BY <1>2, <1>3

LEMMA TurnsType ==
    ASSUME TypeOK, CountTurns
    PROVE  turns' \in [Group -> SUBSET Group]
<1>1. \A g \in Group : turns[g] \in SUBSET Group
  BY DEF TypeOK
<1> QED BY <1>1 DEF CountTurns

----------------------------------------------------------------------------
LEMMA FInit == Init => FInv
<1> SUFFICES ASSUME Init PROVE FInv
  OBVIOUS
<1>1. StoreTypeOK /\ \A t \in TaskId : task[t] = NoTask
  BY NoTaskType, MaxTasksAssumption DEF Init, StoreInit, StoreTypeOK
<1>2. DOMAIN disk.rows = {} /\ DOMAIN disk.ranks = DOMAIN disk.rows
  <2>1. DOMAIN disk.rows = {t \in TaskId : task[t].state # "absent"}
        /\ DOMAIN disk.ranks = DOMAIN disk.rows
    BY <1>1, Written DEF Init, StoreTypeOK
  <2> QED BY <1>1, <2>1, NoTaskType
<1>3. TypeOK
  BY <1>1, <1>2, MaxFaultsAssumption DEF TypeOK, Init
<1>4. RowsOK
  BY <1>1, <1>2, NoTaskType, FileAttemptsAssumption DEF RowsOK, RowOK
<1>5. FileIsKnown /\ CallsCounted /\ LoopHasRow /\ AcknowledgedIsDurable
  BY <1>2 DEF Init, FileIsKnown, CallsCounted, LoopHasRow, Busy, AcknowledgedIsDurable, Idle
<1> QED BY <1>3, <1>4, <1>5 DEF FInv

(* The fields of the loop and of the write faults. *)
LoopTypeOK ==
    /\ faults \in 0 .. MaxFaults
    /\ loop \in {Idle, Dead} \union {Executing(t) : t \in TaskId}
                           \union {Refreshing(t) : t \in TaskId}
                           \union {Recovering(t) : t \in TaskId}

LEMMA FaultsType ==
    ASSUME faults \in 0 .. MaxFaults, Saved \/ SaveRaises \/ UNCHANGED faults
    PROVE  faults' \in 0 .. MaxFaults
BY MaxFaultsAssumption DEF Saved, SaveRaises

LEMMA SavedFollows ==
    /\ Saved => FileFollows
    /\ SaveRaises => FileFollows
    /\ UNCHANGED disk => FileFollows
BY DEF Saved, SaveRaises, FileFollows

(* Record, RecordRaises and Recover write one row, the one of the task in hand. *)
LEMMA OutcomeStep ==
    ASSUME FInv, Record \/ RecordRaises \/ Recover
    PROVE  /\ Busy /\ loop.tid \in TaskId /\ task[loop.tid].state # "absent"
           /\ TableGrows /\ FileFollows
           /\ Touch(loop.tid) /\ \E row : task' = [task EXCEPT ![loop.tid] = row]
           /\ LoopStays /\ loop # Dead /\ faults' \in 0 .. MaxFaults
           /\ UNCHANGED <<acked, calls>>
<1>1. Busy
  BY DEF Busy, Record, RecordRaises, Recover
<1>2. loop.tid \in TaskId /\ task[loop.tid].state # "absent" /\ loop # Dead
  BY <1>1, LoopCases DEF FInv, LoopHasRow, Busy, Dead
<1>3. PICK row : /\ \/ row \in OutcomeRows(task[loop.tid])
                    \/ row = FailedOrRetried(task[loop.tid], TRUE)
                 /\ task' = [task EXCEPT ![loop.tid] = row]
  BY DEF Record, RecordRaises, Recover
<1>4. Touch(loop.tid) /\ (Saved \/ SaveRaises) /\ UNCHANGED <<acked, calls>>
  BY DEF Record, RecordRaises, Recover
<1>5. TableGrows
  BY <1>1, <1>3, <1>4, RecordGrows
<1>6. FileFollows /\ faults' \in 0 .. MaxFaults
  BY <1>4, SavedFollows, FaultsType DEF FInv, TypeOK
<1>7. LoopStays
  BY <1>1 DEF LoopStays, Record, RecordRaises, Recover
<1> QED BY <1>1, <1>2, <1>3, <1>4, <1>5, <1>6, <1>7

(* The end of an iteration changes nothing but the loop. *)
LEMMA RefreshStep ==
    ASSUME FInv, Refresh
    PROVE  /\ Busy /\ TableGrows /\ FileFollows /\ loop' = Idle /\ loop # Dead
           /\ UNCHANGED <<task, stamp, disk, faults, acked, calls>>
<1>1. Busy /\ loop' = Idle /\ loop # Dead /\ UNCHANGED <<task, stamp, disk, faults, acked, calls>>
  BY DEF Refresh, storeVars, Busy, Dead
<1>2. \A u \in TaskId : task[u] \in StoredTask /\ task[u].attempts \in Nat /\ RowOK(task[u])
  BY DEF FInv, TypeOK, StoreTypeOK, StoredTask, RowsOK
<1>3. TableGrows
  BY <1>1, <1>2 DEF TableGrows, Grows, FInv, TypeOK, StoreTypeOK
<1> QED BY <1>1, <1>3, SavedFollows

(* The step's parts make up the invariant. *)
LEMMA Assemble ==
    ASSUME FInv, TableGrows, FileFollows, LoopTypeOK', LoopHasRow', CallsCounted',
           AcknowledgedIsDurable', acked' \subseteq Submission, calls' \in [TaskId -> Nat],
           turns' \in [Group -> SUBSET Group]
    PROVE  FInv'
<1>1. StoreTypeOK' /\ FileTypeOK' /\ RowsOK' /\ FileIsKnown'
  BY FileGrows
<1>2. TypeOK'
  BY <1>1 DEF TypeOK, FileTypeOK, LoopTypeOK
<1> QED BY <1>1, <1>2 DEF FInv

(* A row that is there stays there, so the loop keeps its row. *)
LEMMA LoopKeepsRow ==
    ASSUME FInv, TableGrows, LoopStays
    PROVE  LoopHasRow'
<1>1. CASE loop' \in {Idle, Dead}
  BY <1>1 DEF LoopHasRow, Busy, Idle, Dead
<1>2. CASE loop'.tid = loop.tid /\ Busy
  BY <1>2, LoopCases DEF FInv, LoopHasRow, TableGrows, Grows
<1>3. CASE loop' = loop /\ ~Busy
  BY <1>3 DEF LoopHasRow, Busy
<1> QED BY <1>1, <1>2, <1>3 DEF LoopStays, Refreshing, Recovering

LEMMA QuietKeeps ==
    ASSUME FInv, TableGrows, FileFollows, UNCHANGED <<acked, calls>>,
           faults' \in 0 .. MaxFaults, LoopStays, CountTurns
    PROVE  FInv'
<1>1. CallsCounted' /\ AcknowledgedIsDurable'
  BY QuietStep
<1>2. LoopTypeOK'
  <2>1. loop' \in {loop, Idle, Dead} \/ (loop.tid \in TaskId
                                         /\ loop' \in {Refreshing(loop.tid), Recovering(loop.tid)})
    BY LoopCases DEF LoopStays, FInv
  <2> QED BY <2>1 DEF FInv, TypeOK, LoopTypeOK
<1>3. turns' \in [Group -> SUBSET Group]
  BY TurnsType DEF FInv
<1>4. acked' \subseteq Submission /\ calls' \in [TaskId -> Nat]
  BY DEF FInv, TypeOK
<1> QED BY <1>1, <1>2, <1>3, <1>4, LoopKeepsRow, Assemble

LEMMA SubmitKeeps ==
    ASSUME FInv, NEW batch \in Batches, Submit(batch), CountTurns
    PROVE  FInv'
<1>1. TableGrows /\ FileFollows
  BY SubmitGrows, SavedFollows DEF Submit
<1>2. StoreTypeOK' /\ disk' = File(task', stamp')
  BY <1>1, FileGrows DEF Submit, Saved
<1>3. /\ DOMAIN disk'.rows = {t \in TaskId : task'[t].state # "absent"}
      /\ \A t \in DOMAIN disk'.rows : disk'.rows[t] = task'[t]
  BY <1>2, Written DEF StoreTypeOK
<1>4. AcknowledgedIsDurable'
  <2> SUFFICES ASSUME NEW s \in acked'
               PROVE  \E t \in DOMAIN disk'.rows : SameKey(disk'.rows[t].sub, s)
    BY DEF AcknowledgedIsDurable
  <2>1. CASE s \in acked
    <3>1. PICK t \in DOMAIN disk.rows : SameKey(disk.rows[t].sub, s)
      BY <2>1 DEF FInv, AcknowledgedIsDurable
    <3>2. t \in DOMAIN disk'.rows /\ disk'.rows[t].sub = disk.rows[t].sub
      BY <1>1, FileGrows
    <3> QED BY <3>1, <3>2
  <2>2. CASE s \notin acked
    <3>1. PICK i \in DOMAIN batch : s = batch[i]
      BY <2>2 DEF Submit
    <3>2. PICK t \in TaskId : task'[t].state # "absent" /\ SameKey(task'[t].sub, batch[i])
      BY SubmitCovers DEF FInv, TypeOK, Submit
    <3> QED BY <1>3, <3>1, <3>2
  <2> QED BY <2>1, <2>2
<1>5. CallsCounted'
  <2> SUFFICES ASSUME NEW t \in TaskId, calls[t] > 0
               PROVE  /\ t \in DOMAIN disk'.rows
                      /\ calls[t] <= disk'.rows[t].attempts
                      /\ calls[t] <= task'[t].attempts
    BY DEF CallsCounted, Submit
  <2>1. t \in DOMAIN disk.rows /\ calls[t] <= task[t].attempts /\ task[t].state # "absent"
    BY DEF FInv, CallsCounted, FileIsKnown
  <2>2. t \in DOMAIN disk'.rows /\ disk'.rows[t] = task'[t]
    BY <1>1, <1>3, <2>1, FileGrows
  <2>3. task'[t].attempts >= task[t].attempts
    BY <1>1, <2>1 DEF TableGrows, Grows
  <2>4. task[t].attempts \in Nat /\ task'[t].attempts \in Nat /\ calls[t] \in Nat
    BY <1>2 DEF FInv, TypeOK, StoreTypeOK, StoredTask
  <2> QED BY <2>1, <2>2, <2>3, <2>4
<1>6. LoopTypeOK' /\ LoopHasRow' /\ calls' \in [TaskId -> Nat]
  BY <1>1, LoopKeepsRow, FaultsType DEF FInv, TypeOK, LoopTypeOK, LoopStays, Submit
<1>7. acked' \subseteq Submission
  <2>1. \A i \in DOMAIN batch : batch[i] \in Submission
    BY BatchesAssumption
  <2> QED BY <2>1 DEF FInv, TypeOK, Submit
<1>8. turns' \in [Group -> SUBSET Group]
  BY TurnsType DEF FInv
<1> QED BY <1>1, <1>4, <1>5, <1>6, <1>7, <1>8, Assemble

LEMMA ClaimKeeps ==
    ASSUME FInv, ClaimNext, CountTurns
    PROVE  FInv'
<1>0. StoreTypeOK
  BY DEF FInv, TypeOK
<1>1. PICK t \in TaskId : t = Oldest(Runnable(FairGroup)) /\ Claimable(t)
  BY <1>0, ClaimChoice DEF ClaimNext
<1>2. /\ Claim(t) /\ loop' = Executing(t) /\ Saved /\ UNCHANGED acked
      /\ calls' = [calls EXCEPT ![t] = IF Executable(Raw[task[t].sub]) THEN @ + 1 ELSE @]
  BY <1>1 DEF ClaimNext
<1>3. /\ TableGrows
      /\ task'[t].attempts = task[t].attempts + 1
      /\ task'[t].state = "running"
      /\ \A u \in TaskId \ {t} : task'[u] = task[u]
  BY <1>1, <1>2, ClaimGrows
<1>4. FileFollows /\ disk' = File(task', stamp')
  BY <1>2, SavedFollows DEF Saved
<1>5. StoreTypeOK'
  BY <1>3, <1>4, FileGrows
<1>6. /\ DOMAIN disk'.rows = {u \in TaskId : task'[u].state # "absent"}
      /\ \A u \in DOMAIN disk'.rows : disk'.rows[u] = task'[u]
  BY <1>4, <1>5, Written DEF StoreTypeOK
<1>7. AcknowledgedIsDurable'
  <2> SUFFICES ASSUME NEW s \in acked
               PROVE  \E u \in DOMAIN disk'.rows : SameKey(disk'.rows[u].sub, s)
    BY <1>2 DEF AcknowledgedIsDurable
  <2>1. PICK u \in DOMAIN disk.rows : SameKey(disk.rows[u].sub, s)
    BY DEF FInv, AcknowledgedIsDurable
  <2>2. u \in DOMAIN disk'.rows /\ disk'.rows[u].sub = disk.rows[u].sub
    BY <1>3, <1>4, FileGrows
  <2> QED BY <2>1, <2>2
<1>8. calls' \in [TaskId -> Nat]
  BY <1>2 DEF FInv, TypeOK
<1>9. CallsCounted'
  <2> SUFFICES ASSUME NEW u \in TaskId, calls'[u] > 0
               PROVE  u \in DOMAIN disk'.rows /\ calls'[u] <= task'[u].attempts
    BY <1>6 DEF CallsCounted
  <2>1. /\ calls[u] \in Nat /\ task[u].attempts \in Nat /\ task'[u].attempts \in Nat
        /\ calls[u] > 0 => calls[u] <= task[u].attempts /\ task[u].state # "absent"
    BY <1>0, <1>5 DEF FInv, TypeOK, StoreTypeOK, StoredTask, CallsCounted, FileIsKnown
  <2>2. CASE u = t
    <3>1. calls'[u] <= calls[u] + 1
      BY <1>2, <2>1, <2>2 DEF FInv, TypeOK
    <3> QED BY <1>3, <1>6, <1>8, <2>1, <2>2, <3>1
  <2>3. CASE u # t
    <3>1. calls'[u] = calls[u] /\ task'[u] = task[u]
      BY <1>2, <1>3, <2>3 DEF FInv, TypeOK
    <3> QED BY <1>6, <2>1, <3>1
  <2> QED BY <2>2, <2>3
<1>10. LoopTypeOK' /\ LoopHasRow'
  <2>1. loop'.tid = t
    BY <1>2 DEF Executing
  <2>2. faults' \in 0 .. MaxFaults
    BY <1>2, FaultsType DEF FInv, TypeOK
  <2> QED BY <1>2, <1>3, <2>1, <2>2 DEF LoopTypeOK, LoopHasRow
<1>11. acked' \subseteq Submission /\ turns' \in [Group -> SUBSET Group]
  BY <1>2, TurnsType DEF FInv, TypeOK
<1> QED BY <1>3, <1>4, <1>7, <1>8, <1>9, <1>10, <1>11, Assemble

(* The process starts from the file alone. *)
LEMMA RestartKeeps ==
    ASSUME FInv, Restart
    PROVE  FInv'
<1>1. \A t \in TaskId : task'[t] = IF t \in DOMAIN disk.rows THEN disk.rows[t] ELSE NoTask
  BY DEF Restart, LoadedRows
<1>2. FileTypeOK /\ UNCHANGED <<disk, faults, acked, calls>> /\ loop' = Idle
  BY DEF FInv, TypeOK, FileTypeOK, Restart
<1>3. StoreTypeOK'
  <2>1. task' \in [TaskId -> StoredTask]
    BY <1>2, NoTaskType DEF Restart, LoadedRows, FileTypeOK
  <2>2. stamp' \in [TaskId -> 0 .. MaxTasks]
    BY <1>2, MaxTasksAssumption DEF Restart, FileTypeOK
  <2> QED BY <2>1, <2>2 DEF StoreTypeOK
<1>4. TypeOK'
  BY <1>2, <1>3 DEF FInv, TypeOK, Restart
<1>5. RowsOK'
  BY <1>1, <1>2, NoTaskType, FileAttemptsAssumption DEF FInv, RowsOK, RowOK
<1>6. FileIsKnown' /\ LoopHasRow'
  BY <1>1, <1>2 DEF FileTypeOK, FileIsKnown, LoopHasRow, Busy, Idle
<1>7. CallsCounted' /\ AcknowledgedIsDurable'
  BY <1>1, <1>2 DEF FInv, CallsCounted, AcknowledgedIsDurable
<1> QED BY <1>4, <1>5, <1>6, <1>7 DEF FInv

LEMMA FNext == FInv /\ [Next]_fileVars => FInv'
<1> SUFFICES ASSUME FInv, [Next]_fileVars PROVE FInv'
  OBVIOUS
<1>0. faults \in 0 .. MaxFaults
  BY DEF FInv, TypeOK
<1>1. ASSUME NEW batch \in Batches, Submit(batch), CountTurns PROVE FInv'
  BY <1>1, SubmitKeeps
<1>2. ASSUME NEW batch \in Batches, SubmitRaises(batch), CountTurns PROVE FInv'
  <2>1. TableGrows
    BY <1>2, SubmitGrows DEF SubmitRaises
  <2> QED BY <1>0, <1>2, <2>1, SavedFollows, FaultsType, QuietKeeps DEF SubmitRaises, LoopStays
<1>3. ASSUME NEW tenant, NEW t \in TaskId, Cancel(tenant, t), CountTurns PROVE FInv'
  <2>1. TableGrows
    BY <1>3, CancelGrows DEF Cancel
  <2> QED BY <1>0, <1>3, <2>1, SavedFollows, FaultsType, QuietKeeps DEF Cancel, LoopStays
<1>4. ASSUME NEW t \in TaskId, Wait(t), CountTurns PROVE FInv'
  <2>1. TableGrows
    BY <1>4, ElapseGrows DEF Wait
  <2> QED BY <1>0, <1>4, <2>1, SavedFollows, QuietKeeps DEF Wait, LoopStays
<1>5. CASE ClaimNext /\ CountTurns
  BY <1>5, ClaimKeeps
<1>6. CASE ClaimRaises /\ CountTurns
  <2>1. TableGrows
    BY <1>6, ClaimChoice, ClaimGrows DEF ClaimRaises, FInv, TypeOK
  <2> QED BY <1>0, <1>6, <2>1, SavedFollows, FaultsType, QuietKeeps DEF ClaimRaises, LoopStays
<1>7. CASE (Record \/ RecordRaises \/ Recover) /\ CountTurns
  BY <1>7, OutcomeStep, QuietKeeps
<1>8. CASE Refresh /\ CountTurns
  BY <1>0, <1>8, RefreshStep, QuietKeeps DEF LoopStays
<1>9. CASE Restart
  BY <1>9, RestartKeeps
<1>10. CASE UNCHANGED fileVars
  BY <1>10 DEF fileVars, FInv, TypeOK, StoreTypeOK, RowsOK, FileIsKnown, CallsCounted,
               LoopHasRow, Busy, AcknowledgedIsDurable
<1> QED BY <1>1, <1>2, <1>3, <1>4, <1>5, <1>6, <1>7, <1>8, <1>9, <1>10 DEF Next, Step

LEMMA FileInvariant == Spec => []FInv
BY FInit, FNext, PTL DEF Spec

(***************************************************************************)
(* The table, the file and the executor loop always have their types.      *)
(***************************************************************************)
THEOREM TypeCorrect == Spec => []TypeOK
<1>1. FInv => TypeOK
  BY DEF FInv
<1> QED BY <1>1, FileInvariant, PTL

(***************************************************************************)
(* A submission that was answered with 202 is on file, whatever raised     *)
(* before and however often the process restarts.                          *)
(***************************************************************************)
THEOREM Durability == Spec => []AcknowledgedIsDurable
<1>1. FInv => AcknowledgedIsDurable
  BY DEF FInv
<1> QED BY <1>1, FileInvariant, PTL

(***************************************************************************)
(* Restarts and failed writes never give a task more calls of a backend    *)
(* than the attempts its record on file counts, and than the limit.        *)
(***************************************************************************)
THEOREM WorkAccounting == Spec => []WorkIsAccounted
<1>1. FInv => WorkIsAccounted
  <2> SUFFICES ASSUME FInv, NEW t \in TaskId, calls[t] > 0
               PROVE  /\ t \in DOMAIN disk.rows
                      /\ calls[t] <= disk.rows[t].attempts
                      /\ calls[t] <= MaxAttempts
    BY DEF WorkIsAccounted
  <2>1. t \in DOMAIN disk.rows /\ calls[t] <= disk.rows[t].attempts
    BY DEF FInv, CallsCounted
  <2>2. disk.rows[t].attempts <= MaxAttempts
    BY <2>1 DEF FInv, RowsOK, RowOK
  <2>3. calls[t] \in Nat /\ disk.rows[t].attempts \in Nat
    BY <2>1 DEF FInv, TypeOK, StoredTask
  <2> QED BY <2>1, <2>2, <2>3, FileAttemptsAssumption
<1> QED BY <1>1, FileInvariant, PTL

----------------------------------------------------------------------------
LEMMA FinalKept ==
    ASSUME FInv, TableGrows, FileFollows, NEW t \in TaskId, Final(t), task'[t] = task[t],
           LoopStays \/ \E u \in TaskId \ {t} : loop' = Executing(u)
    PROVE  Final(t)' /\ task'[t] = task[t]
<1>1. t \in DOMAIN disk.rows /\ disk.rows[t] = task[t] /\ task[t].state \in Settled
      /\ loop.tid # t
  BY DEF Final
<1>2. t \in DOMAIN disk'.rows /\ disk'.rows[t] = task'[t]
  <2>1. /\ t \in DOMAIN disk'.rows
        /\ disk' = disk \/ (\A u \in DOMAIN disk'.rows : disk'.rows[u] = task'[u])
    BY <1>1, FileGrows
  <2> QED BY <1>1, <2>1
<1>3. loop'.tid # t
  <2>1. t # 0
    BY DEF TaskId
  <2> QED BY <1>1, <2>1 DEF LoopStays, Executing, Refreshing, Recovering, Idle, Dead
<1> QED BY <1>1, <1>2, <1>3 DEF Final

(* No step of the process and no restart touches a row that is final. *)
LEMMA FinalStep ==
    ASSUME FInv, [Next]_fileVars, NEW t \in TaskId, Final(t)
    PROVE  Final(t)' /\ task'[t] = task[t]
<1>0. /\ t \in DOMAIN disk.rows /\ disk.rows[t] = task[t] /\ loop.tid # t
      /\ task[t].state \notin {"absent", "queued", "running"} /\ ~task[t].delayed
      /\ task[t].delayed \in BOOLEAN
  <2>1. RowOK(task[t]) /\ task[t] \in StoredTask
    BY DEF FInv, RowsOK, TypeOK, StoreTypeOK
  <2> QED BY <2>1 DEF Final, Settled, RowOK, StoredTask
<1>1. task \in [TaskId -> StoredTask]
  BY DEF FInv, TypeOK, StoreTypeOK
<1>2. ASSUME NEW u \in TaskId, NEW row, task' = [task EXCEPT ![u] = row], u # t
      PROVE  task'[t] = task[t]
  BY <1>1, <1>2
<1>3. ASSUME NEW batch \in Batches, Submit(batch) \/ SubmitRaises(batch)
      PROVE  Final(t)' /\ task'[t] = task[t]
  <2>1. TableGrows /\ FileFollows /\ loop' = loop
    BY <1>3, SubmitGrows, SavedFollows DEF Submit, SubmitRaises
  <2>2. task'[t] = task[t]
    BY <1>0, <1>3, SubmitRows DEF Submit, SubmitRaises, FInv, TypeOK
  <2> QED BY <2>1, <2>2, FinalKept DEF LoopStays
<1>4. ASSUME NEW tenant, NEW u \in TaskId, Cancel(tenant, u)
      PROVE  Final(t)' /\ task'[t] = task[t]
  <2>1. TableGrows /\ FileFollows /\ loop' = loop
    BY <1>4, CancelGrows, SavedFollows DEF Cancel
  <2>2. u # t
    BY <1>0, <1>4 DEF Cancel, CancelTask, Active
  <2>3. task'[t] = task[t]
    BY <1>2, <1>4, <2>2 DEF Cancel, CancelTask
  <2> QED BY <2>1, <2>3, FinalKept DEF LoopStays
<1>5. ASSUME NEW u \in TaskId, Wait(u)
      PROVE  Final(t)' /\ task'[t] = task[t]
  <2>1. TableGrows /\ FileFollows /\ loop' = loop
    BY <1>5, ElapseGrows, SavedFollows DEF Wait
  <2>2. u # t
    BY <1>0, <1>5 DEF Wait, Elapse
  <2>3. task'[t] = task[t]
    BY <1>1, <1>5, <2>2 DEF Wait, Elapse
  <2> QED BY <2>1, <2>3, FinalKept DEF LoopStays
<1>6. CASE ClaimNext \/ ClaimRaises
  <2>1. PICK u \in TaskId : u = Oldest(Runnable(FairGroup)) /\ Claimable(u)
    BY <1>6, ClaimChoice DEF ClaimNext, ClaimRaises, FInv, TypeOK
  <2>2. Claim(u) /\ FileFollows /\ loop' \in {Executing(u), Dead}
    BY <1>6, <2>1, SavedFollows DEF ClaimNext, ClaimRaises
  <2>3. TableGrows
    BY <2>1, <2>2, ClaimGrows
  <2>4. u # t
    BY <1>0, <2>1 DEF Claimable
  <2>5. task'[t] = task[t]
    BY <1>2, <2>2, <2>4 DEF Claim
  <2> QED BY <2>2, <2>3, <2>4, <2>5, FinalKept DEF LoopStays
<1>7. CASE Record \/ RecordRaises \/ Recover
  <2>1. PICK row : task' = [task EXCEPT ![loop.tid] = row]
    BY <1>7, OutcomeStep
  <2>2. task'[t] = task[t]
    BY <1>0, <1>1, <2>1
  <2> QED BY <1>7, <2>2, OutcomeStep, FinalKept
<1>8. CASE Refresh
  BY <1>8, RefreshStep, FinalKept DEF LoopStays
<1>9. CASE Restart
  <2>1. task'[t] = task[t] /\ disk' = disk /\ loop' = Idle
    BY <1>0, <1>9 DEF Restart, LoadedRows
  <2>2. Idle.tid # t
    BY DEF Idle, TaskId
  <2> QED BY <1>0, <2>1, <2>2 DEF Final
<1>10. CASE UNCHANGED fileVars
  BY <1>10 DEF fileVars, Final
<1> QED BY <1>3, <1>4, <1>5, <1>6, <1>7, <1>8, <1>9, <1>10 DEF Next, Step

(***************************************************************************)
(* Once the executor loop has left a task whose outcome memory and file    *)
(* agree on, that outcome is final: neither a later write, nor one that    *)
(* raises, nor a restart changes it.  Until then the except clause of the  *)
(* loop may still record a failure over it.                                *)
(***************************************************************************)
THEOREM OutcomeFinality == Spec => OutcomeOnFileIsFinal
<1>1. FInv /\ [Next]_fileVars =>
        [\A t \in TaskId : Final(t) => Final(t)' /\ task'[t] = task[t]]_fileVars
  BY FinalStep
<1> QED BY <1>1, FileInvariant, PTL DEF Spec, OutcomeOnFileIsFinal

----------------------------------------------------------------------------
(* The numbers of the tasks of a set are bounded: by induction on the ids, *)
(* as the absence of a least id at which the bound fails.                  *)
LEMMA BoundedImage ==
    ASSUME NEW S \in SUBSET TaskId, NEW f \in [S -> Nat]
    PROVE  \E m \in Nat : \A t \in S : f[t] <= m
<1> DEFINE B(k) == \E m \in Nat : \A t \in S : t <= k => f[t] <= m
           K == {k \in Nat : ~B(k)}
<1>1. S \in SUBSET (Nat \ {0}) /\ \A t \in S : t <= MaxTasks
  BY MaxTasksAssumption DEF TaskId
<1>2. CASE K # {}
  <2>1. PICK k \in K : \A j \in K : k <= j
    BY <1>2, LeastNat
  <2>2. CASE k = 0
    BY <1>1, <2>1, <2>2
  <2>3. CASE k # 0
    <3>1. k - 1 \in Nat /\ k - 1 \notin K
      BY <2>1, <2>3
    <3>2. PICK m \in Nat : \A t \in S : t <= k - 1 => f[t] <= m
      BY <3>1
    <3>3. CASE k \in S
      <4>1. f[k] \in Nat /\ m + f[k] \in Nat
        BY <3>3
      <4>2. \A t \in S : t <= k => f[t] <= m + f[k]
        <5> SUFFICES ASSUME NEW t \in S, t <= k PROVE f[t] <= m + f[k]
          OBVIOUS
        <5>1. t = k \/ t <= k - 1
          BY <1>1, <2>1
        <5>2. f[t] \in Nat
          OBVIOUS
        <5> QED BY <3>2, <4>1, <5>1, <5>2
      <4> QED BY <2>1, <4>1, <4>2
    <3>4. CASE k \notin S
      <4>1. \A t \in S : t <= k => t <= k - 1
        BY <1>1, <2>1, <3>4
      <4> QED BY <2>1, <3>2, <4>1
    <3> QED BY <3>3, <3>4
  <2> QED BY <2>2, <2>3
<1>3. CASE K = {}
  <2>1. B(MaxTasks)
    BY <1>3, MaxTasksAssumption
  <2> QED BY <1>1, <2>1
<1> QED BY <1>2, <1>3

LEMMA GreatestImage ==
    ASSUME NEW S \in SUBSET TaskId, S # {}, NEW f \in [S -> Nat]
    PROVE  /\ Max({f[t] : t \in S}) \in {f[t] : t \in S}
           /\ \A t \in S : f[t] <= Max({f[u] : u \in S})
<1> DEFINE F == {f[t] : t \in S}
<1>1. PICK m \in Nat : \A t \in S : f[t] <= m
  BY BoundedImage
<1>2. F \in SUBSET (0 .. m) /\ F # {}
  BY <1>1
<1>3. PICK x \in F : \A y \in F : y <= x
  BY <1>1, <1>2, GreatestNat
<1>4. \A y \in F : x >= y
  BY <1>2, <1>3
<1>5. Max(F) \in F /\ \A y \in F : Max(F) >= y
  BY <1>4 DEF Max
<1> HIDE DEF F
<1>6. Max(F) \in F /\ \A y \in F : y <= Max(F)
  BY <1>2, <1>5
<1> QED BY <1>6 DEF F

LEMMA LeastOf ==
    ASSUME NEW S \in SUBSET Nat, S # {}
    PROVE  Min(S) \in S /\ \A y \in S : Min(S) <= y
<1>1. \E x \in S : \A y \in S : x <= y
  BY LeastNat
<1> QED BY <1>1 DEF Min

LEMMA PairExtremes ==
    ASSUME NEW a \in Nat, NEW b \in Nat
    PROVE  /\ Max({a, b}) = (IF a >= b THEN a ELSE b)
           /\ Min({a, b}) = (IF a <= b THEN a ELSE b)
<1>1. \E x \in {a, b} : \A y \in {a, b} : x >= y
  OBVIOUS
<1>2. \E x \in {a, b} : \A y \in {a, b} : x <= y
  OBVIOUS
<1>3. Max({a, b}) \in {a, b} /\ \A y \in {a, b} : Max({a, b}) >= y
  BY <1>1 DEF Max
<1>4. Min({a, b}) \in {a, b} /\ \A y \in {a, b} : Min({a, b}) <= y
  BY <1>2 DEF Min
<1> QED BY <1>3, <1>4

----------------------------------------------------------------------------
(* int() of a field, if it is there, is at least 1 or refused. *)
LEMMA OptionalType ==
    ASSUME NEW v \in Number
    PROVE  /\ OptionalPositiveInt(v) \in (Nat \ {0}) \union {None, Malformed}
           /\ OptionalPositiveInt(v) = None <=> v = None
           /\ OptionalPositiveInt(v) \in Nat => v = OptionalPositiveInt(v)
BY FieldAssumption DEF OptionalPositiveInt, Number

LEMMA FirstTruthyType ==
    ASSUME NEW vs \in [1 .. 5 -> Number]
    PROVE  FirstTruthy(vs) \in Number
<1> DEFINE truthy == {i \in DOMAIN vs : vs[i] # None /\ vs[i] # 0}
<1>1. Len(vs) = 5 /\ DOMAIN vs = 1 .. 5
  OBVIOUS
<1>2. truthy \in SUBSET Nat
  OBVIOUS
<1>3. truthy # {} => Min(truthy) \in truthy
  BY <1>2, LeastOf
<1>4. (IF truthy = {} THEN Len(vs) ELSE Min(truthy)) \in 1 .. 5
  BY <1>1, <1>3
<1> QED BY <1>4 DEF FirstTruthy

(* Every number of a task that was accepted is a number. *)
LEMMA AcceptedNumbers ==
    ASSUME NEW raw \in RawTask, ParsesTask(raw)
    PROVE  /\ RequiredContext(raw) \in Nat
           /\ RequestedParallel(raw) \in Nat \ {0}
           /\ raw.cap = None \/ raw.cap \in Nat \ {0}
<1>1. /\ raw.text \in Nat /\ raw.estimate \in Number /\ raw.outputs \in [1 .. 5 -> Number]
      /\ raw.parallel \in Number /\ raw.maxParallel \in Number /\ raw.cap \in Number
  BY DEF RawTask
<1>2. EstimateInputTokens(raw.text) \in Nat
  <2>1. RoundQuarter(raw.text) \in Nat
    <3>1. raw.text \div 4 \in Nat
      BY <1>1
    <3> QED BY <3>1 DEF RoundQuarter
  <2> QED BY <2>1, PairExtremes DEF EstimateInputTokens
<1>3. EstimatedInput(raw) \in Nat
  <2>1. EstimatedInput(raw) # Malformed
    BY DEF ParsesTask
  <2> QED BY <1>1, <1>2, <2>1, OptionalType DEF EstimatedInput
<1>4. MaxOutput(raw) \in Nat
  <2>1. MaxOutput(raw) # Malformed
    BY DEF ParsesTask
  <2>2. FirstTruthy(raw.outputs) \in Number
    BY <1>1, FirstTruthyType
  <2> QED BY <2>1, <2>2, OptionalType DEF MaxOutput, DefaultMaxOutputTokens
<1>5. RequiredContext(raw) \in Nat
  BY <1>3, <1>4, PairExtremes DEF RequiredContext
<1>6. RequestedParallel(raw) \in Nat \ {0}
  <2>1. OptionalPositiveInt(raw.parallel) # Malformed
        /\ OptionalPositiveInt(raw.maxParallel) # Malformed
    BY DEF ParsesTask
  <2> QED BY <1>1, <2>1, OptionalType DEF RequestedParallel
<1>7. raw.cap = None \/ raw.cap \in Nat \ {0}
  <2>1. OptionalPositiveInt(raw.cap) # Malformed
    BY DEF ParsesTask
  <2> QED BY <1>1, <2>1, OptionalType
<1> QED BY <1>5, <1>6, <1>7

(* The bucket holds what it was chosen for, also beyond the largest one. *)
LEMMA BucketHolds ==
    ASSUME NEW required \in Nat
    PROVE  ContextBucket(required) \in Nat /\ required <= ContextBucket(required)
<1> DEFINE need == Max({1, required})
           fits == {b \in ContextBuckets : need <= b}
<1>1. need \in Nat /\ required <= need
  BY PairExtremes
<1> HIDE DEF need
<1>2. fits \in SUBSET Nat
  BY DEF ContextBuckets
<1>3. fits # {} => Min(fits) \in fits
  BY <1>2, LeastOf
<1>4. ContextBucket(required) = IF fits = {} THEN need ELSE Min(fits)
  BY DEF ContextBucket, need
<1> QED BY <1>1, <1>2, <1>3, <1>4

(* context_plan_for_model of tasks that were all accepted. *)
LEMMA PlanFits ==
    ASSUME NEW S \in SUBSET TaskId, S # {}, NEW raw \in [S -> RawTask],
           \A t \in S : ParsesTask(raw[t])
    PROVE  /\ \A t \in S \ ContextPlan(S, raw).oversized :
                 RequiredContext(raw[t]) <= ContextPlan(S, raw).context
           /\ \A cap \in Caps(S, raw) : ContextPlan(S, raw).context <= cap
           /\ ContextPlan(S, raw).parallel \in 1 .. Cardinality(S)
<1> DEFINE need == [t \in S |-> RequiredContext(raw[t])]
           slots == [t \in S |-> RequestedParallel(raw[t])]
           most == Max({need[t] : t \in S})
           wanted == Max({slots[t] : t \in S})
           bucket == ContextBucket(most)
           caps == Caps(S, raw)
           least == Min(caps)
           size == Cardinality(S)
           plan == ContextPlan(S, raw)
<1>1. \A t \in S : /\ RequiredContext(raw[t]) \in Nat
                   /\ RequestedParallel(raw[t]) \in Nat \ {0}
                   /\ raw[t].cap = None \/ raw[t].cap \in Nat \ {0}
  BY AcceptedNumbers
<1>2. need \in [S -> Nat] /\ slots \in [S -> Nat \ {0}] /\ slots \in [S -> Nat]
  BY <1>1
<1>3. most \in Nat /\ \A t \in S : RequiredContext(raw[t]) <= most
  <2>1. most \in {need[t] : t \in S} /\ \A t \in S : need[t] <= most
    BY <1>2, GreatestImage
  <2> QED BY <1>2, <2>1
<1>4. wanted \in Nat \ {0}
  <2>1. wanted \in {slots[t] : t \in S}
    BY <1>2, GreatestImage
  <2> QED BY <1>2, <2>1
<1>5. bucket \in Nat /\ most <= bucket
  BY <1>3, BucketHolds
<1>6. caps \in SUBSET Nat
  BY <1>1 DEF Caps
<1>7. caps # {} => least \in Nat /\ \A cap \in caps : least <= cap
  BY <1>6, LeastOf
<1>8. size \in Nat \ {0}
  <2>1. IsFiniteSet(TaskId)
    BY MaxTasksAssumption, FS_Interval DEF TaskId
  <2>2. IsFiniteSet(S)
    BY <2>1, FS_Subset
  <2> QED BY <2>2, FS_CardinalityType, FS_EmptySet
<1>9. {need[t] : t \in S} = {RequiredContext(raw[t]) : t \in S}
      /\ {slots[t] : t \in S} = {RequestedParallel(raw[t]) : t \in S}
  OBVIOUS
<1>10. /\ plan.context = IF caps = {} THEN bucket ELSE Min({bucket, least})
       /\ plan.parallel = Max({1, Min({size, wanted})})
       /\ plan.oversized = IF caps = {} THEN {}
                           ELSE {t \in S : RequiredContext(raw[t]) > least}
  <2>1. plan = [context   |-> IF caps = {} THEN bucket ELSE Min({bucket, least}),
                parallel  |-> Max({1, Min({size, wanted})}),
                oversized |-> IF caps = {} THEN {}
                              ELSE {t \in S : RequiredContext(raw[t]) > least}]
    BY <1>9 DEF ContextPlan
  <2> HIDE DEF plan, bucket, least, caps, size, wanted
  <2> QED BY <2>1
<1> HIDE DEF most, wanted, bucket, caps, least, size, plan
<1>11. \A t \in S \ plan.oversized : RequiredContext(raw[t]) <= plan.context
  <2> SUFFICES ASSUME NEW t \in S, t \notin plan.oversized
               PROVE  RequiredContext(raw[t]) <= plan.context
    OBVIOUS
  <2>1. RequiredContext(raw[t]) \in Nat /\ RequiredContext(raw[t]) <= bucket
    BY <1>1, <1>3, <1>5
  <2>2. CASE caps = {}
    BY <1>10, <2>1, <2>2
  <2>3. CASE caps # {}
    <3>1. RequiredContext(raw[t]) <= least
      BY <1>7, <1>10, <2>1, <2>3
    <3>2. Min({bucket, least}) = IF bucket <= least THEN bucket ELSE least
      BY <1>5, <1>7, <2>3, PairExtremes
    <3> QED BY <1>10, <2>1, <2>3, <3>1, <3>2
  <2> QED BY <2>2, <2>3
<1>12. \A cap \in caps : plan.context <= cap
  <2> SUFFICES ASSUME NEW cap \in caps PROVE plan.context <= cap
    OBVIOUS
  <2>1. cap \in Nat /\ least \in Nat /\ least <= cap
    BY <1>6, <1>7
  <2>2. Min({bucket, least}) = IF bucket <= least THEN bucket ELSE least
    BY <1>5, <2>1, PairExtremes
  <2> QED BY <1>5, <1>10, <2>1, <2>2
<1>13. plan.parallel \in 1 .. size
  <2>1. Min({size, wanted}) = IF size <= wanted THEN size ELSE wanted
    BY <1>4, <1>8, PairExtremes
  <2>2. Min({size, wanted}) \in Nat \ {0} /\ Min({size, wanted}) <= size
    BY <1>4, <1>8, <2>1
  <2>3. plan.parallel = Min({size, wanted})
    <3> DEFINE slotCount == Min({size, wanted})
    <3>1. slotCount \in Nat /\ slotCount >= 1 /\ plan.parallel = Max({1, slotCount})
      BY <1>10, <2>2
    <3> HIDE DEF slotCount
    <3>2. Max({1, slotCount}) = IF 1 >= slotCount THEN 1 ELSE slotCount
      BY <3>1, PairExtremes
    <3>3. plan.parallel = slotCount
      BY <3>1, <3>2
    <3> QED BY <3>3 DEF slotCount
  <2> QED BY <1>8, <2>2, <2>3
<1> QED BY <1>11, <1>12, <1>13 DEF plan, caps, size

(***************************************************************************)
(* The context plan the proxy sends for a model fits the tasks the store   *)
(* holds for it, whatever was submitted: parsing has refused every field   *)
(* that the plan could not compute with.                                   *)
(***************************************************************************)
THEOREM PlanIsServing == Spec => []PlanServesTasks
<1>1. FInv => PlanServesTasks
  <2> SUFFICES ASSUME FInv, NEW model \in {Raw[s].model : s \in Submission}
               PROVE  LET S    == ActiveFor(model)
                          raw  == [t \in S |-> Raw[task[t].sub]]
                          plan == ContextPlan(S, raw)
                      IN S # {} =>
                           /\ \A t \in S \ plan.oversized :
                                 RequiredContext(raw[t]) <= plan.context
                           /\ \A cap \in Caps(S, raw) : plan.context <= cap
                           /\ plan.parallel \in 1 .. Cardinality(S)
    BY Zenon DEF PlanServesTasks
  <2> DEFINE S == ActiveFor(model)
             raw == [t \in S |-> Raw[task[t].sub]]
  <2> SUFFICES ASSUME S # {}
               PROVE  /\ \A t \in S \ ContextPlan(S, raw).oversized :
                            RequiredContext(raw[t]) <= ContextPlan(S, raw).context
                      /\ \A cap \in Caps(S, raw) : ContextPlan(S, raw).context <= cap
                      /\ ContextPlan(S, raw).parallel \in 1 .. Cardinality(S)
    BY Zenon
  <2>1. S \in SUBSET TaskId
    BY DEF ActiveFor
  <2>2. ASSUME NEW t \in S PROVE Raw[task[t].sub] \in RawTask /\ ParsesTask(Raw[task[t].sub])
    <3>1. t \in TaskId /\ task[t].state # "absent"
      BY DEF ActiveFor, Active
    <3>2. task[t].sub \in Submission /\ RowOK(task[t])
      BY <3>1 DEF FInv, TypeOK, StoreTypeOK, StoredTask, RowsOK
    <3>3. Raw[task[t].sub] \in RawTask
      BY <3>2, RawAssumption
    <3> QED BY <3>1, <3>2, <3>3 DEF RowOK
  <2>3. raw \in [S -> RawTask] /\ \A t \in S : ParsesTask(raw[t])
    BY <2>2
  <2> HIDE DEF S, raw
  <2> QED BY <2>1, <2>3, PlanFits
<1> QED BY <1>1, FileInvariant, PTL

----------------------------------------------------------------------------
(* The ranks of updated_at: two updated rows differ, and no rank is left out. *)
Ranked(r) ==
    /\ \A u, v \in TaskId : u # v /\ r[u] > 0 => r[u] # r[v]
    /\ \A u \in TaskId : r[u] > 0 =>
          \A n \in r[u] .. MaxTasks : \E v \in TaskId : r[v] = n

LoadedRanks == [t \in TaskId |-> IF t \in DOMAIN disk.ranks THEN disk.ranks[t] ELSE 0]

AbsentIsFresh ==
    \A t \in TaskId : task[t].state = "absent" => task[t].attempts = 0 /\ stamp[t] = 0

(* A group that was served while another waits comes after it in the claim order. *)
ServedComesLater ==
    loop # Dead =>
        \A g, h \in Group : g \in turns[h] => LastClaimed(h) < LastClaimed(g)

(* While the loop has a task of its group in hand, no other group has had a turn. *)
NoTurnSinceClaim ==
    Busy => turns[task[loop.tid].sub.group] = {}

(* The inductive invariant of the turns, beside FInv. *)
TurnInv ==
    /\ Ranked(stamp) /\ Ranked(LoadedRanks)
    /\ AbsentIsFresh
    /\ ServedComesLater
    /\ NoTurnSinceClaim

LEMMA RankTypes ==
    MaxTasks \in Nat /\ MaxTasks > 0 /\ 0 \in 0 .. MaxTasks /\ MaxTasks \in 0 .. MaxTasks
BY MaxTasksAssumption

(* While a row was never updated, the ranks of the others leave room below. *)
LEMMA RoomBelow ==
    ASSUME NEW r \in [TaskId -> 0 .. MaxTasks], Ranked(r), NEW t \in TaskId, r[t] = 0,
           NEW u \in TaskId, r[u] > 0
    PROVE  r[u] > 1
<1> SUFFICES ASSUME r[u] = 1 PROVE FALSE
  BY MaxTasksAssumption
<1> DEFINE S == TaskId \ {t}
           T == {r[v] : v \in S}
           f == [v \in S |-> r[v]]
<1>1. 1 .. MaxTasks \in SUBSET T
  <2>1. \A n \in 1 .. MaxTasks : n > 0 /\ \E v \in TaskId : r[v] = n
    BY DEF Ranked
  <2> QED BY <2>1
<1>2. IsFiniteSet(TaskId) /\ Cardinality(TaskId) = MaxTasks
  BY RankTypes, FS_Interval DEF TaskId
<1>3. IsFiniteSet(S) /\ Cardinality(S) = MaxTasks - 1
  BY <1>2, FS_RemoveElement
<1>4. f \in Surjection(S, T)
  <2>1. f \in [S -> T] /\ \A n \in T : \E v \in S : f[v] = n
    OBVIOUS
  <2> QED BY <2>1 DEF Surjection
<1>5. IsFiniteSet(T) /\ Cardinality(T) <= MaxTasks - 1
  <2> HIDE DEF f, T, S
  <2> QED BY <1>3, <1>4, FS_Surjection
<1>6. Cardinality(1 .. MaxTasks) = MaxTasks
  BY RankTypes, FS_Interval
<1>7. Cardinality(1 .. MaxTasks) <= Cardinality(T) /\ Cardinality(T) \in Nat
  <2> HIDE DEF T
  <2> QED BY <1>1, <1>5, FS_Subset, FS_CardinalityType
<1> HIDE DEF T
<1> QED BY <1>5, <1>6, <1>7, RankTypes

(* The row that is updated comes last, and the others keep their order. *)
LEMMA RanksTouched ==
    ASSUME NEW r \in [TaskId -> 0 .. MaxTasks], Ranked(r), NEW t \in TaskId, NEW s,
           s = [u \in TaskId |-> IF u = t THEN MaxTasks
                                 ELSE IF r[u] > r[t] THEN r[u] - 1 ELSE r[u]]
    PROVE  /\ Ranked(s)
           /\ s[t] = MaxTasks
           /\ \A u \in TaskId \ {t} : s[u] < MaxTasks /\ (r[u] = 0 => s[u] = 0)
           /\ \A u \in TaskId \ {t} : r[u] > 0 => s[u] > 0
           /\ \A u, v \in TaskId \ {t} : r[u] < r[v] => s[u] < s[v]
<1>0. /\ MaxTasks \in Nat /\ MaxTasks > 0
      /\ \A u \in TaskId : r[u] \in Nat /\ r[u] <= MaxTasks
  BY RankTypes
<1>1. s[t] = MaxTasks
  OBVIOUS
<1>2. \A u \in TaskId \ {t} : s[u] = IF r[u] > r[t] THEN r[u] - 1 ELSE r[u]
  OBVIOUS
<1>3. \A u \in TaskId \ {t} : r[u] > 0 => r[u] # r[t]
  BY DEF Ranked
<1>4. \A u \in TaskId \ {t} : s[u] < MaxTasks /\ (r[u] = 0 => s[u] = 0)
  BY <1>0, <1>2, <1>3
<1>5. ASSUME NEW u \in TaskId \ {t}, r[u] > 0 PROVE s[u] > 0
  <2>1. CASE r[t] = 0
    <3>1. r[u] > 1
      BY <1>5, <2>1, RoomBelow
    <3> QED BY <1>0, <1>2, <3>1
  <2>2. CASE r[t] # 0
    BY <1>0, <1>2, <1>5, <2>2
  <2> QED BY <2>1, <2>2
<1>6. ASSUME NEW u \in TaskId \ {t}, NEW v \in TaskId \ {t}, r[u] < r[v] PROVE s[u] < s[v]
  <2>1. CASE r[u] = 0
    <3>1. s[u] = 0 /\ s[v] > 0
      BY <1>0, <1>4, <1>5, <1>6, <2>1
    <3> QED BY <3>1
  <2>2. CASE r[u] > 0
    BY <1>0, <1>2, <1>3, <1>6, <2>2
  <2> QED BY <1>0, <2>1, <2>2
<1>7. \A u, v \in TaskId : u # v /\ s[u] > 0 => s[u] # s[v]
  <2> SUFFICES ASSUME NEW u \in TaskId, NEW v \in TaskId, u # v, s[u] > 0, s[u] = s[v]
               PROVE  FALSE
    OBVIOUS
  <2>1. u # t /\ v # t
    BY <1>0, <1>1, <1>4
  <2>2. r[u] # r[v]
    <3>1. r[u] > 0
      BY <1>0, <1>4, <2>1
    <3> QED BY <3>1 DEF Ranked
  <2>3. r[u] < r[v] \/ r[v] < r[u]
    BY <1>0, <2>2
  <2> QED BY <1>0, <1>2, <1>6, <2>1, <2>3
<1>8. ASSUME NEW u \in TaskId, s[u] > 0, NEW n \in s[u] .. MaxTasks
      PROVE  \E v \in TaskId : s[v] = n
  <2>1. CASE n = MaxTasks
    BY <1>1, <2>1
  <2>2. CASE n # MaxTasks
    <3>0. s[u] \in Nat
      BY <1>0, <1>1, <1>2
    <3>1. n \in Nat /\ n < MaxTasks /\ n > 0 /\ s[u] <= n
      BY <1>0, <1>8, <2>2, <3>0
    <3>2. u # t /\ r[u] > 0 /\ s[u] <= r[u] /\ r[u] <= s[u] + 1
      BY <1>0, <1>1, <1>2, <1>4, <1>8, <3>1
    <3>3. CASE n < r[t]
      <4>1. r[u] <= n
        BY <1>0, <1>2, <3>1, <3>2, <3>3
      <4>2. PICK v \in TaskId : r[v] = n
        BY <1>0, <3>1, <3>2, <4>1 DEF Ranked
      <4>3. s[v] = n
        BY <1>0, <1>2, <3>3, <4>2
      <4> QED BY <4>3
    <3>4. CASE n >= r[t]
      <4>1. n + 1 \in r[u] .. MaxTasks
        BY <1>0, <3>0, <3>1, <3>2
      <4>2. PICK v \in TaskId : r[v] = n + 1
        BY <3>2, <4>1 DEF Ranked
      <4>3. s[v] = n
        BY <1>0, <1>2, <3>1, <3>4, <4>2
      <4> QED BY <4>3
    <3> QED BY <1>0, <3>1, <3>3, <3>4
  <2> QED BY <2>1, <2>2
<1>9. Ranked(s)
  BY <1>7, <1>8 DEF Ranked
<1> QED BY <1>1, <1>4, <1>5, <1>6, <1>9

----------------------------------------------------------------------------
(* The rows by which the claim order knows when a group was served. *)
ServedRows(g) == {u \in TaskId : task[u].attempts >= 1 /\ task[u].sub.group = g}

LEMMA ServedRanks ==
    ASSUME NEW g
    PROVE  /\ Served(g) = {0} \union {stamp[t] : t \in ServedRows(g)}
           /\ Served(g)' = {0} \union {stamp'[t] : t \in ServedRows(g)'}
BY DEF Served, ServedRows

LEMMA LastClaimedNext ==
    ASSUME StoreTypeOK', NEW g
    PROVE  /\ LastClaimed(g)' \in Served(g)'
           /\ \A m \in Served(g)' : m <= LastClaimed(g)'
           /\ LastClaimed(g)' \in 0 .. MaxTasks
<1>1. Served(g)' \in SUBSET (0 .. MaxTasks) /\ Served(g)' # {}
  BY MaxTasksAssumption DEF Served, StoreTypeOK
<1>2. \E n \in Served(g)' : \A m \in Served(g)' : m <= n
  BY <1>1, MaxTasksAssumption, GreatestNat
<1> QED BY <1>1, <1>2 DEF LastClaimed

(* The update of a row leaves the order of the groups it does not count for. *)
LEMMA OrderKept ==
    ASSUME StoreTypeOK, StoreTypeOK', Ranked(stamp), NEW t \in TaskId, Touch(t), NEW g, NEW h,
           ServedRows(g)' = ServedRows(g), t \notin ServedRows(g),
           ServedRows(h)' = ServedRows(h), t \notin ServedRows(h),
           LastClaimed(h) < LastClaimed(g)
    PROVE  LastClaimed(h)' < LastClaimed(g)'
<1>1. stamp \in [TaskId -> 0 .. MaxTasks] /\ stamp' \in [TaskId -> 0 .. MaxTasks]
  BY DEF StoreTypeOK
<1>2. /\ \A u \in TaskId \ {t} : stamp[u] > 0 => stamp'[u] > 0
      /\ \A u, v \in TaskId \ {t} : stamp[u] < stamp[v] => stamp'[u] < stamp'[v]
  BY <1>1, RanksTouched DEF Touch
<1>3. /\ LastClaimed(g) \in Served(g) /\ LastClaimed(g) \in Nat
      /\ \A m \in Served(h) : m <= LastClaimed(h)
      /\ LastClaimed(h) \in Nat
  BY LastClaimedOf, RankTypes
<1>4. /\ \A m \in Served(g)' : m <= LastClaimed(g)'
      /\ LastClaimed(g)' \in Nat /\ LastClaimed(h)' \in Nat /\ LastClaimed(h)' \in Served(h)'
  BY LastClaimedNext, RankTypes
<1>5. PICK v \in ServedRows(g) : stamp[v] = LastClaimed(g)
  BY <1>3, ServedRanks
<1>6. v \in TaskId \ {t} /\ stamp[v] \in Nat /\ stamp[v] > 0 /\ stamp'[v] \in Nat
  BY <1>1, <1>3, <1>5, RankTypes DEF ServedRows
<1>7. stamp'[v] <= LastClaimed(g)'
  <2>1. stamp'[v] \in Served(g)'
    BY <1>5, ServedRanks
  <2> QED BY <1>4, <2>1
<1>8. LastClaimed(h)' < stamp'[v]
  <2>1. CASE LastClaimed(h)' = 0
    BY <1>2, <1>6, <2>1
  <2>2. CASE LastClaimed(h)' # 0
    <3>1. PICK u \in ServedRows(h) : stamp'[u] = LastClaimed(h)'
      BY <1>4, <2>2, ServedRanks
    <3>2. u \in TaskId \ {t} /\ stamp[u] \in Nat
      BY <1>1, <3>1, RankTypes DEF ServedRows
    <3>3. stamp[u] \in Served(h)
      BY <3>1, ServedRanks
    <3>4. stamp[u] < stamp[v]
      BY <1>3, <1>5, <3>2, <3>3
    <3> QED BY <1>2, <1>6, <3>1, <3>2, <3>4
  <2> QED BY <2>1, <2>2
<1> QED BY <1>4, <1>6, <1>7, <1>8

(* The group of the updated row is the last of all. *)
LEMMA TouchedIsLast ==
    ASSUME StoreTypeOK, StoreTypeOK', Ranked(stamp), NEW t \in TaskId, Touch(t), NEW g, NEW h,
           t \in ServedRows(g)', t \notin ServedRows(h)'
    PROVE  LastClaimed(h)' < LastClaimed(g)'
<1>1. stamp \in [TaskId -> 0 .. MaxTasks]
  BY DEF StoreTypeOK
<1>2. stamp'[t] = MaxTasks /\ \A u \in TaskId \ {t} : stamp'[u] < MaxTasks
  BY <1>1, RanksTouched DEF Touch
<1>3. MaxTasks <= LastClaimed(g)'
  <2>1. MaxTasks \in Served(g)'
    BY <1>2, ServedRanks
  <2> QED BY <2>1, LastClaimedNext
<1>4. LastClaimed(h)' < MaxTasks
  <2>1. LastClaimed(h)' \in Served(h)'
    BY LastClaimedNext
  <2>2. \A m \in Served(h)' : m < MaxTasks
    <3>1. ServedRows(h)' \in SUBSET (TaskId \ {t})
      BY DEF ServedRows
    <3> QED BY <1>2, <3>1, ServedRanks, RankTypes
  <2> QED BY <2>1, <2>2
<1>5. LastClaimed(g)' \in Nat /\ LastClaimed(h)' \in Nat
  BY LastClaimedNext, RankTypes
<1> QED BY <1>3, <1>4, <1>5, RankTypes

----------------------------------------------------------------------------
LEMMA GroupTypes ==
    ASSUME FInv
    PROVE  /\ turns \in [Group -> SUBSET Group]
           /\ \A t \in TaskId : task[t].sub.group \in Group
<1>1. \A t \in TaskId : task[t].sub \in Submission
  BY DEF FInv, TypeOK, StoreTypeOK, StoredTask
<1>2. \A t \in TaskId : task[t].sub.group \in Group
  BY <1>1 DEF Group
<1> QED BY <1>2 DEF FInv, TypeOK

(* What CountTurns does to the turns of a group. *)
LEMMA TurnsCounted ==
    ASSUME CountTurns, NEW h \in Group
    PROVE  /\ \A g \in turns'[h] : g \in turns[h] \/ (g \in Group /\ Claims(g))
           /\ Claims(h) \/ Disturbs(h) => turns'[h] = {}
<1>1. turns'[h] = IF Claims(h) \/ Disturbs(h) \/ ~Waits(h)' THEN {}
                  ELSE turns[h] \union {g \in Group : Claims(g)}
  BY DEF CountTurns
<1> QED BY <1>1

(* No group is served by a step that does not begin an execution. *)
LEMMA NoTurn ==
    ASSUME LoopStays
    PROVE  \A g : ~Claims(g)
BY DEF LoopStays, Claims, Busy, Refreshing, Recovering, Idle, Dead

(* A step that updates the row t and no other. *)
RowStep(t) ==
    /\ Touch(t)
    /\ task[t].state # "absent" /\ task'[t].state # "absent"
    /\ task'[t].sub = task[t].sub /\ task'[t].attempts >= task[t].attempts
    /\ \A u \in TaskId \ {t} : task'[u] = task[u]

LEMMA ServedRowsKept ==
    ASSUME StoreTypeOK, StoreTypeOK', NEW t \in TaskId, RowStep(t), NEW g,
           g # task[t].sub.group \/ task'[t].attempts = 0
    PROVE  ServedRows(g)' = ServedRows(g) /\ t \notin ServedRows(g)
<1>1. task[t].attempts \in Nat /\ task'[t].attempts \in Nat
  BY DEF StoreTypeOK, StoredTask
<1>2. task'[t].attempts = 0 => task[t].attempts = 0
  BY <1>1 DEF RowStep
<1>3. \A u \in TaskId \ {t} : u \in ServedRows(g)' <=> u \in ServedRows(g)
  BY DEF RowStep, ServedRows
<1>4. t \notin ServedRows(g) /\ t \notin ServedRows(g)'
  BY <1>1, <1>2 DEF RowStep, ServedRows
<1>5. ServedRows(g) \in SUBSET TaskId /\ ServedRows(g)' \in SUBSET TaskId
  BY DEF ServedRows
<1> QED BY <1>3, <1>4, <1>5

(* Where the group of that row has no one ahead of it, the order is as ServedComesLater says. *)
LEMMA RowStepOrder ==
    ASSUME FInv, StoreTypeOK', Ranked(stamp), NEW t \in TaskId, RowStep(t), CountTurns,
           \A g, h \in Group : g \in turns[h] => LastClaimed(h) < LastClaimed(g),
           task'[t].attempts >= 1 => turns'[task[t].sub.group] = {},
           \A g : Claims(g) => g = task[t].sub.group /\ task'[t].attempts >= 1
    PROVE  \A g, h \in Group : g \in turns'[h] => LastClaimed(h)' < LastClaimed(g)'
<1> SUFFICES ASSUME NEW g \in Group, NEW h \in Group, g \in turns'[h]
             PROVE  LastClaimed(h)' < LastClaimed(g)'
  OBVIOUS
<1> DEFINE k == task[t].sub.group
<1>1. StoreTypeOK /\ Touch(t) /\ task'[t].attempts \in Nat
  BY DEF FInv, TypeOK, RowStep, StoreTypeOK, StoredTask
<1>2. g \in turns[h] \/ (g = k /\ task'[t].attempts >= 1)
  BY TurnsCounted
<1>3. CASE task'[t].attempts = 0
  <2>1. g \in turns[h] /\ LastClaimed(h) < LastClaimed(g)
    BY <1>2, <1>3
  <2>2. /\ ServedRows(g)' = ServedRows(g) /\ t \notin ServedRows(g)
        /\ ServedRows(h)' = ServedRows(h) /\ t \notin ServedRows(h)
    BY <1>1, <1>3, ServedRowsKept
  <2> QED BY <1>1, <2>1, <2>2, OrderKept
<1>4. CASE task'[t].attempts >= 1
  <2>1. h # k
    BY <1>4
  <2>2. ServedRows(h)' = ServedRows(h) /\ t \notin ServedRows(h)
    BY <1>1, <2>1, ServedRowsKept
  <2>3. CASE g = k
    <3>1. t \in ServedRows(g)'
      BY <1>4, <2>3 DEF ServedRows, RowStep
    <3> QED BY <1>1, <2>2, <3>1, TouchedIsLast
  <2>4. CASE g # k
    <3>1. LastClaimed(h) < LastClaimed(g)
      BY <1>2, <2>4
    <3>2. ServedRows(g)' = ServedRows(g) /\ t \notin ServedRows(g)
      BY <1>1, <2>4, ServedRowsKept
    <3> QED BY <1>1, <2>2, <3>1, <3>2, OrderKept
  <2> QED BY <2>3, <2>4
<1> QED BY <1>1, <1>3, <1>4

----------------------------------------------------------------------------
LEMMA RowStepOf ==
    ASSUME FInv, TableGrows, NEW t \in TaskId, NEW row, task' = [task EXCEPT ![t] = row],
           Touch(t), task[t].state # "absent"
    PROVE  RowStep(t)
<1>1. \A u \in TaskId \ {t} : task'[u] = task[u]
  BY DEF FInv, TypeOK, StoreTypeOK
<1> QED BY <1>1 DEF RowStep, TableGrows, Grows

(* A step that updates no row: submissions are new, and a delay may end. *)
NoUpdate ==
    /\ stamp' = stamp
    /\ \A u \in TaskId :
          \/ task'[u] = task[u]
          \/ /\ task'[u].state # "absent"
             /\ task'[u].attempts = task[u].attempts
             /\ task[u].attempts >= 1 => task'[u].sub = task[u].sub

LEMMA SubmitUpdatesNone ==
    ASSUME FInv, AbsentIsFresh, NEW batch \in Batches, SubmitMany(batch)
    PROVE  NoUpdate
<1>1. UNCHANGED stamp
  BY DEF SubmitMany
<1>2. ASSUME NEW u \in TaskId, task'[u] # task[u]
      PROVE  /\ task'[u].state # "absent"
             /\ task'[u].attempts = task[u].attempts /\ task[u].attempts = 0
  <2>1. PICK i \in DOMAIN batch : /\ task[u].state = "absent" /\ batch[i] \in Submission
                                  /\ task'[u] = NewTask(batch[i])
    BY <1>2, SubmitRows DEF FInv, TypeOK
  <2>2. task'[u].state = "queued" /\ task'[u].attempts = 0
    BY <2>1, NewTaskType
  <2> QED BY <2>1, <2>2 DEF AbsentIsFresh
<1> QED BY <1>1, <1>2 DEF NoUpdate

LEMMA ElapseUpdatesNone ==
    ASSUME FInv, NEW t \in TaskId, Elapse(t)
    PROVE  NoUpdate
<1>1. task[t] \in StoredTask /\ task[t].state = "queued"
  BY DEF FInv, TypeOK, StoreTypeOK, RowsOK, RowOK, Elapse
<1>2. \A u \in TaskId \ {t} : task'[u] = task[u]
  BY DEF Elapse, FInv, TypeOK, StoreTypeOK
<1>3. task'[t] = [task[t] EXCEPT !.delayed = FALSE]
  BY DEF Elapse, FInv, TypeOK, StoreTypeOK
<1>4. /\ task'[t].state = task[t].state /\ task'[t].attempts = task[t].attempts
      /\ task'[t].sub = task[t].sub
  BY <1>1, <1>3 DEF StoredTask
<1> QED BY <1>1, <1>2, <1>4 DEF NoUpdate, Elapse

LEMMA NoUpdateOrder ==
    ASSUME NoUpdate, NEW g
    PROVE  LastClaimed(g)' = LastClaimed(g)
<1>1. ServedRows(g)' = ServedRows(g)
  BY DEF NoUpdate, ServedRows
<1>2. Served(g)' = Served(g)
  BY <1>1, ServedRanks DEF NoUpdate
<1> QED BY <1>2 DEF LastClaimed

(* The ranks stay ranks, in memory and on file. *)
LEMMA RanksKept ==
    ASSUME FInv, TurnInv, TableGrows, FileFollows, NoUpdate \/ \E t \in TaskId : RowStep(t)
    PROVE  Ranked(stamp') /\ Ranked(LoadedRanks') /\ AbsentIsFresh'
<1>0. stamp \in [TaskId -> 0 .. MaxTasks] /\ StoreTypeOK'
  BY FileGrows DEF FInv, TypeOK, StoreTypeOK
<1>1. ASSUME NoUpdate PROVE Ranked(stamp') /\ AbsentIsFresh'
  <2>1. AbsentIsFresh'
    BY <1>1 DEF NoUpdate, TurnInv, AbsentIsFresh
  <2> QED BY <1>1, <2>1 DEF NoUpdate, TurnInv
<1>2. ASSUME NEW t \in TaskId, RowStep(t) PROVE Ranked(stamp') /\ AbsentIsFresh'
  <2>1. Ranked(stamp') /\ \A u \in TaskId \ {t} : stamp[u] = 0 => stamp'[u] = 0
    BY <1>0, <1>2, RanksTouched DEF TurnInv, RowStep, Touch
  <2>2. AbsentIsFresh'
    BY <1>2, <2>1 DEF RowStep, TurnInv, AbsentIsFresh
  <2> QED BY <2>1, <2>2
<1>3. Ranked(stamp') /\ AbsentIsFresh'
  BY <1>1, <1>2
<1>4. Ranked(LoadedRanks')
  <2>1. CASE disk' = disk
    BY <2>1 DEF LoadedRanks, TurnInv
  <2>2. CASE disk' = File(task', stamp')
    <3>1. /\ DOMAIN disk'.rows = {t \in TaskId : task'[t].state # "absent"}
          /\ DOMAIN disk'.ranks = DOMAIN disk'.rows
          /\ \A t \in DOMAIN disk'.rows : disk'.ranks[t] = stamp'[t]
      BY <1>0, <2>2, Written DEF StoreTypeOK
    <3>2. \A t \in TaskId : LoadedRanks'[t] = stamp'[t]
      BY <1>3, <3>1 DEF LoadedRanks, AbsentIsFresh
    <3> QED BY <1>3, <3>2 DEF Ranked
  <2> QED BY <2>1, <2>2 DEF FileFollows
<1> QED BY <1>3, <1>4

LEMMA SinceClaimKept ==
    ASSUME FInv, NoTurnSinceClaim, TableGrows, LoopStays, CountTurns
    PROVE  NoTurnSinceClaim'
<1> SUFFICES ASSUME Busy'
             PROVE  turns'[task'[loop'.tid].sub.group] = {}
  BY DEF NoTurnSinceClaim
<1>1. Busy /\ loop'.tid = loop.tid
  BY DEF LoopStays, Busy, Idle, Dead, Refreshing, Recovering
<1>2. loop.tid \in TaskId /\ task[loop.tid].state # "absent"
  BY <1>1, LoopCases DEF FInv, LoopHasRow
<1>3. task'[loop.tid].sub = task[loop.tid].sub
  BY <1>2 DEF TableGrows, Grows
<1>4. task[loop.tid].sub.group \in Group /\ turns[task[loop.tid].sub.group] = {}
  BY <1>1, <1>2, GroupTypes DEF NoTurnSinceClaim
<1>5. turns'[task[loop.tid].sub.group] = {}
  BY <1>4, NoTurn, TurnsCounted
<1> QED BY <1>1, <1>3, <1>5

LEMMA NoUpdateKeeps ==
    ASSUME FInv, TurnInv, TableGrows, FileFollows, NoUpdate, LoopStays, loop = Dead => loop' = Dead,
           CountTurns
    PROVE  TurnInv'
<1>1. Ranked(stamp') /\ Ranked(LoadedRanks') /\ AbsentIsFresh'
  BY RanksKept
<1>2. ServedComesLater'
  <2>1. \A h \in Group : \A g \in turns'[h] : g \in turns[h]
    BY NoTurn, TurnsCounted
  <2> QED BY <2>1, NoUpdateOrder DEF TurnInv, ServedComesLater
<1>3. NoTurnSinceClaim'
  BY SinceClaimKept DEF TurnInv
<1> QED BY <1>1, <1>2, <1>3 DEF TurnInv

(* A cancel or an outcome: its group has no one ahead, or loses them. *)
LEMMA RowStepKeeps ==
    ASSUME FInv, TurnInv, TableGrows, FileFollows, NEW t \in TaskId, RowStep(t), CountTurns,
           LoopStays, loop' # Dead => loop # Dead,
           loop' # Dead /\ task'[t].attempts >= 1 => turns'[task[t].sub.group] = {}
    PROVE  TurnInv'
<1>1. Ranked(stamp') /\ Ranked(LoadedRanks') /\ AbsentIsFresh'
  BY RanksKept
<1>2. ServedComesLater'
  <2>1. StoreTypeOK' /\ \A g : ~Claims(g)
    BY FileGrows, NoTurn
  <2>2. CASE loop' # Dead
    <3>1. \A g, h \in Group : g \in turns[h] => LastClaimed(h) < LastClaimed(g)
      BY <2>2 DEF TurnInv, ServedComesLater
    <3>2. \A g, h \in Group : g \in turns'[h] => LastClaimed(h)' < LastClaimed(g)'
      BY <2>1, <2>2, <3>1, RowStepOrder DEF TurnInv
    <3> QED BY <3>2 DEF ServedComesLater
  <2>3. CASE loop' = Dead
    BY <2>3 DEF ServedComesLater, Dead
  <2> QED BY <2>2, <2>3
<1>3. NoTurnSinceClaim'
  BY SinceClaimKept DEF TurnInv
<1> QED BY <1>1, <1>2, <1>3 DEF TurnInv

LEMMA CancelTurns ==
    ASSUME FInv, TurnInv, NEW tenant, NEW t \in TaskId, Cancel(tenant, t), CountTurns
    PROVE  TurnInv'
<1>1. TableGrows /\ FileFollows
  BY CancelGrows, SavedFollows DEF Cancel
<1>2. RowStep(t)
  BY <1>1, RowStepOf DEF Cancel, CancelTask, Active
<1>3. /\ task[t] \in StoredTask /\ task[t].state \in Active
      /\ task'[t] = Cancelled(task[t])
  BY DEF FInv, TypeOK, StoreTypeOK, Cancel, CancelTask
<1>4. task'[t].state = "cancelled" /\ task'[t].attempts = task[t].attempts
  BY <1>3 DEF StoredTask, Cancelled
<1>5. task'[t].attempts >= 1 => turns'[task[t].sub.group] = {}
  <2>1. task[t].sub.group \in Group
    BY GroupTypes
  <2>2. task'[t].attempts >= 1 => Disturbs(task[t].sub.group)
    BY <1>3, <1>4 DEF Disturbs
  <2> QED BY <2>1, <2>2, TurnsCounted
<1> QED BY <1>1, <1>2, <1>5, RowStepKeeps DEF Cancel, LoopStays

LEMMA RecordTurns ==
    ASSUME FInv, TurnInv, Record \/ RecordRaises \/ Recover, CountTurns
    PROVE  TurnInv'
<1>1. TableGrows /\ FileFollows /\ Busy /\ LoopStays /\ loop # Dead
  BY OutcomeStep
<1>2. PICK t \in TaskId : t = loop.tid
  BY OutcomeStep
<1>3. RowStep(t)
  BY <1>1, <1>2, OutcomeStep, RowStepOf
<1>4. turns'[task[t].sub.group] = {}
  <2>1. task[t].sub.group \in Group /\ turns[task[t].sub.group] = {}
    BY <1>1, <1>2, GroupTypes DEF TurnInv, NoTurnSinceClaim
  <2> QED BY <1>1, <2>1, NoTurn, TurnsCounted
<1> QED BY <1>1, <1>3, <1>4, RowStepKeeps

LEMMA RefreshTurns ==
    ASSUME FInv, TurnInv, Refresh, CountTurns
    PROVE  TurnInv'
<1>1. NoUpdate /\ LoopStays
  BY RefreshStep DEF NoUpdate, LoopStays
<1> QED BY <1>1, RefreshStep, NoUpdateKeeps

LEMMA ClaimTurns ==
    ASSUME FInv, TurnInv, ClaimNext \/ ClaimRaises, CountTurns
    PROVE  TurnInv'
<1>1. PICK t \in TaskId : t = Oldest(Runnable(FairGroup)) /\ Claimable(t)
  BY ClaimChoice DEF ClaimNext, ClaimRaises, FInv, TypeOK
<1>2. Claim(t) /\ FileFollows /\ loop = Idle
  BY <1>1, SavedFollows DEF ClaimNext, ClaimRaises
<1>3. TableGrows /\ task'[t].attempts = task[t].attempts + 1
  BY <1>1, <1>2, ClaimGrows
<1>4. RowStep(t)
  BY <1>1, <1>2, <1>3, RowStepOf DEF Claim, Claimable
<1>5. task'[t].attempts >= 1 /\ task'[t].sub = task[t].sub /\ task[t].sub.group \in Group
  <2>1. task[t].attempts \in Nat
    BY DEF FInv, TypeOK, StoreTypeOK, StoredTask
  <2> QED BY <1>3, <1>4, <2>1, GroupTypes DEF RowStep
<1>6. CASE ClaimRaises
  <2>1. loop' = Dead
    BY <1>6 DEF ClaimRaises
  <2> QED BY <1>2, <1>3, <1>4, <2>1, RowStepKeeps DEF LoopStays
<1>7. CASE ClaimNext
  <2>1. loop' = Executing(t)
    BY <1>1, <1>7 DEF ClaimNext
  <2>2. loop'.pc = "executing" /\ loop'.tid = t /\ loop' # Dead
    BY <2>1 DEF Executing, Dead
  <2>3. \A g : Claims(g) <=> g = task[t].sub.group
    BY <1>2, <2>2 DEF Claims
  <2>4. turns'[task[t].sub.group] = {}
    BY <1>5, <2>3, TurnsCounted
  <2>5. Ranked(stamp') /\ Ranked(LoadedRanks') /\ AbsentIsFresh'
    BY <1>2, <1>3, <1>4, RanksKept
  <2>6. ServedComesLater'
    <3>1. loop # Dead /\ StoreTypeOK'
      BY <1>2, <1>3, FileGrows DEF Idle, Dead
    <3>2. \A g, h \in Group : g \in turns[h] => LastClaimed(h) < LastClaimed(g)
      BY <3>1 DEF TurnInv, ServedComesLater
    <3>3. \A g, h \in Group : g \in turns'[h] => LastClaimed(h)' < LastClaimed(g)'
      BY <1>4, <1>5, <2>3, <2>4, <3>1, <3>2, RowStepOrder DEF TurnInv
    <3> QED BY <3>3 DEF ServedComesLater
  <2>7. NoTurnSinceClaim'
    BY <1>5, <2>2, <2>4 DEF NoTurnSinceClaim
  <2> QED BY <2>5, <2>6, <2>7 DEF TurnInv
<1> QED BY <1>6, <1>7

LEMMA RestartTurns ==
    ASSUME FInv, TurnInv, Restart
    PROVE  TurnInv'
<1>1. /\ stamp' = LoadedRanks /\ UNCHANGED disk /\ loop' = Idle
      /\ turns' = [g \in Group |-> {}]
  BY DEF Restart, LoadedRanks
<1>2. Ranked(stamp') /\ Ranked(LoadedRanks')
  BY <1>1 DEF TurnInv, LoadedRanks
<1>3. AbsentIsFresh'
  <2> SUFFICES ASSUME NEW t \in TaskId, task'[t].state = "absent"
               PROVE  task'[t].attempts = 0 /\ stamp'[t] = 0
    BY DEF AbsentIsFresh
  <2>1. task'[t] = IF t \in DOMAIN disk.rows THEN disk.rows[t] ELSE NoTask
    BY DEF Restart, LoadedRows
  <2>2. t \notin DOMAIN disk.rows /\ DOMAIN disk.ranks = DOMAIN disk.rows
    BY <2>1 DEF FInv, TypeOK
  <2> QED BY <1>1, <2>1, <2>2, NoTaskType DEF LoadedRanks
<1>4. ServedComesLater' /\ NoTurnSinceClaim'
  BY <1>1 DEF ServedComesLater, NoTurnSinceClaim, Busy, Idle
<1> QED BY <1>2, <1>3, <1>4 DEF TurnInv

----------------------------------------------------------------------------
LEMMA TurnInit == Init => TurnInv
<1> SUFFICES ASSUME Init PROVE TurnInv
  OBVIOUS
<1>1. \A t \in TaskId : task[t] = NoTask /\ stamp[t] = 0
  BY DEF Init, StoreInit
<1>2. DOMAIN disk.ranks = {}
  <2>1. task \in [TaskId -> StoredTask] /\ stamp \in [TaskId -> 0 .. MaxTasks]
    BY FInit DEF FInv, TypeOK, StoreTypeOK
  <2>2. DOMAIN disk.ranks = {t \in TaskId : task[t].state # "absent"}
    BY <2>1, Written DEF Init
  <2> QED BY <1>1, <2>2, NoTaskType
<1>3. Ranked(stamp) /\ Ranked(LoadedRanks)
  BY <1>1, <1>2 DEF Ranked, LoadedRanks
<1>4. AbsentIsFresh
  BY <1>1, NoTaskType DEF AbsentIsFresh
<1>5. ServedComesLater /\ NoTurnSinceClaim
  BY DEF Init, ServedComesLater, NoTurnSinceClaim, Busy, Idle
<1> QED BY <1>3, <1>4, <1>5 DEF TurnInv

LEMMA TurnNext == FInv /\ TurnInv /\ [Next]_fileVars => TurnInv'
<1> SUFFICES ASSUME FInv, TurnInv, [Next]_fileVars PROVE TurnInv'
  OBVIOUS
<1>1. ASSUME NEW batch \in Batches, Submit(batch) \/ SubmitRaises(batch), CountTurns
      PROVE  TurnInv'
  <2>1. SubmitMany(batch) /\ FileFollows /\ UNCHANGED loop
    BY <1>1, SavedFollows DEF Submit, SubmitRaises
  <2>2. TableGrows
    BY <1>1, <2>1, SubmitGrows DEF Submit, SubmitRaises
  <2>3. NoUpdate
    BY <2>1, SubmitUpdatesNone DEF TurnInv
  <2> QED BY <1>1, <2>1, <2>2, <2>3, NoUpdateKeeps DEF LoopStays
<1>2. ASSUME NEW tenant, NEW t \in TaskId, Cancel(tenant, t), CountTurns PROVE TurnInv'
  BY <1>2, CancelTurns
<1>3. ASSUME NEW t \in TaskId, Wait(t), CountTurns PROVE TurnInv'
  <2>1. TableGrows /\ NoUpdate
    BY <1>3, ElapseGrows, ElapseUpdatesNone DEF Wait
  <2> QED BY <1>3, <2>1, SavedFollows, NoUpdateKeeps DEF Wait, LoopStays
<1>4. CASE (ClaimNext \/ ClaimRaises) /\ CountTurns
  BY <1>4, ClaimTurns
<1>5. CASE (Record \/ RecordRaises \/ Recover) /\ CountTurns
  BY <1>5, RecordTurns
<1>6. CASE Refresh /\ CountTurns
  BY <1>6, RefreshTurns
<1>7. CASE Restart
  BY <1>7, RestartTurns
<1>8. CASE UNCHANGED fileVars
  <2>1. UNCHANGED <<task, stamp, disk, loop, turns>>
    BY <1>8 DEF fileVars
  <2>2. \A g : LastClaimed(g)' = LastClaimed(g)
    BY <2>1 DEF LastClaimed, Served
  <2>3. ServedComesLater'
    BY <2>1, <2>2 DEF TurnInv, ServedComesLater
  <2>4. Ranked(stamp') /\ Ranked(LoadedRanks')
    BY <2>1 DEF TurnInv, LoadedRanks
  <2>5. AbsentIsFresh' /\ NoTurnSinceClaim'
    BY <2>1 DEF TurnInv, AbsentIsFresh, NoTurnSinceClaim, Busy
  <2> QED BY <2>3, <2>4, <2>5 DEF TurnInv
<1> QED BY <1>1, <1>2, <1>3, <1>4, <1>5, <1>6, <1>7, <1>8 DEF Next, Step

(* Only a claim gives a turn, and to the fair group. *)
LEMMA TurnOfFairGroup ==
    ASSUME FInv, [Next]_fileVars, NEW g \in Group, Claims(g)
    PROVE  loop = Idle /\ RunnableGroups # {} /\ g = FairGroup
<1>1. ClaimNext
  <2>1. ~LoopStays
    BY NoTurn
  <2>2. ~Record /\ ~RecordRaises /\ ~Recover /\ ~Refresh
    BY <2>1, OutcomeStep, RefreshStep DEF LoopStays
  <2>3. loop' # loop /\ loop' # Idle /\ loop' # Dead
    BY <2>1 DEF LoopStays
  <2> QED BY <2>2, <2>3 DEF Next, Step, Submit, SubmitRaises, Cancel, Wait, ClaimRaises, Restart,
                           fileVars
<1>2. RunnableGroups # {} /\ loop' = Executing(Oldest(Runnable(FairGroup)))
  BY <1>1 DEF ClaimNext
<1>3. task[Oldest(Runnable(FairGroup))].sub.group = FairGroup
  BY <1>2, ClaimChoice DEF FInv, TypeOK
<1> QED BY <1>2, <1>3 DEF Claims, Executing

(***************************************************************************)
(* Claiming is fair for any number of tasks and groups: while a group has  *)
(* a claimable task, claim_next serves no other group twice, unless a      *)
(* cancel or a restart changed what the store knows of the waiting group.  *)
(***************************************************************************)
THEOREM FairTurns == Spec => NoSecondTurn
<1>1. FInv /\ TurnInv /\ [Next]_fileVars =>
        [\A g, h \in Group : Claims(g) /\ h # g /\ Waits(h) => g \notin turns[h]]_fileVars
  <2> SUFFICES ASSUME FInv, TurnInv, [Next]_fileVars, NEW g \in Group, NEW h \in Group,
                      Claims(g), Waits(h), g \in turns[h]
               PROVE  FALSE
    OBVIOUS
  <2>1. loop = Idle /\ RunnableGroups # {} /\ g = FairGroup
    BY TurnOfFairGroup
  <2>2. StoreTypeOK /\ h \in RunnableGroups
    BY DEF FInv, TypeOK, RunnableGroups, Waits
  <2>3. Precedes(g, h)
    BY <2>1, <2>2, FairGroupFirst
  <2>4. LastClaimed(h) < LastClaimed(g)
    BY <2>1 DEF TurnInv, ServedComesLater, Idle, Dead
  <2>5. LastClaimed(g) \in Nat /\ LastClaimed(h) \in Nat
    BY <2>2, LastClaimedOf
  <2> QED BY <2>3, <2>4, <2>5 DEF Precedes
<1> QED BY <1>1, FInit, FNext, TurnInit, TurnNext, PTL DEF Spec, NoSecondTurn
============================================================================
