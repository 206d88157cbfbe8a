-------------------------- MODULE TaskStoreProofs --------------------------
(***************************************************************************)
(* Lemmas about the operators of TaskStore that the proofs of the modules  *)
(* built on it share.                                                      *)
(***************************************************************************)
EXTENDS TaskStore, WellFoundedInduction, TLAPS

(* A non-empty set of natural numbers has a least element. *)
LEMMA LeastNat ==
    ASSUME NEW S \in SUBSET Nat, S # {}
    PROVE  \E x \in S : \A y \in S : x <= y
<1>1. \E x \in S : \A y \in S : ~(<<y, x>> \in OpToRel(<, Nat))
  BY NatLessThanWellFounded, WFMin
<1>2. \A x, y \in Nat : ~(<<y, x>> \in OpToRel(<, Nat)) => x <= y
  BY DEF OpToRel
<1> QED BY <1>1, <1>2

(* A non-empty set of natural numbers below n has a greatest element. *)
LEMMA GreatestNat ==
    ASSUME NEW n \in Nat, NEW S \in SUBSET (0 .. n), S # {}
    PROVE  \E x \in S : \A y \in S : y <= x
<1> DEFINE T == {n - x : x \in S}
<1>1. T \in SUBSET Nat /\ T # {}
  <2>1. \A x \in S : n - x \in Nat
    OBVIOUS
  <2>2. PICK x \in S : TRUE
    OBVIOUS
  <2>3. n - x \in T
    BY <2>2
  <2> QED BY <2>1, <2>3
<1>2. PICK m \in T : \A k \in T : m <= k
  BY <1>1, LeastNat
<1>3. PICK x \in S : m = n - x
  OBVIOUS
<1>4. ASSUME NEW y \in S PROVE y <= x
  <2>1. n - x <= n - y
    BY <1>2, <1>3
  <2>2. x \in 0 .. n /\ y \in 0 .. n
    OBVIOUS
  <2> QED BY <2>1, <2>2
<1> QED BY <1>4

LEMMA OldestOf ==
    ASSUME NEW S \in SUBSET TaskId, S # {}
    PROVE  Oldest(S) \in S /\ \A u \in S : Oldest(S) <= u
<1>1. \E t \in S : \A u \in S : t <= u
  BY LeastNat DEF TaskId
<1> QED BY <1>1 DEF Oldest

LEMMA LastClaimedOf ==
    ASSUME StoreTypeOK, NEW g
    PROVE  /\ LastClaimed(g) \in Served(g)
           /\ \A m \in Served(g) : m <= LastClaimed(g)
           /\ LastClaimed(g) \in 0 .. MaxTasks
<1>1. Served(g) \in SUBSET (0 .. MaxTasks) /\ Served(g) # {}
  BY MaxTasksAssumption DEF Served, StoreTypeOK
<1>2. \E n \in Served(g) : \A m \in Served(g) : m <= n
  BY <1>1, MaxTasksAssumption, GreatestNat
<1> QED BY <1>1, <1>2 DEF LastClaimed

(* group_sort_key orders the groups that have a candidate: one of them comes first. *)
LEMMA FairGroupFirst ==
    ASSUME StoreTypeOK, RunnableGroups # {}
    PROVE  FairGroup \in RunnableGroups /\ \A h \in RunnableGroups : Precedes(FairGroup, h)
<1> DEFINE L == {LastClaimed(g) : g \in RunnableGroups}
<1>1. L \in SUBSET Nat /\ L # {}
  BY LastClaimedOf
<1>2. PICK l \in L : \A m \in L : l <= m
  BY <1>1, LeastNat
<1> DEFINE G == {g \in RunnableGroups : LastClaimed(g) = l}
           O == {Oldest(Runnable(g)) : g \in G}
<1>3. \A g \in RunnableGroups : Oldest(Runnable(g)) \in Nat
  <2>1. \A g \in RunnableGroups : Runnable(g) \in SUBSET TaskId /\ Runnable(g) # {}
    BY DEF RunnableGroups, Runnable
  <2> QED BY <2>1, OldestOf DEF TaskId
<1>4. O \in SUBSET Nat /\ O # {}
  BY <1>2, <1>3
<1>5. PICK o \in O : \A p \in O : o <= p
  BY <1>4, LeastNat
<1>6. PICK g \in G : Oldest(Runnable(g)) = o
  OBVIOUS
<1>7. ASSUME NEW h \in RunnableGroups PROVE Precedes(g, h)
  <2>1. LastClaimed(g) = l /\ l <= LastClaimed(h) /\ l \in Nat /\ LastClaimed(h) \in Nat
    BY <1>1, <1>2
  <2>2. CASE LastClaimed(h) = l
    BY <1>5, <1>6, <2>1, <2>2 DEF Precedes
  <2>3. CASE LastClaimed(h) # l
    BY <2>1, <2>3 DEF Precedes
  <2> QED BY <2>2, <2>3
<1>8. g \in RunnableGroups /\ \A h \in RunnableGroups : Precedes(g, h)
  BY <1>7
<1> QED BY <1>8 DEF FairGroup

(* The task claim_next takes is a claimable one of the fair group. *)
LEMMA ClaimChoice ==
    ASSUME StoreTypeOK, RunnableGroups # {}
    PROVE  /\ Oldest(Runnable(FairGroup)) \in TaskId
           /\ Claimable(Oldest(Runnable(FairGroup)))
           /\ task[Oldest(Runnable(FairGroup))].sub.group = FairGroup
<1>1. Runnable(FairGroup) # {} /\ Runnable(FairGroup) \in SUBSET TaskId
  BY FairGroupFirst DEF RunnableGroups, Runnable
<1>2. Oldest(Runnable(FairGroup)) \in Runnable(FairGroup)
  BY <1>1, OldestOf
<1> QED BY <1>2 DEF Runnable

----------------------------------------------------------------------------
(* updated_at only reorders the rows. *)
LEMMA TouchType ==
    ASSUME stamp \in [TaskId -> 0 .. MaxTasks], NEW t \in TaskId, Touch(t)
    PROVE  stamp' \in [TaskId -> 0 .. MaxTasks]
BY MaxTasksAssumption DEF Touch, TaskId

(* What the store's calls write into a row. *)
LEMMA WrittenRows ==
    ASSUME NEW r \in StoredTask
    PROVE  /\ /\ Claimed(r) \in StoredTask /\ Claimed(r).sub = r.sub
              /\ Claimed(r).state = "running" /\ Claimed(r).attempts = r.attempts + 1
              /\ Claimed(r).delayed = FALSE
           /\ /\ Succeeded(r) \in StoredTask /\ Succeeded(r).sub = r.sub
              /\ Succeeded(r).state = "succeeded" /\ Succeeded(r).attempts = r.attempts
              /\ Succeeded(r).delayed = FALSE
           /\ /\ Failed(r) \in StoredTask /\ Failed(r).sub = r.sub
              /\ Failed(r).state = "failed" /\ Failed(r).attempts = r.attempts
              /\ Failed(r).delayed = FALSE
           /\ /\ Retried(r) \in StoredTask /\ Retried(r).sub = r.sub
              /\ Retried(r).state = "queued" /\ Retried(r).attempts = r.attempts
           /\ /\ Cancelled(r) \in StoredTask /\ Cancelled(r).sub = r.sub
              /\ Cancelled(r).state = "cancelled" /\ Cancelled(r).attempts = r.attempts
              /\ Cancelled(r).delayed = FALSE
<1> USE DEF StoredTask, State, Active, Settled
<1>1. r.attempts + 1 \in Nat
  OBVIOUS
<1>2. /\ Claimed(r) \in StoredTask /\ Claimed(r).sub = r.sub
      /\ Claimed(r).state = "running" /\ Claimed(r).attempts = r.attempts + 1
      /\ Claimed(r).delayed = FALSE
  BY <1>1 DEF Claimed
<1>3. /\ Succeeded(r) \in StoredTask /\ Succeeded(r).sub = r.sub
      /\ Succeeded(r).state = "succeeded" /\ Succeeded(r).attempts = r.attempts
      /\ Succeeded(r).delayed = FALSE
  BY DEF Succeeded
<1>4. /\ Failed(r) \in StoredTask /\ Failed(r).sub = r.sub
      /\ Failed(r).state = "failed" /\ Failed(r).attempts = r.attempts
      /\ Failed(r).delayed = FALSE
  BY DEF Failed
<1>5. /\ Retried(r) \in StoredTask /\ Retried(r).sub = r.sub
      /\ Retried(r).state = "queued" /\ Retried(r).attempts = r.attempts
  BY DEF Retried
<1>6. /\ Cancelled(r) \in StoredTask /\ Cancelled(r).sub = r.sub
      /\ Cancelled(r).state = "cancelled" /\ Cancelled(r).attempts = r.attempts
      /\ Cancelled(r).delayed = FALSE
  BY DEF Cancelled
<1> QED BY <1>2, <1>3, <1>4, <1>5, <1>6

LEMMA NewTaskType ==
    ASSUME NEW s \in Submission
    PROVE  /\ NewTask(s) \in StoredTask /\ NewTask(s).sub = s
           /\ NewTask(s).state = "queued" /\ NewTask(s).attempts = 0
           /\ NewTask(s).delayed = FALSE
BY DEF NewTask, StoredTask, State, Active

LEMMA NoTaskType ==
    /\ NoTask \in StoredTask /\ NoTask.state = "absent" /\ NoTask.attempts = 0
    /\ NoTask.delayed = FALSE
BY SubmissionAssumption DEF NoTask, NewTask, StoredTask, State, Active

----------------------------------------------------------------------------
(* submit_many turns absent rows into queued ones and leaves the others alone. *)
LEMMA SubmitRows ==
    ASSUME StoreTypeOK, NEW batch \in Batches, SubmitMany(batch)
    PROVE  /\ StoreTypeOK'
           /\ \A t \in TaskId :
                 \/ task'[t] = task[t]
                 \/ /\ task[t].state = "absent"
                    /\ \E i \in DOMAIN batch : /\ batch[i] \in Submission
                                                /\ task'[t] = NewTask(batch[i])
<1> DEFINE fresh == Fresh(batch)
<1>1. PICK id \in [fresh -> TaskId] :
        /\ \A i \in fresh : task[id[i]].state = "absent"
        /\ task' = [t \in TaskId |->
                      IF \E i \in fresh : id[i] = t
                      THEN NewTask(batch[CHOOSE i \in fresh : id[i] = t])
                      ELSE task[t]]
        /\ UNCHANGED stamp
  BY DEF SubmitMany
<1>2. \A i \in fresh : batch[i] \in Submission
  BY BatchesAssumption DEF Fresh
<1>3. \A s \in Submission : NewTask(s) \in StoredTask
  BY DEF NewTask, StoredTask, State, Active
<1>4. ASSUME NEW t \in TaskId, \E i \in fresh : id[i] = t
      PROVE  /\ task[t].state = "absent"
             /\ \E i \in DOMAIN batch : batch[i] \in Submission /\ task'[t] = NewTask(batch[i])
  <2> DEFINE i == CHOOSE i \in fresh : id[i] = t
  <2>1. i \in fresh /\ id[i] = t /\ i \in DOMAIN batch
    BY <1>4 DEF Fresh
  <2>2. task'[t] = NewTask(batch[i])
    BY <1>1, <1>4
  <2> QED BY <1>1, <1>2, <2>1, <2>2
<1>5. ASSUME NEW t \in TaskId, ~\E i \in fresh : id[i] = t
      PROVE  task'[t] = task[t]
  BY <1>1, <1>5
<1>6. task' \in [TaskId -> StoredTask]
  BY <1>1, <1>3, <1>4, <1>5 DEF StoreTypeOK
<1> QED BY <1>1, <1>4, <1>5, <1>6 DEF StoreTypeOK

(***************************************************************************)
(* After submit_many every submission of the batch has a row with its key: *)
(* the row it was indexed by, or that of the first entry with its key.     *)
(***************************************************************************)
LEMMA SubmitCovers ==
    ASSUME StoreTypeOK, NEW batch \in Batches, SubmitMany(batch), NEW i \in DOMAIN batch
    PROVE  \E t \in TaskId : task'[t].state # "absent" /\ SameKey(task'[t].sub, batch[i])
<1> DEFINE fresh == Fresh(batch)
           same == {j \in DOMAIN batch : SameKey(batch[i], batch[j])}
<1>1. PICK id \in [fresh -> TaskId] :
        /\ \A k \in fresh : task[id[k]].state = "absent"
        /\ \A k, j \in fresh : k < j => id[k] < id[j]
        /\ task' = [t \in TaskId |->
                      IF \E k \in fresh : id[k] = t
                      THEN NewTask(batch[CHOOSE k \in fresh : id[k] = t])
                      ELSE task[t]]
  BY DEF SubmitMany
<1>2. DOMAIN batch \in SUBSET Nat /\ \A k \in DOMAIN batch : batch[k] \in Submission
  BY BatchesAssumption
<1>3. CASE Indexed(batch[i])
  <2>1. PICK t \in TaskId : task[t].state # "absent" /\ SameKey(task[t].sub, batch[i])
    BY <1>3 DEF Indexed
  <2>2. task'[t] = task[t]
    BY <1>1, <2>1
  <2> QED BY <2>1, <2>2
<1>4. CASE ~Indexed(batch[i])
  <2>1. same \in SUBSET Nat /\ same # {}
    BY <1>2 DEF SameKey
  <2>2. PICK j \in same : \A k \in same : j <= k
    BY <2>1, LeastNat
  <2>3. j \in fresh
    <3>1. ~Indexed(batch[j])
      BY <1>4 DEF Indexed, SameKey
    <3>2. ASSUME NEW k \in 1 .. j - 1, SameKey(batch[j], batch[k])
          PROVE  FALSE
      <4>1. k \in DOMAIN batch
        BY BatchesAssumption
      <4>2. k \in same
        BY <3>2, <4>1 DEF SameKey
      <4> QED BY <1>2, <2>2, <4>2
    <3> QED BY <3>1, <3>2 DEF Fresh
  <2>4. \A k \in fresh : id[k] = id[j] => k = j
    <3>1. \A k \in fresh : k \in Nat /\ id[k] \in TaskId
      BY <1>2 DEF Fresh
    <3>2. ASSUME NEW k \in fresh, id[k] = id[j], k # j PROVE FALSE
      <4>1. k < j \/ j < k
        BY <2>3, <3>1, <3>2
      <4>2. id[k] < id[j] \/ id[j] < id[k]
        BY <1>1, <2>3, <4>1
      <4> QED BY <2>3, <3>1, <3>2, <4>2 DEF TaskId
    <3> QED BY <3>2
  <2>5. (CHOOSE k \in fresh : id[k] = id[j]) = j
    BY <2>3, <2>4
  <2>6. id[j] \in TaskId /\ task'[id[j]] = NewTask(batch[j])
    BY <1>1, <2>3, <2>5
  <2>7. NewTask(batch[j]).state = "queued" /\ NewTask(batch[j]).sub = batch[j]
    BY <1>2, NewTaskType
  <2> QED BY <2>6, <2>7 DEF SameKey
<1> QED BY <1>3, <1>4
============================================================================
