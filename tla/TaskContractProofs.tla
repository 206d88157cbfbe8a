------------------------- MODULE TaskContractProofs -------------------------
(***************************************************************************)
(* TaskExecutor implements TaskContract: the proof that its initial states *)
(* map to initial states of the contract and each of its steps to a step   *)
(* of the contract or to a stutter, for any number of processes, tasks,    *)
(* keys and attempts; and the fate of a backend lease.                     *)
(***************************************************************************)
EXTENDS TaskSafetyProofs

(* The variables of the contract, as the refinement mapping gives them. *)
Status  == [k \in Key |-> KeyStatus(k)]
Working == [k \in Key |-> \E t \in RowsOf(k) : Holders(t) # {}]
Tries   == [k \in Key |-> IF RowsOf(k) = {} THEN 0 ELSE task[Oldest(RowsOf(k))].attempts]

KeyOf(s) == <<s.tenant, s.key>>

RowStatus(r) == IF r.state \in Active THEN "pending" ELSE r.state

(* Each key shows its one row, or that it has none. *)
RowsViewed ==
    \A t \in TaskId : task[t].state # "absent" =>
        /\ KeyOf(task[t].sub) \in Key
        /\ RowsOf(KeyOf(task[t].sub)) = {t}
        /\ Status[KeyOf(task[t].sub)] = RowStatus(task[t])
        /\ Working[KeyOf(task[t].sub)] = (Holders(t) # {})
        /\ Tries[KeyOf(task[t].sub)] = task[t].attempts

OthersViewed ==
    \A k \in Key :
        \/ /\ RowsOf(k) = {}
           /\ Status[k] = "unknown" /\ Working[k] = FALSE /\ Tries[k] = 0
        \/ \E t \in TaskId : task[t].state # "absent" /\ k = KeyOf(task[t].sub)

KeysViewed == RowsViewed /\ OthersViewed

LEMMA KeyView == KInv => KeysViewed
<1> SUFFICES ASSUME KInv PROVE KeysViewed
  OBVIOUS
<1> USE DEF KInv, TypeInv, TypeOK
<1>1. ASSUME NEW t \in TaskId, task[t].state # "absent"
      PROVE  /\ KeyOf(task[t].sub) \in Key
             /\ RowsOf(KeyOf(task[t].sub)) = {t}
             /\ Status[KeyOf(task[t].sub)] = RowStatus(task[t])
             /\ Working[KeyOf(task[t].sub)] = (Holders(t) # {})
             /\ Tries[KeyOf(task[t].sub)] = task[t].attempts
  <2> DEFINE k == KeyOf(task[t].sub)
  <2>1. k \in Key
    <3>1. task[t].sub \in Submission
      BY DEF StoreTypeOK, StoredTask
    <3> QED BY <3>1 DEF Key, KeyOf
  <2>2. RowsOf(k) = {t}
    BY <1>1 DEF RowsOf, KeyOf, OneTaskPerKey, SameKey
  <2>3. Oldest(RowsOf(k)) = t
    <3>1. t <= t
      BY DEF TaskId
    <3> QED BY <2>2, <3>1 DEF Oldest
  <2> HIDE DEF k
  <2>4. Status[k] = RowStatus(task[t])
    BY <2>1, <2>2, <2>3 DEF Status, KeyStatus, RowStatus
  <2>5. Working[k] = (Holders(t) # {})
    BY <2>1, <2>2 DEF Working
  <2>6. Tries[k] = task[t].attempts
    BY <2>1, <2>2, <2>3 DEF Tries
  <2> QED BY <2>1, <2>2, <2>4, <2>5, <2>6 DEF k
<1>2. ASSUME NEW k \in Key,
             ~\E t \in TaskId : task[t].state # "absent" /\ k = KeyOf(task[t].sub)
      PROVE  RowsOf(k) = {} /\ Status[k] = "unknown" /\ Working[k] = FALSE /\ Tries[k] = 0
  <2>1. RowsOf(k) = {}
    BY <1>2 DEF RowsOf, KeyOf
  <2> QED BY <2>1 DEF Status, KeyStatus, Working, Tries
<1> QED BY <1>1, <1>2 DEF KeysViewed, RowsViewed, OthersViewed

LEMMA KeyViewNext == KInv' => KeysViewed'
BY KeyView, PTL

(* Two functions on the keys agree when they agree on every key. *)
LEMMA SameViews ==
    ASSUME \A k \in Key : /\ Status'[k] = Status[k]
                          /\ Working'[k] = Working[k]
                          /\ Tries'[k] = Tries[k]
    PROVE  UNCHANGED <<Status, Working, Tries>>
BY DEF Status, Working, Tries

(* A step that changes nothing a key shows but for the key of row t. *)
LEMMA OneKeyStep ==
    ASSUME KInv, KInv', SameRows, NEW t \in TaskId, task[t].state # "absent",
           \A u \in TaskId \ {t} : /\ task'[u].state = task[u].state
                                   /\ task'[u].attempts = task[u].attempts
                                   /\ Holders(u)' # {} <=> Holders(u) # {}
    PROVE  LET k == KeyOf(task[t].sub)
           IN  /\ k \in Key
               /\ Status[k] = RowStatus(task[t])
               /\ Working[k] = (Holders(t) # {})
               /\ Tries[k] = task[t].attempts
               /\ Status' = [Status EXCEPT ![k] = RowStatus(task'[t])]
               /\ Working' = [Working EXCEPT ![k] = (Holders(t)' # {})]
               /\ Tries' = [Tries EXCEPT ![k] = task'[t].attempts]
<1> DEFINE k == KeyOf(task[t].sub)
<1>1. KeysViewed /\ KeysViewed'
  BY KeyView, KeyViewNext
<1>2. \A u \in TaskId : /\ task'[u].sub = task[u].sub
                        /\ task'[u].state = "absent" <=> task[u].state = "absent"
  BY DEF SameRows
<1>3. /\ k \in Key
      /\ Status[k] = RowStatus(task[t])
      /\ Working[k] = (Holders(t) # {})
      /\ Tries[k] = task[t].attempts
  BY <1>1 DEF KeysViewed, RowsViewed
<1>4. /\ Status'[k] = RowStatus(task'[t])
      /\ Working'[k] = (Holders(t)' # {})
      /\ Tries'[k] = task'[t].attempts
  BY <1>1, <1>2 DEF KeysViewed, RowsViewed
<1>5. ASSUME NEW m \in Key, m # k
      PROVE  Status'[m] = Status[m] /\ Working'[m] = Working[m] /\ Tries'[m] = Tries[m]
  <2>1. CASE \E u \in TaskId : task[u].state # "absent" /\ m = KeyOf(task[u].sub)
    <3>1. PICK u \in TaskId : task[u].state # "absent" /\ m = KeyOf(task[u].sub)
      BY <2>1
    <3>2. u # t
      BY <1>5, <3>1
    <3>3. /\ Status[m] = RowStatus(task[u]) /\ Working[m] = (Holders(u) # {})
          /\ Tries[m] = task[u].attempts
      BY <1>1, <3>1 DEF KeysViewed, RowsViewed
    <3>4. /\ Status'[m] = RowStatus(task'[u]) /\ Working'[m] = (Holders(u)' # {})
          /\ Tries'[m] = task'[u].attempts
      BY <1>1, <1>2, <3>1 DEF KeysViewed, RowsViewed
    <3>5. RowStatus(task'[u]) = RowStatus(task[u])
      BY <3>2 DEF RowStatus
    <3>6. (Holders(u)' # {}) = (Holders(u) # {})
      BY <3>2
    <3> QED BY <3>2, <3>3, <3>4, <3>5, <3>6
  <2>2. CASE ~\E u \in TaskId : task[u].state # "absent" /\ m = KeyOf(task[u].sub)
    BY <1>1, <1>2, <2>2 DEF KeysViewed, OthersViewed
  <2> QED BY <2>1, <2>2
<1> HIDE DEF k
<1>6. Status' = [Status EXCEPT ![k] = RowStatus(task'[t])]
  BY <1>3, <1>4, <1>5 DEF Status
<1>7. Working' = [Working EXCEPT ![k] = (Holders(t)' # {})]
  BY <1>3, <1>4, <1>5 DEF Working
<1>8. Tries' = [Tries EXCEPT ![k] = task'[t].attempts]
  BY <1>3, <1>4, <1>5 DEF Tries
<1> QED BY <1>3, <1>6, <1>7, <1>8 DEF k

----------------------------------------------------------------------------
(* The contract's actions, in the terms of the mapping. *)
LEMMA ContractActions ==
    ASSUME NEW k \in Key
    PROVE  /\ /\ Status[k] = "pending" /\ ~Working[k] /\ Tries[k] < MaxAttempts
              /\ Working' = [Working EXCEPT ![k] = TRUE]
              /\ Tries' = [Tries EXCEPT ![k] = Tries[k] + 1]
              /\ Status' = Status
              => Contract!Begin(k)
           /\ /\ Working[k]
              /\ \E o \in {"succeeded", "failed"} : Status' = [Status EXCEPT ![k] = o]
              /\ Working' = [Working EXCEPT ![k] = FALSE]
              /\ Tries' = Tries
              => Contract!Finish(k)
           /\ /\ Working[k] /\ Tries[k] < MaxAttempts
              /\ Status' = [Status EXCEPT ![k] = "pending"]
              /\ Working' = [Working EXCEPT ![k] = FALSE]
              /\ Tries' = Tries
              => Contract!GiveBack(k)
           /\ /\ Status[k] = "pending"
              /\ Status' = [Status EXCEPT ![k] = "cancelled"]
              /\ Working' = Working
              /\ Tries' = Tries
              => Contract!Cancel(k)
           /\ /\ Working[k]
              /\ Working' = [Working EXCEPT ![k] = FALSE]
              /\ Status' = Status
              /\ Tries' = Tries
              => Contract!Abandon(k)
<1>1. /\ Status[k] = "pending" /\ ~Working[k] /\ Tries[k] < MaxAttempts
      /\ Working' = [Working EXCEPT ![k] = TRUE]
      /\ Tries' = [Tries EXCEPT ![k] = Tries[k] + 1]
      /\ Status' = Status
      => Contract!Begin(k)
  BY DEF Contract!Begin, Status, Working, Tries
<1>2. /\ Working[k]
      /\ \E o \in {"succeeded", "failed"} : Status' = [Status EXCEPT ![k] = o]
      /\ Working' = [Working EXCEPT ![k] = FALSE]
      /\ Tries' = Tries
      => Contract!Finish(k)
  BY DEF Contract!Finish, Status, Working, Tries
<1>3. /\ Working[k] /\ Tries[k] < MaxAttempts
      /\ Status' = [Status EXCEPT ![k] = "pending"]
      /\ Working' = [Working EXCEPT ![k] = FALSE]
      /\ Tries' = Tries
      => Contract!GiveBack(k)
  BY DEF Contract!GiveBack, Status, Working, Tries
<1>4. /\ Status[k] = "pending"
      /\ Status' = [Status EXCEPT ![k] = "cancelled"]
      /\ Working' = Working
      /\ Tries' = Tries
      => Contract!Cancel(k)
  BY DEF Contract!Cancel, Status, Working, Tries
<1>5. /\ Working[k]
      /\ Working' = [Working EXCEPT ![k] = FALSE]
      /\ Status' = Status
      /\ Tries' = Tries
      => Contract!Abandon(k)
  BY DEF Contract!Abandon, Status, Working, Tries
<1> QED BY <1>1, <1>2, <1>3, <1>4, <1>5

Stutter == UNCHANGED <<Status, Working, Tries>>

(* Writing a function's own value changes nothing. *)
LEMMA SameValue ==
    ASSUME NEW k \in Key
    PROVE  /\ [Status EXCEPT ![k] = Status[k]] = Status
           /\ [Working EXCEPT ![k] = Working[k]] = Working
           /\ [Tries EXCEPT ![k] = Tries[k]] = Tries
BY DEF Status, Working, Tries

(* The step of e leaves the holders of all rows but t alone. *)
LEMMA OthersHeld ==
    ASSUME NEW e \in Exec, NEW t,
           \A f \in Exec \ {e} : exec'[f] = exec[f],
           Holding(e) => exec[e].tid = t,
           Holding(e)' => exec'[e].tid = t
    PROVE  \A u \in TaskId \ {t} : Holders(u)' = Holders(u)
BY DEF Holders, Holding

(* claim_next begins an execution of a pending key that no one works on. *)
LEMMA ClaimBegins ==
    ASSUME IInv, KInv, KInv', NEW e \in Exec, ClaimNext(e)
    PROVE  \E k \in Key : Contract!Begin(k)
<1> USE DEF IInv, TypeInv, TypeOK
<1>1. PICK t \in exec[e].snap :
        /\ Claimable(t)
        /\ Claim(t)
        /\ exec' = [exec EXCEPT ![e] =
              [Rest EXCEPT
                  !.pc = IF task[t].sub.valid THEN "resolving" ELSE "recording",
                  !.outcome = IF task[t].sub.valid THEN "none" ELSE "permanent",
                  !.tid = t,
                  !.seen = task[t].attempts + 1]]
  BY DEF ClaimNext
<1>2. t \in TaskId /\ task[t].state = "queued" /\ task[t] \in StoredTask
  BY <1>1 DEF Frame, Claimable, StoreTypeOK
<1>3. /\ task'[t].state = "running" /\ task'[t].attempts = task[t].attempts + 1
      /\ \A u \in TaskId \ {t} : task'[u] = task[u]
  BY <1>1, <1>2 DEF Claim, Claimed, StoreTypeOK, StoredTask
<1>4. /\ exec'[e].pc \in {"resolving", "recording"} /\ exec'[e].tid = t
      /\ \A f \in Exec \ {e} : exec'[f] = exec[f]
  BY <1>1 DEF Rest
<1>5. SameRows
  BY <1>1, <1>2, CallSameRows
<1>6. ~Holding(e) /\ Holding(e)'
  BY <1>4 DEF ClaimNext, At, Holding
<1>7. \A u \in TaskId \ {t} : Holders(u)' = Holders(u)
  BY <1>4, <1>6, OthersHeld
<1>8. Holders(t) = {} /\ Holders(t)' # {}
  BY <1>2, <1>4, <1>6 DEF HeldRow, Holders
<1> DEFINE k == KeyOf(task[t].sub)
<1>9. /\ k \in Key
      /\ Status[k] = RowStatus(task[t])
      /\ Working[k] = (Holders(t) # {})
      /\ Tries[k] = task[t].attempts
      /\ Status' = [Status EXCEPT ![k] = RowStatus(task'[t])]
      /\ Working' = [Working EXCEPT ![k] = (Holders(t)' # {})]
      /\ Tries' = [Tries EXCEPT ![k] = task'[t].attempts]
  BY <1>2, <1>3, <1>5, <1>7, OneKeyStep
<1> HIDE DEF k
<1>10. RowStatus(task[t]) = "pending" /\ RowStatus(task'[t]) = "pending"
  BY <1>2, <1>3 DEF RowStatus, Active
<1>11. task[t].attempts < MaxAttempts
  BY <1>2 DEF RowsOK, AttemptsBounded
<1>12. Status' = Status
  BY <1>9, <1>10, SameValue
<1>13. Working[k] = FALSE /\ Working' = [Working EXCEPT ![k] = TRUE]
  <2>1. (Holders(t) # {}) = FALSE /\ (Holders(t)' # {}) = TRUE
    BY <1>8
  <2> QED BY <1>9, <2>1
<1>14. Tries[k] < MaxAttempts /\ Tries' = [Tries EXCEPT ![k] = Tries[k] + 1]
  BY <1>3, <1>9, <1>11
<1>15. Contract!Begin(k)
  BY <1>9, <1>10, <1>12, <1>13, <1>14, ContractActions
<1> QED BY <1>9, <1>15

(* Recording an outcome finishes the execution of the key, or gives the key back. *)
LEMMA RecordFinishes ==
    ASSUME IInv, KInv, KInv', NEW e \in Exec, Record(e) \/ Recover(e)
    PROVE  \E k \in Key : Contract!Finish(k) \/ Contract!GiveBack(k)
<1> USE DEF IInv, TypeInv, TypeOK
<1>1. Holding(e) /\ exec[e].tid \in TaskId
  BY DEF Record, Recover, At, Holding, Engaged
<1>0. PICK t \in TaskId : t = exec[e].tid
  BY <1>1
<1>2. task[t] \in StoredTask /\ exec[e].seen = task[t].attempts
      /\ task[t].state \in {"running", "cancelled"}
  BY <1>0, <1>1 DEF StoreTypeOK, HeldRow
<1>3. \A u \in TaskId \ {t} : task'[u] = task[u]
  BY <1>0, <1>1, RecordedRow DEF Record, Recover
<1>4. /\ task'[t].attempts = task[t].attempts
      /\ \/ task'[t].state \in {"succeeded", "failed"}
         \/ task'[t].state = "queued" /\ task[t].attempts < MaxAttempts
      /\ SameRows
  <2>1. \/ RecordResult(t) \/ RecordError(t)
        \/ RecordRetry(t) /\ exec[e].seen < MaxAttempts
    BY <1>0 DEF Record, Recover, RecordFailure
  <2>2. SameRows
    BY <1>2, <2>1, CallSameRows
  <2>3. CASE RecordResult(t)
    BY <1>2, <2>2, <2>3 DEF RecordResult, Succeeded, StoreTypeOK, StoredTask
  <2>4. CASE RecordError(t)
    BY <1>2, <2>2, <2>4 DEF RecordError, Failed, StoreTypeOK, StoredTask
  <2>5. CASE RecordRetry(t) /\ exec[e].seen < MaxAttempts
    BY <1>2, <2>2, <2>5 DEF RecordRetry, Retried, StoreTypeOK, StoredTask
  <2> QED BY <2>1, <2>3, <2>4, <2>5
<1>5. ~Holding(e)' /\ \A f \in Exec \ {e} : exec'[f] = exec[f]
  <2>1. \/ exec' = [exec EXCEPT ![e].pc = "refreshing", ![e].outcome = "done"]
        \/ exec' = [exec EXCEPT ![e].pc = "recovered", ![e].outcome = "done"]
    BY DEF Record, Recover
  <2>2. exec[e] \in Frame
    OBVIOUS
  <2> QED BY <2>1, <2>2 DEF Frame, Holding
<1>6. \A u \in TaskId \ {t} : Holders(u)' = Holders(u)
  BY <1>0, <1>5, OthersHeld
<1>7. Holders(t) # {} /\ Holders(t)' = {}
  <2>1. \A f \in Exec \ {e} : Holding(f)' => Holding(f) /\ exec'[f].tid # t
    BY <1>0, <1>1, <1>5 DEF Holding, Exclusive
  <2> QED BY <1>0, <1>1, <1>5, <2>1 DEF Holders
<1> DEFINE k == KeyOf(task[t].sub)
<1>8. /\ k \in Key
      /\ Working[k] = (Holders(t) # {})
      /\ Tries[k] = task[t].attempts
      /\ Status' = [Status EXCEPT ![k] = RowStatus(task'[t])]
      /\ Working' = [Working EXCEPT ![k] = (Holders(t)' # {})]
      /\ Tries' = [Tries EXCEPT ![k] = task'[t].attempts]
  BY <1>2, <1>3, <1>4, <1>6, OneKeyStep
<1> HIDE DEF k
<1>9. Working[k] = TRUE /\ Working' = [Working EXCEPT ![k] = FALSE] /\ Tries' = Tries
  <2>1. (Holders(t) # {}) = TRUE /\ (Holders(t)' # {}) = FALSE
    BY <1>7
  <2> QED BY <1>4, <1>8, <2>1, SameValue
<1>10. CASE task'[t].state \in {"succeeded", "failed"}
  <2>1. RowStatus(task'[t]) \in {"succeeded", "failed"}
    BY <1>10 DEF RowStatus, Active
  <2>2. \E o \in {"succeeded", "failed"} : Status' = [Status EXCEPT ![k] = o]
    BY <1>8, <2>1
  <2>3. Contract!Finish(k)
    BY <1>8, <1>9, <2>2, ContractActions
  <2> QED BY <1>8, <2>3
<1>11. CASE task'[t].state = "queued" /\ task[t].attempts < MaxAttempts
  <2>1. RowStatus(task'[t]) = "pending"
    BY <1>11 DEF RowStatus, Active
  <2>2. Contract!GiveBack(k)
    BY <1>8, <1>9, <1>11, <2>1, ContractActions
  <2> QED BY <1>8, <2>2
<1> QED BY <1>4, <1>10, <1>11

(* A cancel of a row is a cancel of its pending key. *)
LEMMA CancelCancels ==
    ASSUME KInv, KInv', NEW t \in TaskId, NEW tenant \in Tenant, Cancel(tenant, t)
    PROVE  \E k \in Key : Contract!Cancel(k)
<1> USE DEF KInv, TypeInv, TypeOK
<1>1. /\ task[t].state \in Active /\ task[t] \in StoredTask
      /\ task' = [task EXCEPT ![t] = Cancelled(task[t])]
      /\ exec' = exec
  BY DEF Cancel, CancelTask, StoreTypeOK
<1>2. /\ task'[t].state = "cancelled" /\ task'[t].attempts = task[t].attempts
      /\ \A u \in TaskId \ {t} : task'[u] = task[u]
  BY <1>1 DEF Cancelled, StoreTypeOK, StoredTask
<1>3. SameRows
  BY CallSameRows DEF Cancel
<1>4. \A u \in TaskId : Holders(u)' = Holders(u)
  BY <1>1 DEF Holders, Holding
<1> DEFINE k == KeyOf(task[t].sub)
<1>5. /\ k \in Key
      /\ Status[k] = RowStatus(task[t])
      /\ Working[k] = (Holders(t) # {})
      /\ Tries[k] = task[t].attempts
      /\ Status' = [Status EXCEPT ![k] = RowStatus(task'[t])]
      /\ Working' = [Working EXCEPT ![k] = (Holders(t)' # {})]
      /\ Tries' = [Tries EXCEPT ![k] = task'[t].attempts]
  BY <1>1, <1>2, <1>3, <1>4, OneKeyStep DEF Active
<1> HIDE DEF k
<1>6. RowStatus(task[t]) = "pending" /\ RowStatus(task'[t]) = "cancelled"
  BY <1>1, <1>2 DEF RowStatus, Active
<1>7. Working' = Working /\ Tries' = Tries
  <2>1. (Holders(t)' # {}) = (Holders(t) # {})
    BY <1>4
  <2> QED BY <1>2, <1>5, <2>1, SameValue
<1>8. Contract!Cancel(k)
  BY <1>5, <1>6, <1>7, ContractActions
<1> QED BY <1>5, <1>8

(* A step that neither claims nor records: a process that stops abandons its key. *)
LEMMA QuietAbandons ==
    ASSUME IInv, KInv, KInv', NEW e \in Exec, UNCHANGED storeVars, HoldersKeep,
           \A f \in Exec \ {e} : exec'[f] = exec[f]
    PROVE  Stutter \/ \E k \in Key : Contract!Abandon(k)
<1> USE DEF IInv, TypeInv, TypeOK
<1>1. SameRows /\ task' = task
  BY DEF SameRows, storeVars
<1>2. CASE Holding(e) /\ ~Holding(e)'
  <2>0. exec[e].tid \in TaskId
    BY <1>2 DEF Holding, Engaged
  <2>1. PICK t \in TaskId : t = exec[e].tid
    BY <2>0
  <2>2. \A u \in TaskId \ {t} : Holders(u)' = Holders(u)
    BY <1>2, <2>1, OthersHeld
  <2>3. Holders(t) # {} /\ Holders(t)' = {}
    <3>1. \A f \in Exec \ {e} : Holding(f)' => Holding(f) /\ exec'[f].tid # t
      BY <1>2, <2>1 DEF Holding, Exclusive
    <3> QED BY <1>2, <2>1, <3>1 DEF Holders
  <2>4. task[t].state # "absent"
    BY <1>2, <2>1 DEF HeldRow
  <2> DEFINE k == KeyOf(task[t].sub)
  <2>5. /\ k \in Key
        /\ Status[k] = RowStatus(task[t])
        /\ Working[k] = (Holders(t) # {})
        /\ Tries[k] = task[t].attempts
        /\ Status' = [Status EXCEPT ![k] = RowStatus(task'[t])]
        /\ Working' = [Working EXCEPT ![k] = (Holders(t)' # {})]
        /\ Tries' = [Tries EXCEPT ![k] = task'[t].attempts]
    BY <1>1, <2>2, <2>4, OneKeyStep
  <2> HIDE DEF k
  <2>6. Status' = Status /\ Tries' = Tries
    BY <1>1, <2>5, SameValue
  <2>7. Working[k] = TRUE /\ Working' = [Working EXCEPT ![k] = FALSE]
    <3>1. (Holders(t) # {}) = TRUE /\ (Holders(t)' # {}) = FALSE
      BY <2>3
    <3> QED BY <2>5, <3>1
  <2>8. Contract!Abandon(k)
    BY <2>5, <2>6, <2>7, ContractActions
  <2> QED BY <2>5, <2>8
<1>3. CASE ~(Holding(e) /\ ~Holding(e)')
  <2>1. \A f \in Exec : /\ Holding(f)' <=> Holding(f)
                        /\ Holding(f) => exec'[f].tid = exec[f].tid
    BY <1>3 DEF HoldersKeep, Holding
  <2>2. \A u \in TaskId : Holders(u)' = Holders(u)
    BY <2>1 DEF Holders
  <2>3. \A k \in Key : RowsOf(k)' = RowsOf(k)
    BY <1>1 DEF RowsOf
  <2>4. Status' = Status /\ Tries' = Tries
    BY <1>1, <2>3 DEF Status, KeyStatus, Tries
  <2>5. Working' = Working
    <3>1. \A k \in Key : (\E t \in RowsOf(k) : Holders(t) # {})'
                            = (\E t \in RowsOf(k) : Holders(t) # {})
      BY <2>2, <2>3 DEF RowsOf
    <3> QED BY <3>1 DEF Working
  <2> QED BY <2>4, <2>5 DEF Stutter
<1> QED BY <1>2, <1>3

(* The clock shows at no key. *)
LEMMA WaitStutters ==
    ASSUME KInv, KInv', NEW t \in TaskId, Wait(t)
    PROVE  Stutter
<1> USE DEF KInv, TypeInv, TypeOK
<1>1. \A u \in TaskId : /\ task'[u].state = task[u].state
                        /\ task'[u].attempts = task[u].attempts
                        /\ task'[u].sub = task[u].sub
  BY DEF Wait, Elapse, StoreTypeOK, StoredTask
<1>2. \A u \in TaskId : Holders(u)' = Holders(u)
  BY DEF Wait, Holders, Holding
<1>3. KeysViewed /\ KeysViewed'
  BY KeyView, KeyViewNext
<1>4. ASSUME NEW k \in Key
      PROVE  Status'[k] = Status[k] /\ Working'[k] = Working[k] /\ Tries'[k] = Tries[k]
  <2>1. CASE \E u \in TaskId : task[u].state # "absent" /\ k = KeyOf(task[u].sub)
    <3>1. PICK u \in TaskId : task[u].state # "absent" /\ k = KeyOf(task[u].sub)
      BY <2>1
    <3>2. /\ Status[k] = RowStatus(task[u]) /\ Working[k] = (Holders(u) # {})
          /\ Tries[k] = task[u].attempts
      BY <1>3, <3>1 DEF KeysViewed, RowsViewed
    <3>3. /\ Status'[k] = RowStatus(task'[u]) /\ Working'[k] = (Holders(u)' # {})
          /\ Tries'[k] = task'[u].attempts
      BY <1>1, <1>3, <3>1 DEF KeysViewed, RowsViewed
    <3>4. RowStatus(task'[u]) = RowStatus(task[u]) /\ (Holders(u)' # {}) = (Holders(u) # {})
      BY <1>1, <1>2 DEF RowStatus
    <3> QED BY <1>1, <3>2, <3>3, <3>4
  <2>2. CASE ~\E u \in TaskId : task[u].state # "absent" /\ k = KeyOf(task[u].sub)
    BY <1>1, <1>3, <2>2 DEF KeysViewed, OthersViewed
  <2> QED BY <2>1, <2>2
<1> QED BY <1>4, SameViews DEF Stutter

(* submit_many accepts the keys of its new rows. *)
LEMMA SubmitAccepts ==
    ASSUME KInv, KInv', NEW batch \in Batches, Submit(batch)
    PROVE  \E K \in SUBSET Contract!New : Contract!Accept(K)
<1> USE DEF KInv, TypeInv, TypeOK
<1>1. /\ exec' = exec
      /\ \A t \in TaskId : \/ task'[t] = task[t]
                           \/ /\ task[t].state = "absent"
                              /\ task'[t].state = "queued"
                              /\ task'[t].attempts = 0
  <2>1. \A t \in TaskId : \/ task'[t] = task[t]
                          \/ /\ task[t].state = "absent"
                             /\ \E s \in Submission : task'[t] = NewTask(s)
    BY SubmitRows DEF Submit
  <2>2. \A s \in Submission : NewTask(s).state = "queued" /\ NewTask(s).attempts = 0
    BY DEF NewTask
  <2> QED BY <2>1, <2>2 DEF Submit
<1>2. KeysViewed /\ KeysViewed'
  BY KeyView, KeyViewNext
<1>3. \A t \in TaskId : Holders(t)' = Holders(t)
  BY <1>1 DEF Holders, Holding
<1>4. \A t \in TaskId : task[t].state = "absent" => Holders(t) = {}
  BY DEF NamedExists, Holders, TaskId, NoTid
<1> DEFINE NewRows == {t \in TaskId : task[t].state = "absent" /\ task'[t].state # "absent"}
           K == {KeyOf(task'[t].sub) : t \in NewRows}
<1>5. ASSUME NEW t \in NewRows
      PROVE  LET k == KeyOf(task'[t].sub)
             IN  /\ k \in Key
                 /\ Status[k] = "unknown"
                 /\ Status'[k] = "pending"
                 /\ Working[k] = FALSE /\ Working'[k] = FALSE
                 /\ Tries[k] = 0 /\ Tries'[k] = 0
  <2> DEFINE k == KeyOf(task'[t].sub)
  <2>1. task[t].state = "absent" /\ task'[t].state = "queued" /\ task'[t].attempts = 0
    BY <1>1
  <2>2. /\ k \in Key /\ Status'[k] = RowStatus(task'[t])
        /\ Working'[k] = (Holders(t)' # {}) /\ Tries'[k] = task'[t].attempts
    BY <1>2, <2>1 DEF KeysViewed, RowsViewed
  <2>3. RowStatus(task'[t]) = "pending" /\ (Holders(t)' # {}) = FALSE
    BY <1>3, <1>4, <2>1 DEF RowStatus, Active
  <2>4. ~\E u \in TaskId : task[u].state # "absent" /\ k = KeyOf(task[u].sub)
    <3> SUFFICES ASSUME NEW u \in TaskId, task[u].state # "absent", k = KeyOf(task[u].sub)
                 PROVE  FALSE
      OBVIOUS
    <3>1. u # t /\ task'[u] = task[u]
      BY <1>1, <2>1
    <3>2. SameKey(task'[u].sub, task'[t].sub)
      BY <3>1 DEF SameKey, KeyOf
    <3> QED BY <2>1, <3>1, <3>2 DEF OneTaskPerKey
  <2>5. Status[k] = "unknown" /\ Working[k] = FALSE /\ Tries[k] = 0
    BY <1>2, <2>2, <2>4 DEF KeysViewed, OthersViewed
  <2> QED BY <2>1, <2>2, <2>3, <2>5
<1>6. ASSUME NEW k \in Key, k \notin K
      PROVE  Status'[k] = Status[k] /\ Working'[k] = Working[k] /\ Tries'[k] = Tries[k]
  <2>1. CASE \E u \in TaskId : task[u].state # "absent" /\ k = KeyOf(task[u].sub)
    <3>1. PICK u \in TaskId : task[u].state # "absent" /\ k = KeyOf(task[u].sub)
      BY <2>1
    <3>2. task'[u] = task[u]
      BY <1>1, <3>1
    <3>3. /\ Status[k] = RowStatus(task[u]) /\ Working[k] = (Holders(u) # {})
          /\ Tries[k] = task[u].attempts
      BY <1>2, <3>1 DEF KeysViewed, RowsViewed
    <3>4. /\ Status'[k] = RowStatus(task'[u]) /\ Working'[k] = (Holders(u)' # {})
          /\ Tries'[k] = task'[u].attempts
      BY <1>2, <3>1, <3>2 DEF KeysViewed, RowsViewed
    <3>5. (Holders(u)' # {}) = (Holders(u) # {})
      BY <1>3
    <3> QED BY <3>2, <3>3, <3>4, <3>5
  <2>2. CASE ~\E u \in TaskId : task[u].state # "absent" /\ k = KeyOf(task[u].sub)
    <3>1. ~\E u \in TaskId : task'[u].state # "absent" /\ k = KeyOf(task'[u].sub)
      BY <1>1, <1>6, <2>2
    <3> QED BY <1>2, <2>2, <3>1 DEF KeysViewed, OthersViewed
  <2> QED BY <2>1, <2>2
<1>7. K \subseteq Key /\ \A k \in K : /\ Status[k] = "unknown" /\ Status'[k] = "pending"
                                      /\ Working'[k] = Working[k] /\ Tries'[k] = Tries[k]
  BY <1>5
<1> HIDE DEF K
<1>8. /\ Status' = [k \in Key |-> IF k \in K THEN "pending" ELSE Status[k]]
      /\ Working' = Working /\ Tries' = Tries
  BY <1>6, <1>7 DEF Status, Working, Tries
<1>9. K \in SUBSET Contract!New
  BY <1>7 DEF Contract!New, Status
<1>10. Contract!Accept(K)
  BY <1>8 DEF Contract!Accept, Status, Working, Tries
<1> QED BY <1>9, <1>10

(* Which frames a process's step may change. *)
LEMMA OwnFrameOnly ==
    ASSUME TypeInv, NEW e \in Exec, ExecStep(e) \/ ExecFault(e)
    PROVE  \A f \in Exec \ {e} : exec'[f] = exec[f]
<1> USE DEF TypeInv, TypeOK, EndIteration, Die, Goto, Raised
<1>1. CASE SelectRunnable(e) \/ ClaimNothing(e) \/ ClaimNext(e) \/ ClaimRaises(e)
  BY <1>1 DEF SelectRunnable, ClaimNothing, ClaimNext, ClaimRaises
<1>2. CASE NoBackend(e) \/ BackendResolved(e) \/ ResolveRaises(e)
  BY <1>2 DEF NoBackend, BackendResolved, ResolveRaises
<1>3. CASE PostFails(e) \/ PostAnswered(e) \/ PostRaises(e) \/ Release(e)
  BY <1>3 DEF PostFails, PostAnswered, PostRaises, Release
<1>4. CASE Record(e) \/ RecordRaises(e) \/ Refresh(e) \/ RefreshRaises(e)
  BY <1>4 DEF Record, RecordRaises, Refresh, RefreshRaises
<1>5. CASE Recover(e) \/ RecoverRaises(e) \/ RecoverRefresh(e) \/ RecoverRefreshRaises(e)
           \/ Restart(e)
  BY <1>5 DEF Recover, RecoverRaises, RecoverRefresh, RecoverRefreshRaises, Restart
<1> QED BY <1>1, <1>2, <1>3, <1>4, <1>5 DEF ExecStep, ExecFault

LEMMA InitKInv == Init => KInv
<1> SUFFICES ASSUME Init PROVE KInv
  OBVIOUS
<1>1. \A t \in TaskId : task[t].state = "absent"
  BY DEF Init, StoreInit, NoTask, NewTask
<1>2. \A e \in Exec : exec[e].tid = NoTid
  BY DEF Init, Rest
<1> QED BY <1>1, <1>2, InitTypeInv DEF KInv, NamedExists, OneTaskPerKey

LEMMA InitContract == Init => Contract!Init
<1> SUFFICES ASSUME Init PROVE Contract!Init
  OBVIOUS
<1>1. \A t \in TaskId : task[t].state = "absent"
  BY DEF Init, StoreInit, NoTask, NewTask
<1>2. \A k \in Key : RowsOf(k) = {}
  BY <1>1 DEF RowsOf
<1> QED BY <1>2 DEF Contract!Init, KeyStatus

LEMMA NextContract ==
    ASSUME "refresh" \notin FaultPoints, IInv, KInv, KInv', [Next]_vars
    PROVE  [Contract!Next]_(Contract!contractVars)
<1>1. CASE \E e \in Exec : ExecStep(e) \/ ExecFault(e)
  <2>1. PICK e \in Exec : ExecStep(e) \/ ExecFault(e)
    BY <1>1
  <2>2. CASE ClaimNext(e)
    BY <2>2, ClaimBegins DEF Contract!Next
  <2>3. CASE Record(e) \/ Recover(e)
    BY <2>3, RecordFinishes DEF Contract!Next
  <2>4. CASE ~ClaimNext(e) /\ ~Record(e) /\ ~Recover(e)
    <3>1. UNCHANGED storeVars /\ HoldersKeep
      BY <2>1, <2>4, QuietActions DEF ExecStep
    <3>2. \A f \in Exec \ {e} : exec'[f] = exec[f]
      BY <2>1, OwnFrameOnly DEF IInv
    <3>3. Stutter \/ \E k \in Key : Contract!Abandon(k)
      BY <3>1, <3>2, QuietAbandons
    <3> QED BY <3>3 DEF Contract!Next, Contract!contractVars, Stutter, Status, Working, Tries
  <2> QED BY <2>2, <2>3, <2>4
<1>2. CASE \E batch \in Batches : Submit(batch)
  BY <1>2, SubmitAccepts DEF Contract!Next
<1>3. CASE \E tenant \in Tenant, t \in TaskId : Cancel(tenant, t)
  BY <1>3, CancelCancels DEF Contract!Next
<1>4. CASE \E t \in TaskId : Wait(t)
  BY <1>4, WaitStutters DEF Contract!contractVars, Stutter, Status, Working, Tries
<1>5. CASE UNCHANGED vars
  BY <1>5 DEF vars, Contract!contractVars, KeyStatus, RowsOf, Holders, Holding, Oldest
<1> QED BY <1>1, <1>2, <1>3, <1>4, <1>5 DEF Next

(***************************************************************************)
(* The queue of rows, claims, retries, cancels and restarts implements the *)
(* contract its callers see, as long as reconcile_current_task_capacity    *)
(* does not raise: one outcome per key, one execution at a time, and never *)
(* more of them than the configured attempts.                              *)
(***************************************************************************)
THEOREM ContractTheorem ==
    ASSUME "refresh" \notin FaultPoints
    PROVE  Spec => ImplementsContract
<1>1. IInv /\ [Next]_vars => IInv'
  BY NextIInv
<1>2. IInv /\ KInv /\ KInv' /\ [Next]_vars => [Contract!Next]_(Contract!contractVars)
  BY NextContract
<1> QED BY <1>1, <1>2, InitIInv, InitKInv, NextKInv, InitContract, PTL
        DEF Spec, ImplementsContract, Contract!Spec

(***************************************************************************)
(* The attempt count that record_task_failure compares with the limit is   *)
(* the one of the row, as long as the claim is held.                       *)
(***************************************************************************)
THEOREM HeldCopyTheorem ==
    ASSUME "refresh" \notin FaultPoints
    PROVE  Spec => []HeldCopyIsCurrent
<1>1. IInv => HeldCopyIsCurrent
  BY DEF IInv, HeldRow, HeldCopyIsCurrent
<1>2. IInv /\ [Next]_vars => IInv'
  BY NextIInv
<1> QED BY <1>1, <1>2, InitIInv, PTL DEF Spec

----------------------------------------------------------------------------
(* A lease is held between backend_resolver.resolve and the finally clause. *)
LeaseInTry ==
    \A e \in Exec : exec[e].lease =>
        exec[e].pc \in {"posting", "recording", "refreshing", "releasing"}

LeaseSteps == \A e \in Exec : exec[e].lease /\ ~exec'[e].lease => At(e, "releasing")

LEMMA StepLease ==
    ASSUME ~Crashes, TypeInv, LeaseInTry, [Next]_vars
    PROVE  LeaseInTry' /\ LeaseSteps
<1> USE DEF TypeInv, TypeOK
<1>1. ASSUME NEW e \in Exec, ExecStep(e) \/ ExecFault(e)
      PROVE  LeaseInTry' /\ LeaseSteps
  <2>1. \A f \in Exec \ {e} : exec'[f] = exec[f]
    BY <1>1, OwnFrameOnly
  <2>2. exec[e] \in Frame /\ ~Rest.lease
    BY DEF Rest
  <2> SUFFICES /\ exec'[e].lease
                    => exec'[e].pc \in {"posting", "recording", "refreshing", "releasing"}
               /\ exec[e].lease /\ ~exec'[e].lease => At(e, "releasing")
    BY <2>1 DEF LeaseInTry, LeaseSteps
  <2>3. exec[e].lease => exec[e].pc \in {"posting", "recording", "refreshing", "releasing"}
    BY DEF LeaseInTry
  <2>4. CASE EndIteration(e) \/ Die(e)
    <3>1. ~exec'[e].lease
      BY <2>2, <2>4 DEF EndIteration, Die, Rest
    <3>2. exec[e].lease => At(e, "releasing")
      <4>1. CASE Release(e)
        BY <4>1 DEF Release
      <4>2. CASE Refresh(e)
        <5> SUFFICES ASSUME exec[e].lease PROVE FALSE
          OBVIOUS
        <5>1. exec' = [exec EXCEPT ![e].pc = "releasing"]
          BY <4>2 DEF Refresh, Goto
        <5>2. exec'[e].lease
          BY <2>2, <5>1 DEF Frame
        <5> QED BY <3>1, <5>2
      <4>3. CASE exec[e].pc \in {"idle", "claiming", "resolving", "recovering", "recovered", "dead"}
        BY <2>3, <4>3
      <4>4. CASE exec[e].pc \in {"posting", "recording", "refreshing"} /\ ~Refresh(e)
        <5>1. \/ \E o \in Outcome : exec' = [exec EXCEPT ![e].pc = "releasing", ![e].outcome = o]
              \/ \E o \in Outcome : exec' = [exec EXCEPT ![e].pc = "recording", ![e].outcome = o]
              \/ \E o \in Outcome : exec' = [exec EXCEPT ![e].pc = "refreshing", ![e].outcome = o]
              \/ Raised(e)
          BY <1>1, <4>4
          DEF ExecStep, ExecFault, At, SelectRunnable, ClaimNothing, ClaimNext, NoBackend,
              BackendResolved, PostFails, PostAnswered, Release, Record, Recover, RecoverRefresh,
              ClaimRaises, ResolveRaises, PostRaises, RecordRaises, RefreshRaises,
              RecoverRaises, RecoverRefreshRaises, Restart, Outcome
        <5>2. exec'[e].lease = exec[e].lease
          BY <2>2, <5>1 DEF Frame, Raised
        <5> QED BY <3>1, <5>2
      <4> QED BY <2>2, <4>1, <4>2, <4>3, <4>4 DEF Frame, PC, Release, At
    <3> QED BY <3>1, <3>2
  <2>5. CASE ~EndIteration(e) /\ ~Die(e)
    <3>1. CASE SelectRunnable(e) \/ NoBackend(e) \/ ResolveRaises(e)
      BY <2>2, <2>3, <3>1 DEF SelectRunnable, NoBackend, ResolveRaises, Goto, At, Frame
    <3>2. CASE ClaimNext(e)
      <4>1. ~exec'[e].lease
        BY <3>2 DEF ClaimNext, Rest
      <4> QED BY <2>3, <3>2, <4>1 DEF ClaimNext, At
    <3>3. CASE BackendResolved(e)
      BY <2>2, <2>3, <3>3 DEF BackendResolved, At, Frame
    <3>4. CASE PostFails(e) \/ PostAnswered(e) \/ PostRaises(e)
      BY <2>2, <2>3, <3>4 DEF PostFails, PostAnswered, PostRaises, At, Frame
    <3>5. CASE Release(e)
      BY <2>2, <2>5, <3>5 DEF Release, At, Frame
    <3>6. CASE Record(e)
      <4>1. exec' = [exec EXCEPT ![e].pc = "refreshing", ![e].outcome = "done"]
        BY <3>6 DEF Record
      <4> QED BY <2>2, <4>1 DEF Frame
    <3>7. CASE RecordRaises(e) \/ RefreshRaises(e)
      BY <2>2, <3>7 DEF RecordRaises, RefreshRaises, Raised, Frame
    <3>8. CASE Refresh(e)
      BY <2>2, <2>5, <3>8 DEF Refresh, Goto, Frame
    <3>9. CASE Recover(e)
      <4>1. /\ exec[e].pc = "recovering"
            /\ exec' = [exec EXCEPT ![e].pc = "recovered", ![e].outcome = "done"]
        BY <3>9 DEF Recover, At
      <4> QED BY <2>2, <2>3, <4>1 DEF Frame
    <3> QED BY <1>1, <2>5, <3>1, <3>2, <3>3, <3>4, <3>5, <3>6, <3>7, <3>8, <3>9
            DEF ExecStep, ExecFault, ClaimNothing, RecoverRefresh, ClaimRaises,
                RecoverRaises, RecoverRefreshRaises, Restart
  <2> QED BY <2>4, <2>5
<1>2. CASE UNCHANGED exec
  BY <1>2 DEF LeaseInTry, LeaseSteps
<1> QED BY <1>1, <1>2 DEF Next, Submit, Cancel, Wait, vars

(***************************************************************************)
(* In a process that is not stopped, a backend lease ends only by the      *)
(* release call, whatever raises on the way.                               *)
(***************************************************************************)
THEOREM LeaseTheorem ==
    ASSUME ~Crashes
    PROVE  Spec => LeaseEndsByRelease
<1>1. Init => LeaseInTry
  BY DEF Init, Rest, LeaseInTry
<1>2. TypeInv /\ LeaseInTry /\ [Next]_vars => LeaseInTry' /\ LeaseSteps
  BY StepLease
<1>3. LeaseSteps => [\A e \in Exec : exec[e].lease /\ ~exec'[e].lease => At(e, "releasing")]_vars
  BY DEF LeaseSteps
<1> QED BY <1>1, <1>2, <1>3, InitTypeInv, NextTypeInv, PTL DEF Spec, LeaseEndsByRelease
============================================================================
