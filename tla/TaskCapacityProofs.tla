------------------------ MODULE TaskCapacityProofs ------------------------
(* Theorems about TaskCapacity, for any number of tasks and handlers. *)
EXTENDS TaskCapacity, SequenceTheorems, TLAPS

(* The youngest awaiting handler knows whether the queue is empty now. *)
YoungestIsCurrent ==
    inflight # <<>> => (inflight[Len(inflight)] <=> open = 0)

IInv == TypeOK /\ YoungestIsCurrent /\ IdleReconcilePending

(* Taking the oldest handler out leaves the youngest one in place. *)
LEMMA OldestGone ==
    ASSUME NEW s \in Seq(BOOLEAN), s # <<>>
    PROVE  /\ RemoveAt(s, 1) \in Seq(BOOLEAN)
           /\ Len(s) = 1 => RemoveAt(s, 1) = <<>>
           /\ Len(s) > 1 => RemoveAt(s, 1)[Len(RemoveAt(s, 1))] = s[Len(s)]
           /\ Len(s) > 1 => RemoveAt(s, 1) # <<>>
<1> DEFINE r == SubSeq(s, 2, Len(s))
<1>1. RemoveAt(s, 1) = r
  BY DEF RemoveAt
<1>2. Len(s) \in Nat \ {0}
  BY EmptySeq, LenProperties
<1>3. /\ r \in Seq(BOOLEAN)
      /\ Len(r) = IF 2 <= Len(s) THEN Len(s) - 2 + 1 ELSE 0
      /\ \A i \in 1 .. Len(s) - 2 + 1 : r[i] = s[2 + i - 1]
  BY <1>2, SubSeqProperties, ElementOfSeq
<1>4. CASE Len(s) = 1
  BY <1>1, <1>3, <1>4, EmptySeq
<1>5. CASE Len(s) > 1
  <2>1. Len(r) = Len(s) - 1 /\ Len(s) - 1 \in 1 .. Len(s) - 2 + 1
    BY <1>2, <1>3, <1>5
  <2>2. r[Len(s) - 1] = s[2 + (Len(s) - 1) - 1]
    BY <1>3, <2>1
  <2>3. 2 + (Len(s) - 1) - 1 = Len(s)
    BY <1>2
  <2>4. r[Len(r)] = s[Len(s)]
    BY <2>1, <2>2, <2>3
  <2> HIDE DEF r
  <2>5. Len(r) > 0
    BY <1>2, <1>5, <2>1
  <2>6. Len(<<>>) = 0
    BY EmptySeq
  <2>7. r # <<>>
    BY <2>5, <2>6
  <2> QED BY <1>1, <1>3, <1>5, <2>4, <2>7
<1> QED BY <1>1, <1>2, <1>3, <1>4, <1>5

LEMMA InitIInv == Init => IInv
BY MaxOpenAssumption
DEF Init, IInv, TypeOK, Timer, YoungestIsCurrent, IdleReconcilePending

(* A handler that starts to wait has just read the queue. *)
LEMMA AwaitYoungest ==
    ASSUME TypeOK, NEW n \in 0 .. MaxOpen, AwaitLifecycle(n)
    PROVE  /\ open' = n
           /\ inflight' \in Seq(BOOLEAN)
           /\ inflight' # <<>>
           /\ YoungestIsCurrent'
<1>1. /\ inflight' \in Seq(BOOLEAN)
      /\ Len(inflight') = Len(inflight) + 1
      /\ inflight'[Len(inflight) + 1] = (n = 0)
      /\ Len(inflight) \in Nat
  BY AppendProperties, LenProperties DEF AwaitLifecycle, TypeOK
<1>2. inflight' # <<>>
  BY <1>1, EmptySeq
<1> QED BY <1>1, <1>2 DEF AwaitLifecycle, YoungestIsCurrent

LEMMA NextIInv ==
    ASSUME InOrder, IInv, [Next]_vars
    PROVE  IInv'
<1> USE DEF IInv, TypeOK, Timer
<1>1. CASE Submit
  <2>1. AwaitLifecycle(open + 1) /\ open + 1 \in 0 .. MaxOpen
    BY <1>1, MaxOpenAssumption DEF Submit
  <2> QED BY <1>1, <2>1, AwaitYoungest DEF Submit, IdleReconcilePending
<1>2. CASE Settle
  <2>1. AwaitLifecycle(open - 1) /\ open - 1 \in 0 .. MaxOpen
    BY <1>2, MaxOpenAssumption DEF Settle
  <2> QED BY <1>2, <2>1, AwaitYoungest DEF Settle, IdleReconcilePending
<1>3. CASE Revisit
  BY <1>3, AwaitYoungest DEF Revisit, IdleReconcilePending
<1>4. ASSUME NEW i \in DOMAIN inflight, Answer(i) \/ AnswerRaises(i)
      PROVE  IInv'
  <2>1. i = 1 /\ inflight' = RemoveAt(inflight, 1) /\ open' = open
    BY <1>4 DEF Answer, AnswerRaises, MayAnswer
  <2>2. inflight # <<>> /\ Len(inflight) \in Nat \ {0} /\ inflight[1] \in BOOLEAN
    <3>1. DOMAIN inflight = 1 .. Len(inflight) /\ Len(inflight) \in Nat
      BY LenProperties
    <3>2. Len(inflight) \in Nat \ {0} /\ 1 \in 1 .. Len(inflight)
      BY <3>1
    <3>3. inflight[1] \in BOOLEAN
      BY <3>2, ElementOfSeq
    <3>4. Len(<<>>) = 0
      BY EmptySeq
    <3> QED BY <3>2, <3>3, <3>4
  <2>3. Len(inflight) = 1 \/ Len(inflight) > 1
    <3> DEFINE n == Len(inflight)
    <3>1. n \in Nat \ {0}
      BY <2>2
    <3> HIDE DEF n
    <3>2. n = 1 \/ n > 1
      BY <3>1
    <3> QED BY <3>2 DEF n
  <2>4. inflight' \in Seq(BOOLEAN) /\ YoungestIsCurrent'
    <3>1. CASE Len(inflight) = 1
      BY <2>1, <2>2, <3>1, OldestGone DEF YoungestIsCurrent
    <3>2. CASE Len(inflight) > 1
      <4>1. inflight'[Len(inflight')] = inflight[Len(inflight)]
        BY <2>1, <2>2, <3>2, OldestGone
      <4>2. inflight[Len(inflight)] <=> open = 0
        BY <2>2 DEF YoungestIsCurrent
      <4>3. inflight' \in Seq(BOOLEAN)
        BY <2>1, <2>2, OldestGone
      <4> QED BY <2>1, <4>1, <4>2, <4>3 DEF YoungestIsCurrent
    <3> QED BY <2>3, <3>1, <3>2
  <2>5. timer' \in Timer /\ idle' \in {"due", "done", "failed"}
    BY <1>4 DEF Answer, AnswerRaises, ScheduleIdleReconcileIfEmpty
  <2>6. IdleReconcilePending'
    <3>1. CASE Len(inflight) > 1
      BY <2>1, <2>2, <3>1, OldestGone DEF IdleReconcilePending
    <3>2. CASE Len(inflight) = 1
      <4>1. inflight[1] <=> open = 0
        BY <2>2, <3>2 DEF YoungestIsCurrent
      <4> QED BY <1>4, <2>1, <4>1
              DEF Answer, AnswerRaises, ScheduleIdleReconcileIfEmpty, IdleReconcilePending
    <3> QED BY <2>3, <3>1, <3>2
  <2> QED BY <2>1, <2>4, <2>5, <2>6
<1>5. CASE TimerWakes
  BY <1>5 DEF TimerWakes, YoungestIsCurrent, IdleReconcilePending
<1>6. CASE TimerPosted \/ TimerPostFails
  BY <1>6 DEF TimerPosted, TimerPostFails, YoungestIsCurrent, IdleReconcilePending
<1>7. CASE UNCHANGED vars
  BY <1>7 DEF vars, YoungestIsCurrent, IdleReconcilePending
<1> QED BY <1>1, <1>2, <1>3, <1>4, <1>5, <1>6, <1>7 DEF Next

(***************************************************************************)
(* As long as the lifecycle's replies reach the proxy in the order of the  *)
(* calls, an empty queue always has its delayed reconcile made, failed or  *)
(* pending: the timer follows the latest reading of the queue.             *)
(***************************************************************************)
THEOREM IdleReconcileTheorem ==
    ASSUME InOrder
    PROVE  Spec => []IdleReconcilePending
<1>1. IInv /\ [Next]_vars => IInv'
  BY NextIInv
<1>2. IInv => IdleReconcilePending
  BY DEF IInv
<1> QED BY <1>1, <1>2, InitIInv, PTL DEF Spec

----------------------------------------------------------------------------
(* A handler may be answered out of turn: what is left is a sequence again. *)
LEMMA HandlerGone ==
    ASSUME NEW s \in Seq(BOOLEAN), NEW i \in DOMAIN s
    PROVE  RemoveAt(s, i) \in Seq(BOOLEAN)
<1>1. Len(s) \in Nat /\ i \in 1 .. Len(s)
  BY LenProperties
<1>2. \A k \in 1 .. Len(s) : s[k] \in BOOLEAN
  BY ElementOfSeq
<1>3. SubSeq(s, 1, i - 1) \in Seq(BOOLEAN)
  BY <1>1, <1>2, SubSeqProperties
<1>4. SubSeq(s, i + 1, Len(s)) \in Seq(BOOLEAN)
  BY <1>1, <1>2, SubSeqProperties
<1>5. SubSeq(s, 1, i - 1) \o SubSeq(s, i + 1, Len(s)) \in Seq(BOOLEAN)
  BY <1>3, <1>4, ConcatProperties
<1> QED BY <1>5 DEF RemoveAt

(***************************************************************************)
(* The count of open tasks stays within its range and the timer within its *)
(* states, in whatever order the lifecycle answers.                        *)
(***************************************************************************)
THEOREM TypeCorrect == Spec => []TypeOK
<1>1. Init => TypeOK
  BY MaxOpenAssumption DEF Init, TypeOK, Timer
<1>2. TypeOK /\ [Next]_vars => TypeOK'
  <2> SUFFICES ASSUME TypeOK, [Next]_vars PROVE TypeOK'
    OBVIOUS
  <2> USE DEF TypeOK, Timer
  <2>1. CASE Submit
    <3>1. AwaitLifecycle(open + 1) /\ open + 1 \in 0 .. MaxOpen
      BY <2>1, MaxOpenAssumption DEF Submit
    <3> QED BY <2>1, <3>1, AwaitYoungest DEF Submit
  <2>2. CASE Settle
    <3>1. AwaitLifecycle(open - 1) /\ open - 1 \in 0 .. MaxOpen
      BY <2>2, MaxOpenAssumption DEF Settle
    <3> QED BY <2>2, <3>1, AwaitYoungest DEF Settle
  <2>3. CASE Revisit
    BY <2>3, AwaitYoungest DEF Revisit
  <2>4. ASSUME NEW i \in DOMAIN inflight, Answer(i) \/ AnswerRaises(i)
        PROVE  TypeOK'
    <3>1. inflight' \in Seq(BOOLEAN)
      BY <2>4, HandlerGone DEF Answer, AnswerRaises
    <3> QED BY <2>4, <3>1 DEF Answer, AnswerRaises, ScheduleIdleReconcileIfEmpty
  <2>5. CASE TimerWakes \/ TimerPosted \/ TimerPostFails
    BY <2>5 DEF TimerWakes, TimerPosted, TimerPostFails
  <2>6. CASE UNCHANGED vars
    BY <2>6 DEF vars
  <2> QED BY <2>1, <2>2, <2>3, <2>4, <2>5, <2>6 DEF Next
<1> QED BY <1>1, <1>2, PTL DEF Spec
============================================================================
