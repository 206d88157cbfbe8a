------------------------ MODULE RequestProxyProofs ------------------------
(***************************************************************************)
(* The safety theorems of RequestProxy, for any set of requests and any    *)
(* policy: the limiter's slots and the registry's leases are accounted     *)
(* for, the policy's limits and token budget hold, and no request is       *)
(* parked beside a slot that every limit leaves free.                      *)
(***************************************************************************)
EXTENDS RequestProxy, FiniteSetTheorems, WellFoundedInduction, TLAPS

(* The requests whose slot or lease is counted, those of cut-off streams included. *)
Holders == Owners \union Stranded
Users == {r \in Request : req[r].lease}

(* A lease is held from the registry's answer until release_once. *)
LeaseHeld ==
    \A r \in Request : req[r].lease
        => req[r].pc \in {"sending", "streaming", "releasing", "stranded"}

(* Only a stream is cut off, and only where clients go away. *)
StrandedStream == \A r \in Stranded : Disconnects /\ req[r].stream

(* A response body is only produced, and cut off, of a stream. *)
StreamFlag == \A r \in Request : At(r, "streaming") => req[r].stream

(* The output limits that are forwarded. *)
Limited == {NoLimits} \union {Forwarded(b) : b \in Bodies}

ReqType == req \in [Request -> [pc : PC, lease : BOOLEAN, stream : BOOLEAN,
                                input : Nat, out : Limited]]

(* SlotsBalanced and LeasesCovered, over one set each. *)
SlotCount == active = Cardinality(Holders) /\ queued = Cardinality(Waiters)
LeaseCount == leases = leaked + Cardinality(Users)

LimitType == limit \in [active : Nat, queued : Nat]

CountType == leases \in 0 .. MaxLeases /\ leaked \in Nat

(* The inductive invariant of the counters; it contains TypeOK. *)
IInv ==
    /\ ReqType /\ LimitType /\ CountType
    /\ SlotCount /\ LeaseCount /\ LeaseHeld /\ StrandedStream /\ StreamFlag

----------------------------------------------------------------------------
(* Two sets that differ at most in r. *)
LEMMA DifferByOne ==
    ASSUME NEW S, NEW T, NEW r, IsFiniteSet(S), IsFiniteSet(T), S \ {r} = T \ {r}
    PROVE  /\ Cardinality(S) \in Nat /\ Cardinality(T) \in Nat
           /\ r \in S /\ r \in T => Cardinality(T) = Cardinality(S)
           /\ r \notin S /\ r \notin T => Cardinality(T) = Cardinality(S)
           /\ r \in S /\ r \notin T => Cardinality(T) = Cardinality(S) - 1
           /\ r \notin S /\ r \in T => Cardinality(T) = Cardinality(S) + 1
<1>1. Cardinality(S) \in Nat /\ Cardinality(T) \in Nat
  BY FS_CardinalityType
<1>2. Cardinality(S \ {r}) = IF r \in S THEN Cardinality(S) - 1 ELSE Cardinality(S)
  BY FS_RemoveElement
<1>3. Cardinality(T \ {r}) = IF r \in T THEN Cardinality(T) - 1 ELSE Cardinality(T)
  BY FS_RemoveElement
<1> QED BY <1>1, <1>2, <1>3

LEMMA FinitePart ==
    ASSUME NEW S \in SUBSET Request
    PROVE  /\ IsFiniteSet(S)
           /\ Cardinality(S) \in 0 .. Cardinality(Request)
           /\ S # {} => Cardinality(S) > 0
<1>1. IsFiniteSet(S) /\ Cardinality(S) <= Cardinality(Request)
  BY FS_Subset, RequestAssumption
<1>2. Cardinality(S) \in Nat /\ Cardinality(Request) \in Nat
  BY <1>1, FS_CardinalityType, RequestAssumption
<1>3. S # {} => Cardinality(S) # 0
  BY <1>1, FS_EmptySet
<1> QED BY <1>1, <1>2, <1>3

LEMMA InvTypeOK == IInv => TypeOK
<1> SUFFICES ASSUME IInv PROVE TypeOK
  OBVIOUS
<1>1. Holders \in SUBSET Request /\ Waiters \in SUBSET Request /\ Users \in SUBSET Request
  BY DEF Holders, Owners, Stranded, At, Waiters, Users
<1>2. active \in 0 .. Cardinality(Request) /\ queued \in 0 .. Cardinality(Request)
  BY <1>1, FinitePart DEF IInv, SlotCount
<1>3. Cardinality(Users) \in Nat /\ leases = leaked + Cardinality(Users)
  BY <1>1, FinitePart DEF IInv, LeaseCount, Users
<1>4. leaked \in 0 .. MaxLeases
  BY <1>3, MaxLeasesAssumption DEF IInv, CountType
<1> QED BY <1>2, <1>4 DEF IInv, ReqType, Limited, LimitType, CountType, TypeOK

LEMMA InitIInv == Init => IInv
<1> SUFFICES ASSUME Init PROVE IInv
  OBVIOUS
<1>1. \A r \in Request : req[r].pc = "new" /\ ~req[r].lease
  BY DEF Init, Idle
<1>2. Holders = {} /\ Waiters = {} /\ Users = {}
  BY <1>1 DEF Holders, Owners, Stranded, At, Waiters, Users
<1>3. SlotCount /\ LeaseCount
  BY <1>2, FS_EmptySet DEF Init, SlotCount, LeaseCount, Users
<1>4. ReqType /\ LimitType /\ CountType
  BY PolicyAssumption, MaxLeasesAssumption
  DEF Init, Idle, Limits, Limited, ReqType, LimitType, CountType, PC
<1>5. LeaseHeld /\ StrandedStream /\ StreamFlag
  BY <1>1 DEF LeaseHeld, StrandedStream, StreamFlag, Stranded, At
<1> QED BY <1>3, <1>4, <1>5 DEF IInv

----------------------------------------------------------------------------
(* What a step of r leaves of every other request; notify_all may wake it. *)
KeepsOthers(r) ==
    \A q \in Request \ {r} :
        /\ req'[q].lease = req[q].lease
        /\ req'[q].stream = req[q].stream
        /\ req'[q].input = req[q].input
        /\ req'[q].out = req[q].out
        /\ \/ req'[q].pc = req[q].pc
           \/ req[q].pc = "waiting" /\ req'[q].pc = "notified"

OneIf(b) == IF b THEN 1 ELSE 0

OwnerPC == {"resolving", "unleased", "sending", "streaming", "releasing", "freeing", "stranded"}
WaiterPC == {"waiting", "notified"}
LeasePC == {"sending", "streaming", "releasing", "stranded"}

(* What r's step does to the three counts. *)
Counted(r) ==
    /\ active' = active + OneIf(req'[r].pc \in OwnerPC) - OneIf(req[r].pc \in OwnerPC)
    /\ queued' = queued + OneIf(req'[r].pc \in WaiterPC) - OneIf(req[r].pc \in WaiterPC)
    /\ leases' - leaked' = leases - leaked + OneIf(req'[r].lease) - OneIf(req[r].lease)

(* A step of r that counts what it does keeps the counters balanced. *)
LEMMA StepOfOne ==
    ASSUME IInv, NEW r \in Request, ReqType', LimitType', CountType', KeepsOthers(r),
           Counted(r), req'[r].lease => req'[r].pc \in LeasePC,
           req'[r].pc = "stranded" => Disconnects /\ req'[r].stream,
           req'[r].pc = "streaming" => req'[r].stream
    PROVE  IInv'
<1>1. Holders' \ {r} = Holders \ {r} /\ Waiters' \ {r} = Waiters \ {r} /\ Users' \ {r} = Users \ {r}
  BY DEF KeepsOthers, Holders, Owners, Stranded, At, Waiters, Users
<1>2. /\ r \in Holders <=> req[r].pc \in OwnerPC
      /\ r \in Holders' <=> req'[r].pc \in OwnerPC
      /\ r \in Waiters <=> req[r].pc \in WaiterPC
      /\ r \in Waiters' <=> req'[r].pc \in WaiterPC
      /\ r \in Users <=> req[r].lease
      /\ r \in Users' <=> req'[r].lease
  BY DEF Holders, Owners, Stranded, At, Waiters, Users, OwnerPC, WaiterPC
<1>3. /\ IsFiniteSet(Holders) /\ IsFiniteSet(Holders')
      /\ IsFiniteSet(Waiters) /\ IsFiniteSet(Waiters')
      /\ IsFiniteSet(Users) /\ IsFiniteSet(Users')
  <2>1. /\ Holders \in SUBSET Request /\ Holders' \in SUBSET Request
        /\ Waiters \in SUBSET Request /\ Waiters' \in SUBSET Request
        /\ Users \in SUBSET Request /\ Users' \in SUBSET Request
    BY DEF Holders, Owners, Stranded, At, Waiters, Users
  <2> QED BY <2>1, FinitePart
<1>4. active = Cardinality(Holders) /\ queued = Cardinality(Waiters)
      /\ leases = leaked + Cardinality(Users)
  BY DEF IInv, SlotCount, LeaseCount, Users
<1>5. active' = Cardinality(Holders')
  <2>1. Cardinality(Holders) \in Nat /\ Cardinality(Holders') \in Nat
    BY <1>3, FS_CardinalityType
  <2>2. Cardinality(Holders') = Cardinality(Holders) + OneIf(r \in Holders') - OneIf(r \in Holders)
    BY <1>1, <1>3, <2>1, DifferByOne DEF OneIf
  <2> QED BY <1>2, <1>4, <2>2 DEF Counted, OneIf
<1>6. queued' = Cardinality(Waiters')
  <2>1. Cardinality(Waiters) \in Nat /\ Cardinality(Waiters') \in Nat
    BY <1>3, FS_CardinalityType
  <2>2. Cardinality(Waiters') = Cardinality(Waiters) + OneIf(r \in Waiters') - OneIf(r \in Waiters)
    BY <1>1, <1>3, <2>1, DifferByOne DEF OneIf
  <2> QED BY <1>2, <1>4, <2>2 DEF Counted, OneIf
<1>7. leases' = leaked' + Cardinality(Users')
  <2>1. Cardinality(Users) \in Nat /\ Cardinality(Users') \in Nat
    BY <1>3, FS_CardinalityType
  <2>2. Cardinality(Users') = Cardinality(Users) + OneIf(r \in Users') - OneIf(r \in Users)
    BY <1>1, <1>3, <2>1, DifferByOne DEF OneIf
  <2>3. leases - leaked = Cardinality(Users) /\ leases' - leaked' = Cardinality(Users')
    BY <1>2, <1>4, <2>1, <2>2 DEF Counted, OneIf, IInv, CountType
  <2> QED BY <2>1, <2>3 DEF CountType
<1>8. SlotCount' /\ LeaseCount'
  BY <1>5, <1>6, <1>7 DEF SlotCount, LeaseCount, Users
<1>9. LeaseHeld'
  <2> SUFFICES ASSUME NEW q \in Request, req'[q].lease
               PROVE  req'[q].pc \in LeasePC
    BY DEF LeaseHeld, LeasePC
  <2>1. CASE q = r
    BY <2>1
  <2>2. CASE q # r
    <3>1. req[q].lease /\ req[q].pc \in LeasePC
      BY <2>2 DEF KeepsOthers, IInv, LeaseHeld, LeasePC
    <3>2. req'[q].pc = req[q].pc
      BY <2>2, <3>1 DEF KeepsOthers, LeasePC
    <3> QED BY <3>1, <3>2
  <2> QED BY <2>1, <2>2
<1>10. StrandedStream' /\ StreamFlag'
  BY DEF KeepsOthers, IInv, StrandedStream, StreamFlag, Stranded, At
<1> QED BY <1>8, <1>9, <1>10 DEF IInv

(* A held lease and an owned slot are among those counted. *)
LEMMA CountedAtLeastOne ==
    ASSUME IInv, NEW r \in Request
    PROVE  /\ req[r].pc \in OwnerPC => active > 0
           /\ req[r].pc \in WaiterPC => queued > 0
           /\ req[r].lease => leases > 0 /\ leases > leaked
           /\ active \in Nat /\ queued \in Nat
<1>1. Holders \in SUBSET Request /\ Waiters \in SUBSET Request /\ Users \in SUBSET Request
  BY DEF Holders, Owners, Stranded, At, Waiters, Users
<1>2. active \in Nat /\ (Holders # {} => active > 0)
  BY <1>1, FinitePart DEF IInv, SlotCount
<1>3. queued \in Nat /\ (Waiters # {} => queued > 0)
  BY <1>1, FinitePart DEF IInv, SlotCount
<1>4. Users # {} => leases > leaked
  <2>1. Cardinality(Users) \in Nat /\ (Users # {} => Cardinality(Users) > 0)
    BY <1>1, FinitePart
  <2>2. leases = leaked + Cardinality(Users)
    BY DEF IInv, LeaseCount, Users
  <2> QED BY <2>1, <2>2 DEF IInv, CountType
<1>5. /\ req[r].pc \in OwnerPC => Holders # {}
      /\ req[r].pc \in WaiterPC => Waiters # {}
      /\ req[r].lease => Users # {}
  BY DEF Holders, Owners, Stranded, At, Waiters, Users, OwnerPC, WaiterPC
<1> QED BY <1>2, <1>3, <1>4, <1>5 DEF IInv, CountType

----------------------------------------------------------------------------
(* What a request asks for only lowers the policy's limits. *)
LEMMA EffectiveLowers ==
    ASSUME NEW b \in Bodies, NEW f \in Bounded
    PROVE  Effective(b.override)[f] \in Nat /\ Effective(b.override)[f] <= Policy[f]
<1>1. DOMAIN Policy = Bounded \union {"charsPerToken", "reject"} /\ Policy[f] \in Nat
  BY PolicyAssumption DEF Bounded
<1>2. \A g \in DOMAIN b.override : b.override[g] \in Int
  BY BodiesAssumption DEF IsBody
<1> QED BY <1>1, <1>2 DEF Effective, Least, Greatest

LEMMA EffectiveLimits ==
    ASSUME NEW b \in Bodies
    PROVE  LET p == Effective(b.override)
           IN  /\ p.active \in Nat /\ p.active <= Policy.active
               /\ p.queued \in Nat /\ p.queued <= Policy.queued
               /\ p.defaultOutput \in Nat
               /\ p.maxInput \in Nat /\ p.maxInput <= Policy.maxInput
               /\ p.maxOutput \in Nat /\ p.maxOutput <= Policy.maxOutput
               /\ p.maxTotal \in Nat /\ p.maxTotal <= Policy.maxTotal
<1>1. \A f \in Bounded : Effective(b.override)[f] \in Nat /\ Effective(b.override)[f] <= Policy[f]
  BY EffectiveLowers
<1> QED BY <1>1 DEF Bounded

LEMMA InputTokensType ==
    ASSUME NEW b \in Bodies
    PROVE  InputTokens(b) \in Nat
<1>1. b.text \in Nat /\ Policy.charsPerToken \in Nat \ {0}
  BY BodiesAssumption, PolicyAssumption DEF IsBody
<1>2. RoundHalfEven(b.text, Policy.charsPerToken) \in Nat
  <2>1. b.text \div Policy.charsPerToken \in Nat
    BY <1>1, SMT
  <2> QED BY <2>1 DEF RoundHalfEven
<1> QED BY <1>2 DEF InputTokens, Greatest

LEMMA OutputTokensType ==
    ASSUME NEW b \in Bodies
    PROVE  RequestedOutput(b) \in Int /\ Remaining(b) \in Int /\ OutputTokens(b) \in Int
<1>1. RequestedOutput(b) \in Int
  <2>1. \A k \in DOMAIN b.out : b.out[k] \in Int \union {Null}
    BY BodiesAssumption DEF IsBody
  <2>2. Effective(b.override).defaultOutput \in Int
    BY EffectiveLimits
  <2> QED BY <2>1, <2>2 DEF RequestedOutput
<1>2. Remaining(b) \in Int /\ Effective(b.override).maxOutput \in Int
  BY EffectiveLimits, InputTokensType DEF Remaining
<1> QED BY <1>1, <1>2 DEF OutputTokens, Least

(* effective_output_tokens keeps an accepted request within the configured budget. *)
LEMMA AcceptedWithinBudget ==
    ASSUME NEW b \in Bodies, ~Refused(b)
    PROVE  /\ InputTokens(b) <= Policy.maxInput
           /\ OutputTokens(b) <= Policy.maxOutput
           /\ InputTokens(b) + OutputTokens(b) <= Policy.maxTotal
<1> DEFINE p == Effective(b.override)
<1>1. InputTokens(b) \in Nat /\ OutputTokens(b) \in Int /\ RequestedOutput(b) \in Int
      /\ Remaining(b) \in Int
  BY InputTokensType, OutputTokensType
<1>2. /\ p.maxInput \in Nat /\ p.maxInput <= Policy.maxInput
      /\ p.maxOutput \in Nat /\ p.maxOutput <= Policy.maxOutput
      /\ p.maxTotal \in Nat /\ p.maxTotal <= Policy.maxTotal
  BY EffectiveLimits
<1>3. Policy.maxInput \in Nat /\ Policy.maxOutput \in Nat /\ Policy.maxTotal \in Nat
  BY PolicyAssumption
<1>4. InputTokens(b) <= p.maxInput
  BY <1>1, <1>2 DEF Refused
<1>5. OutputTokens(b) <= p.maxOutput /\ OutputTokens(b) <= Remaining(b)
  BY <1>1, <1>2 DEF OutputTokens, Least
<1>6. Remaining(b) = p.maxTotal - InputTokens(b)
  BY DEF Remaining
<1> HIDE DEF p
<1> QED BY <1>1, <1>2, <1>3, <1>4, <1>5, <1>6

(* Bounding the output limit that output_token_key picks does not change its pick. *)
LEMMA ForwardedKey ==
    ASSUME NEW b \in Bodies
    PROVE  LET out == Forwarded(b) IN
           /\ OutputTokenKey(out) = OutputTokenKey(b.out)
           /\ OutputTokenKey(out) \in DOMAIN out
           /\ out[OutputTokenKey(out)] = OutputTokens(b)
<1>1. DOMAIN Forwarded(b) = DOMAIN b.out \union {OutputTokenKey(b.out)}
  BY DEF Forwarded
<1>2. OutputTokenKey(Forwarded(b)) = OutputTokenKey(b.out)
  BY <1>1 DEF OutputTokenKey
<1>3. Forwarded(b)[OutputTokenKey(b.out)] = OutputTokens(b)
  BY DEF Forwarded
<1> QED BY <1>1, <1>2, <1>3

----------------------------------------------------------------------------
(* The three ways a step assigns req. *)
LEMMA GotoMoves ==
    ASSUME IInv, NEW r \in Request, NEW pc \in PC, Goto(r, pc)
    PROVE  /\ ReqType' /\ KeepsOthers(r)
           /\ req'[r].pc = pc /\ req'[r].lease = req[r].lease
           /\ req'[r].stream = req[r].stream
           /\ req'[r].input = req[r].input /\ req'[r].out = req[r].out
BY DEF IInv, ReqType, Goto, KeepsOthers

LEMMA LeaseMoves ==
    ASSUME IInv, NEW r \in Request, NEW pc \in PC, NEW held \in BOOLEAN,
           req' = [req EXCEPT ![r].pc = pc, ![r].lease = held]
    PROVE  /\ ReqType' /\ KeepsOthers(r)
           /\ req'[r].pc = pc /\ req'[r].lease = held
           /\ req'[r].stream = req[r].stream
           /\ req'[r].input = req[r].input /\ req'[r].out = req[r].out
BY DEF IInv, ReqType, KeepsOthers

LEMMA NotifyMoves ==
    ASSUME IInv, NEW r \in Request, NotifyAll(r, "new")
    PROVE  /\ ReqType' /\ KeepsOthers(r)
           /\ req'[r].pc = "new" /\ req'[r].lease = FALSE
           /\ \A q \in Request : req'[q].pc # "waiting"
<1>1. Idle \in [pc : PC, lease : BOOLEAN, stream : BOOLEAN, input : Nat, out : Limited]
  BY DEF Idle, PC, Limited
<1>2. ReqType'
  BY <1>1 DEF IInv, ReqType, NotifyAll, PC
<1>3. req'[r].pc = "new" /\ req'[r].lease = FALSE
  BY DEF NotifyAll, Idle
<1>4. KeepsOthers(r)
  BY DEF IInv, ReqType, NotifyAll, At, KeepsOthers
<1>5. \A q \in Request : req'[q].pc # "waiting"
  BY DEF IInv, ReqType, NotifyAll, At, Idle
<1> QED BY <1>2, <1>3, <1>4, <1>5

(* A request that holds no slot holds no lease. *)
LEMMA NoLeaseWithoutSlot ==
    ASSUME IInv, NEW r \in Request, req[r].pc \notin LeasePC
    PROVE  req[r].lease = FALSE
BY DEF IInv, ReqType, LeaseHeld, LeasePC

(* A step that moves r between two places that count alike. *)
LEMMA PlainMove ==
    ASSUME IInv, NEW r \in Request, NEW pc \in OwnerPC, req[r].pc \in OwnerPC, Goto(r, pc),
           req[r].lease => pc \in LeasePC,
           pc = "stranded" => Disconnects /\ req[r].stream, pc # "streaming",
           UNCHANGED <<limit, active, queued, leases, leaked>>
    PROVE  IInv'
<1>1. pc \in PC
  BY DEF PC, OwnerPC
<1>2. /\ ReqType' /\ KeepsOthers(r) /\ req'[r].pc = pc
      /\ req'[r].lease = req[r].lease /\ req'[r].stream = req[r].stream
  BY <1>1, GotoMoves
<1>3. LimitType' /\ CountType'
  BY DEF IInv, LimitType, CountType
<1>4. active \in Nat /\ queued \in Nat
  BY CountedAtLeastOne
<1>5. Counted(r)
  BY <1>2, <1>4 DEF Counted, OneIf, OwnerPC, WaiterPC, IInv, CountType
<1> QED BY <1>2, <1>3, <1>5, StepOfOne

(* ModelLimiter.release by a request that owns a slot and no lease. *)
LEMMA SlotReleased ==
    ASSUME IInv, NEW r \in Request, req[r].pc \in OwnerPC, ~req[r].lease, ReleaseSlot(r)
    PROVE  IInv' /\ \A q \in Request : req'[q].pc # "waiting"
<1>1. /\ ReqType' /\ KeepsOthers(r)
      /\ req'[r].pc = "new" /\ req'[r].lease = FALSE
      /\ \A q \in Request : req'[q].pc # "waiting"
  BY NotifyMoves DEF ReleaseSlot
<1>2. LimitType' /\ CountType'
  BY DEF IInv, LimitType, CountType, ReleaseSlot
<1>3. active > 0 /\ active \in Nat /\ queued \in Nat
  BY CountedAtLeastOne
<1>4. Counted(r)
  BY <1>1, <1>3 DEF ReleaseSlot, Counted, OneIf, OwnerPC, WaiterPC, IInv, CountType
<1> QED BY <1>1, <1>2, <1>4, StepOfOne

LEMMA ReceiveIInv == ASSUME IInv, NEW r \in Request, Receive(r) PROVE IInv'
<1>1. PICK b \in Bodies :
         /\ limit' = Limits(Effective(b.override))
         /\ req' = [req EXCEPT ![r] = [Idle EXCEPT !.pc = "acquiring",
                                       !.input = InputTokens(b), !.out = Forwarded(b)]]
  BY DEF Receive
<1>2. InputTokens(b) \in Nat /\ Forwarded(b) \in Limited
  BY InputTokensType DEF Limited
<1>3. ReqType' /\ KeepsOthers(r) /\ req'[r].pc = "acquiring" /\ req'[r].lease = FALSE
  BY <1>1, <1>2 DEF IInv, ReqType, KeepsOthers, PC, Idle
<1>4. LimitType' /\ CountType'
  BY <1>1, EffectiveLimits DEF Limits, LimitType, CountType, IInv, Receive
<1>5. req[r].lease = FALSE
  BY NoLeaseWithoutSlot DEF Receive, At, LeasePC
<1>6. active \in Nat /\ queued \in Nat
  BY CountedAtLeastOne
<1>7. Counted(r)
  BY <1>3, <1>5, <1>6 DEF Receive, At, Counted, OneIf, OwnerPC, WaiterPC, IInv, CountType
<1> QED BY <1>3, <1>4, <1>7, StepOfOne

LEMMA LimiterIInv ==
    ASSUME IInv, NEW r \in Request,
           Admit(r) \/ QueueFull(r) \/ Park(r) \/ Wake(r) \/ QueueTimeout(r)
    PROVE  IInv'
<1>1. req[r].pc \in {"acquiring"} \union WaiterPC /\ req[r].lease = FALSE
  BY NoLeaseWithoutSlot DEF Admit, QueueFull, Park, Wake, QueueTimeout, At, LeasePC, WaiterPC
<1>2. active \in Nat /\ queued \in Nat /\ (req[r].pc \in WaiterPC => queued > 0)
  BY CountedAtLeastOne
<1>3. LimitType' /\ CountType' /\ leases' - leaked' = leases - leaked
  BY DEF IInv, LimitType, CountType, Admit, QueueFull, Park, Wake, QueueTimeout
<1>4. leases - leaked \in Int
  BY DEF IInv, CountType
<1>5. CASE Admit(r)
  <2>1. ReqType' /\ KeepsOthers(r) /\ req'[r].pc = "resolving" /\ req'[r].lease = FALSE
    BY <1>1, <1>5, GotoMoves DEF Admit, PC
  <2>2. Counted(r)
    BY <1>1, <1>2, <1>3, <1>4, <1>5, <2>1 DEF Admit, At, Counted, OneIf, OwnerPC, WaiterPC
  <2> QED BY <1>3, <2>1, <2>2, StepOfOne
<1>6. CASE QueueFull(r)
  <2>1. ReqType' /\ KeepsOthers(r) /\ req'[r].pc = "new" /\ req'[r].lease = FALSE
    BY <1>6 DEF QueueFull, Idle, Limited, IInv, ReqType, KeepsOthers, PC
  <2>2. Counted(r)
    BY <1>1, <1>2, <1>3, <1>4, <1>6, <2>1 DEF QueueFull, At, Counted, OneIf, OwnerPC, WaiterPC
  <2> QED BY <1>3, <2>1, <2>2, StepOfOne
<1>7. CASE Park(r)
  <2>1. ReqType' /\ KeepsOthers(r) /\ req'[r].pc = "waiting" /\ req'[r].lease = FALSE
    BY <1>1, <1>7, GotoMoves DEF Park, PC
  <2>2. Counted(r)
    BY <1>1, <1>2, <1>3, <1>4, <1>7, <2>1 DEF Park, At, Counted, OneIf, OwnerPC, WaiterPC
  <2> QED BY <1>3, <2>1, <2>2, StepOfOne
<1>8. CASE Wake(r)
  <2>1. CASE Goto(r, "resolving") /\ active' = active + 1 /\ queued' = queued - 1
    <3>1. ReqType' /\ KeepsOthers(r) /\ req'[r].pc = "resolving" /\ req'[r].lease = FALSE
      BY <1>1, <2>1, GotoMoves DEF PC
    <3>2. Counted(r)
      BY <1>1, <1>2, <1>3, <1>4, <1>8, <2>1, <3>1 DEF Wake, At, Counted, OneIf, OwnerPC, WaiterPC
    <3> QED BY <1>3, <3>1, <3>2, StepOfOne
  <2>2. CASE Goto(r, "waiting") /\ UNCHANGED <<active, queued>>
    <3>1. ReqType' /\ KeepsOthers(r) /\ req'[r].pc = "waiting" /\ req'[r].lease = FALSE
      BY <1>1, <2>2, GotoMoves DEF PC
    <3>2. Counted(r)
      BY <1>1, <1>2, <1>3, <1>4, <1>8, <2>2, <3>1 DEF Wake, At, Counted, OneIf, OwnerPC, WaiterPC
    <3> QED BY <1>3, <3>1, <3>2, StepOfOne
  <2> QED BY <1>8, <2>1, <2>2 DEF Wake
<1>9. CASE QueueTimeout(r)
  <2>1. ReqType' /\ KeepsOthers(r) /\ req'[r].pc = "new" /\ req'[r].lease = FALSE
    BY <1>9, NotifyMoves DEF QueueTimeout
  <2>2. Counted(r)
    BY <1>1, <1>2, <1>3, <1>4, <1>9, <2>1 DEF QueueTimeout, Counted, OneIf, OwnerPC, WaiterPC
  <2> QED BY <1>3, <2>1, <2>2, StepOfOne
<1> QED BY <1>5, <1>6, <1>7, <1>8, <1>9

LEMMA ResolverIInv ==
    ASSUME IInv, NEW r \in Request,
           NoBackend(r) \/ Upstream(r) \/ Leased(r) \/ LeaseLost(r) \/ ResolveRaises(r)
    PROVE  IInv'
<1>1. req[r].pc \in {"resolving", "unleased"} /\ req[r].lease = FALSE
  BY NoLeaseWithoutSlot
  DEF NoBackend, Upstream, Leased, LeaseLost, ResolveRaises, At, LeasePC
<1>2. active \in Nat /\ queued \in Nat /\ leases \in 0 .. MaxLeases /\ leaked \in Nat
  BY CountedAtLeastOne DEF IInv, CountType
<1>3. CASE NoBackend(r)
  BY <1>1, <1>3, SlotReleased DEF NoBackend, OwnerPC
<1>4. CASE Upstream(r)
  BY <1>1, <1>4, PlainMove DEF Upstream, OwnerPC
<1>5. CASE Leased(r)
  <2>1. ReqType' /\ KeepsOthers(r) /\ req'[r].pc = "sending" /\ req'[r].lease = TRUE
    BY <1>5, LeaseMoves DEF Leased, PC
  <2>2. LimitType' /\ CountType'
    BY <1>2, <1>5, MaxLeasesAssumption DEF Leased, IInv, LimitType, CountType
  <2>3. Counted(r)
    BY <1>1, <1>2, <1>5, <2>1, MaxLeasesAssumption DEF Leased, Counted, OneIf, OwnerPC, WaiterPC
  <2> QED BY <2>1, <2>2, <2>3, StepOfOne DEF LeasePC
<1>6. CASE LeaseLost(r)
  <2>1. ReqType' /\ KeepsOthers(r) /\ req'[r].pc = "unleased" /\ req'[r].lease = FALSE
    BY <1>1, <1>6, GotoMoves DEF LeaseLost, PC
  <2>2. LimitType' /\ CountType'
    BY <1>2, <1>6, MaxLeasesAssumption DEF LeaseLost, IInv, LimitType, CountType
  <2>3. Counted(r)
    BY <1>1, <1>2, <1>6, <2>1, MaxLeasesAssumption
    DEF LeaseLost, Counted, OneIf, OwnerPC, WaiterPC
  <2> QED BY <2>1, <2>2, <2>3, StepOfOne
<1>7. CASE ResolveRaises(r)
  BY <1>1, <1>7, PlainMove DEF ResolveRaises, OwnerPC
<1> QED BY <1>3, <1>4, <1>5, <1>6, <1>7

LEMMA ForwardIInv ==
    ASSUME IInv, NEW r \in Request,
           \/ Answered(r) \/ StreamOpened(r) \/ StreamEnds(r) \/ StreamCutOff(r)
    PROVE  IInv'
<1>1. active \in Nat /\ queued \in Nat /\ leases \in 0 .. MaxLeases /\ leaked \in Nat
  BY CountedAtLeastOne DEF IInv, CountType
<1>2. CASE Answered(r)
  BY <1>2, PlainMove DEF Answered, At, OwnerPC, LeasePC
<1>3. CASE StreamOpened(r)
  <2>1. /\ ReqType' /\ KeepsOthers(r)
        /\ req'[r].pc = "streaming" /\ req'[r].lease = req[r].lease /\ req'[r].stream
    BY <1>3 DEF StreamOpened, IInv, ReqType, KeepsOthers, PC
  <2>2. LimitType' /\ CountType'
    BY <1>3 DEF StreamOpened, IInv, LimitType, CountType
  <2>3. Counted(r)
    BY <1>1, <1>3, <2>1 DEF StreamOpened, At, Counted, OneIf, OwnerPC, WaiterPC
  <2> QED BY <2>1, <2>2, <2>3, StepOfOne DEF LeasePC
<1>4. CASE StreamEnds(r)
  BY <1>4, PlainMove DEF StreamEnds, At, OwnerPC, LeasePC
<1>5. CASE StreamCutOff(r)
  <2>1. req[r].stream
    BY <1>5 DEF StreamCutOff, At, IInv, StreamFlag
  <2> QED BY <1>5, <2>1, PlainMove DEF StreamCutOff, At, OwnerPC, LeasePC
<1> QED BY <1>2, <1>3, <1>4, <1>5

LEMMA ReleaseIInv ==
    ASSUME IInv, NEW r \in Request,
           \/ ReleaseLease(r) \/ ReleaseLost(r) \/ ReleaseCancelled(r) \/ FreeCancelled(r)
           \/ Finish(r)
    PROVE  IInv'
<1>1. active \in Nat /\ queued \in Nat /\ leases \in 0 .. MaxLeases /\ leaked \in Nat
      /\ (req[r].lease => leases > 0 /\ leases > leaked) /\ req[r].lease \in BOOLEAN
  BY CountedAtLeastOne DEF IInv, CountType, ReqType
<1>2. CASE ReleaseLease(r)
  <2>1. ReqType' /\ KeepsOthers(r) /\ req'[r].pc = "freeing" /\ req'[r].lease = FALSE
    BY <1>2, LeaseMoves DEF ReleaseLease, PC
  <2>2. LimitType' /\ CountType'
    BY <1>1, <1>2, MaxLeasesAssumption DEF ReleaseLease, IInv, LimitType, CountType
  <2>3. Counted(r)
    BY <1>1, <1>2, <2>1, MaxLeasesAssumption
    DEF ReleaseLease, At, Counted, OneIf, OwnerPC, WaiterPC
  <2> QED BY <2>1, <2>2, <2>3, StepOfOne
<1>3. CASE ReleaseLost(r)
  <2>1. ReqType' /\ KeepsOthers(r) /\ req'[r].pc = "freeing" /\ req'[r].lease = FALSE
    BY <1>3, LeaseMoves DEF ReleaseLost, PC
  <2>2. LimitType' /\ CountType'
    BY <1>1, <1>3, MaxLeasesAssumption DEF ReleaseLost, IInv, LimitType, CountType
  <2>3. Counted(r)
    BY <1>1, <1>3, <2>1, MaxLeasesAssumption
    DEF ReleaseLost, At, Counted, OneIf, OwnerPC, WaiterPC
  <2> QED BY <2>1, <2>2, <2>3, StepOfOne
<1>4. CASE ReleaseCancelled(r)
  <2>1. CASE Goto(r, "stranded") /\ UNCHANGED leases
    BY <1>4, <2>1, PlainMove DEF ReleaseCancelled, At, OwnerPC, LeasePC
  <2>2. CASE /\ leases' = IF leases > 0 THEN leases - 1 ELSE leases
             /\ req' = [req EXCEPT ![r].pc = "stranded", ![r].lease = FALSE]
    <3>1. /\ ReqType' /\ KeepsOthers(r) /\ req'[r].pc = "stranded" /\ req'[r].lease = FALSE
          /\ req'[r].stream = req[r].stream
      BY <2>2, LeaseMoves DEF PC
    <3>2. LimitType' /\ CountType'
      BY <1>1, <1>4, <2>2, MaxLeasesAssumption DEF ReleaseCancelled, IInv, LimitType, CountType
    <3>3. Counted(r)
      BY <1>1, <1>4, <2>2, <3>1, MaxLeasesAssumption
      DEF ReleaseCancelled, At, Counted, OneIf, OwnerPC, WaiterPC
    <3> QED BY <1>4, <3>1, <3>2, <3>3, StepOfOne DEF ReleaseCancelled
  <2> QED BY <1>4, <2>1, <2>2 DEF ReleaseCancelled
<1>5. CASE FreeCancelled(r)
  <2>1. ~req[r].lease
    BY <1>5, NoLeaseWithoutSlot DEF FreeCancelled, At, LeasePC
  <2> QED BY <1>5, <2>1, PlainMove DEF FreeCancelled, At, OwnerPC
<1>6. CASE Finish(r)
  <2>1. req[r].pc = "freeing" /\ ~req[r].lease
    BY <1>6, NoLeaseWithoutSlot DEF Finish, At, LeasePC
  <2> QED BY <1>6, <2>1, SlotReleased DEF Finish, OwnerPC
<1> QED BY <1>2, <1>3, <1>4, <1>5, <1>6

LEMMA NextIInv == IInv /\ [Next]_vars => IInv'
<1> SUFFICES ASSUME IInv, [Next]_vars PROVE IInv'
  OBVIOUS
<1>1. CASE UNCHANGED vars
  BY <1>1 DEF vars, IInv, ReqType, LimitType, CountType, SlotCount, LeaseCount,
              LeaseHeld, StrandedStream, StreamFlag, Limited, Holders, Owners, Stranded, At,
              Waiters, Users
<1>2. CASE Next
  <2>1. PICK r \in Request : Receive(r) \/ Step(r)
    BY <1>2 DEF Next
  <2> QED BY <2>1, ReceiveIInv, LimiterIInv, ResolverIInv, ForwardIInv, ReleaseIInv DEF Step
<1> QED BY <1>1, <1>2

LEMMA SpecIInv == Spec => []IInv
BY InitIInv, NextIInv, PTL DEF Spec

----------------------------------------------------------------------------
(***************************************************************************)
(* The limiter and the registry have the types of TypeOK, and no counter   *)
(* leaves its range.                                                       *)
(***************************************************************************)
THEOREM TypeCorrect == Spec => []TypeOK
BY SpecIInv, InvTypeOK, PTL

(* A part of the requests and another one apart from it. *)
LEMMA DisjointParts ==
    ASSUME NEW S \in SUBSET Request, NEW T \in SUBSET Request, S \cap T = {}
    PROVE  Cardinality(S \union T) = Cardinality(S) + Cardinality(T)
<1>1. IsFiniteSet(S) /\ IsFiniteSet(T) /\ Cardinality(S) \in Nat /\ Cardinality(T) \in Nat
  BY FinitePart
<1>2. Cardinality(S \union T) = Cardinality(S) + Cardinality(T) - Cardinality(S \cap T)
  BY <1>1, FS_Union
<1>3. Cardinality(S \cap T) = 0
  BY FS_EmptySet, Zenon
<1> QED BY <1>1, <1>2, <1>3

LEMMA InvBalanced == IInv => SlotsBalanced /\ LeasesCovered
<1> SUFFICES ASSUME IInv PROVE SlotsBalanced /\ LeasesCovered
  OBVIOUS
<1>1. /\ Owners \in SUBSET Request /\ Stranded \in SUBSET Request
      /\ Owners \cap Stranded = {}
  BY DEF Owners, Stranded, At
<1>2. SlotsBalanced
  BY <1>1, DisjointParts DEF IInv, SlotCount, Holders, StrandedStream, SlotsBalanced
<1> DEFINE S == {r \in Owners : req[r].lease}
           T == {r \in Stranded : req[r].lease}
<1>3. Users = S \union T
  BY DEF IInv, LeaseHeld, Users, Owners, Stranded, At
<1>4. S \in SUBSET Request /\ T \in SUBSET Request /\ S \cap T = {}
  BY <1>1
<1> HIDE DEF S, T
<1>5. Cardinality(Users) = Cardinality(S) + Cardinality(T)
  BY <1>3, <1>4, DisjointParts
<1>6. Cardinality(S) \in Nat /\ Cardinality(T) \in Nat
  BY <1>4, FinitePart
<1>7. leases = leaked + Cardinality(S) + Cardinality(T)
  BY <1>5, <1>6 DEF IInv, LeaseCount, CountType
<1> QED BY <1>2, <1>7 DEF LeasesCovered, S, T

(***************************************************************************)
(* For any number of requests, the limiter counts the requests under way   *)
(* that hold a slot or wait for one and the streams that were cut off, and *)
(* only streams are cut off: where no stream's client goes away, no slot   *)
(* is leaked.                                                              *)
(***************************************************************************)
THEOREM SlotsAreBalanced == Spec => []SlotsBalanced
BY SpecIInv, InvBalanced, PTL

(***************************************************************************)
(* The registry counts the requests under way that use the backend, the    *)
(* leases of cut-off streams and those whose reply was lost.               *)
(***************************************************************************)
THEOREM LeasesAreCovered == Spec => []LeasesCovered
BY SpecIInv, InvBalanced, PTL

----------------------------------------------------------------------------
(* The limits that requests may set, and the lowest of them. *)
ActiveLimits == {Effective(b.override).active : b \in Bodies}

LEMMA LowestLimit ==
    /\ Min(ActiveLimits) \in Nat
    /\ \A b \in Bodies : Min(ActiveLimits) <= Effective(b.override).active
<1>1. ActiveLimits \subseteq Nat /\ ActiveLimits # {}
  BY EffectiveLimits, BodiesAssumption DEF ActiveLimits
<1>2. \E x \in ActiveLimits : \A y \in ActiveLimits : x <= y
  <2>1. \E x \in ActiveLimits : \A y \in ActiveLimits : ~(<<y, x>> \in OpToRel(<, Nat))
    BY <1>1, NatLessThanWellFounded, WFMin
  <2>2. \A x, y \in Nat : ~(<<y, x>> \in OpToRel(<, Nat)) => x <= y
    BY DEF OpToRel
  <2> QED BY <1>1, <2>1, <2>2
<1>3. Min(ActiveLimits) \in ActiveLimits /\ \A y \in ActiveLimits : Min(ActiveLimits) <= y
  BY <1>2 DEF Min
<1> QED BY <1>1, <1>3 DEF ActiveLimits

(* Whoever was received last, the limiter's limits are within the policy. *)
LimitInRange ==
    /\ Min(ActiveLimits) <= limit.active /\ limit.active <= Policy.active
    /\ limit.queued <= Policy.queued

(* The inductive invariant of the policy, beside the one of the counters. *)
PolicyInv ==
    LimitInRange /\ ActiveWithinPolicy /\ ForwardedWithinBudget /\ NoParkingBesideFreeSlot

LEMMA InitPolicyInv == Init => PolicyInv
<1> SUFFICES ASSUME Init PROVE PolicyInv
  OBVIOUS
<1>1. \A r \in Request : req[r].pc = "new"
  BY DEF Init, Idle
<1>2. ForwardedWithinBudget /\ NoParkingBesideFreeSlot
  BY <1>1 DEF ForwardedWithinBudget, NoParkingBesideFreeSlot, At
<1>3. limit.active = Policy.active /\ limit.queued = Policy.queued
      /\ Policy.active \in Nat /\ Policy.queued \in Nat
  BY PolicyAssumption DEF Init, Limits
<1>4. Min(ActiveLimits) <= Policy.active
  <2>1. PICK b \in Bodies : TRUE
    BY BodiesAssumption
  <2>2. Min(ActiveLimits) <= Effective(b.override).active /\ Min(ActiveLimits) \in Nat
    BY LowestLimit
  <2>3. Effective(b.override).active \in Nat /\ Effective(b.override).active <= Policy.active
    BY EffectiveLimits
  <2> QED BY <1>3, <2>2, <2>3
<1>5. LimitInRange /\ ActiveWithinPolicy
  BY <1>3, <1>4 DEF Init, LimitInRange, ActiveWithinPolicy
<1> QED BY <1>2, <1>5 DEF PolicyInv

LEMMA ReceivePolicyInv ==
    ASSUME IInv, PolicyInv, NEW r \in Request, Receive(r)
    PROVE  PolicyInv'
<1>1. PICK b \in Bodies :
         /\ ~Refused(b)
         /\ limit' = Limits(Effective(b.override))
         /\ req' = [req EXCEPT ![r] = [Idle EXCEPT !.pc = "acquiring",
                                       !.input = InputTokens(b), !.out = Forwarded(b)]]
  BY DEF Receive
<1>2. LimitInRange'
  BY <1>1, LowestLimit, EffectiveLimits DEF Limits, LimitInRange
<1>3. ActiveWithinPolicy'
  BY DEF PolicyInv, ActiveWithinPolicy, Receive
<1>4. ForwardedWithinBudget'
  <2>0. LET out == Forwarded(b) IN
        /\ OutputTokenKey(out) = OutputTokenKey(b.out)
        /\ OutputTokenKey(out) \in DOMAIN out
        /\ out[OutputTokenKey(out)] = OutputTokens(b)
    BY ForwardedKey
  <2>1. /\ InputTokens(b) <= Policy.maxInput
        /\ OutputTokens(b) <= Policy.maxOutput
        /\ InputTokens(b) + OutputTokens(b) <= Policy.maxTotal
    BY <1>1, AcceptedWithinBudget
  <2>2. /\ req'[r].input = InputTokens(b) /\ req'[r].out = Forwarded(b)
        /\ \A q \in Request \ {r} : req'[q] = req[q]
    BY <1>1 DEF IInv, ReqType, Idle
  <2> QED BY <2>0, <2>1, <2>2 DEF PolicyInv, ForwardedWithinBudget, At
<1>5. NoParkingBesideFreeSlot'
  <2>1. \A q \in Request : At(q, "waiting")' => At(q, "waiting")
    BY <1>1 DEF IInv, ReqType, At
  <2> QED BY <2>1 DEF PolicyInv, NoParkingBesideFreeSlot, Receive
<1> QED BY <1>2, <1>3, <1>4, <1>5 DEF PolicyInv

(* What a step other than Receive does to a request's place and budget. *)
LEMMA StepShape ==
    ASSUME IInv, NEW r \in Request, Step(r)
    PROVE  /\ limit' = limit
           /\ \A q \in Request :
                /\ req[q].pc = "new" => req'[q].pc = "new"
                /\ req'[q].pc # "new" => /\ req'[q].input = req[q].input
                                         /\ req'[q].out = req[q].out
           /\ \/ active' = active
              \/ active' = active + 1 /\ active < limit.active
              \/ active' = active - 1 /\ \A q \in Request : req'[q].pc # "waiting"
           /\ \/ queued' = queued
              \/ queued' = queued + 1 /\ queued < limit.queued
              \/ queued' = queued - 1
           /\ \A q \in Request : req'[q].pc = "waiting" =>
                 \/ req[q].pc = "waiting"
                 \/ active >= limit.active /\ active' = active
<1> USE DEF IInv, ReqType
<1>1. CASE Admit(r) \/ QueueFull(r) \/ Park(r) \/ Wake(r)
  BY <1>1 DEF Admit, QueueFull, Park, Wake, At, Goto, Idle
<1>2. CASE QueueTimeout(r)
  <2>1. KeepsOthers(r) /\ req'[r].pc = "new" /\ \A q \in Request : req'[q].pc # "waiting"
    BY <1>2, NotifyMoves DEF QueueTimeout
  <2> QED BY <1>2, <2>1 DEF QueueTimeout, KeepsOthers
<1>3. CASE NoBackend(r) \/ Finish(r)
  <2>1. KeepsOthers(r) /\ req'[r].pc = "new" /\ \A q \in Request : req'[q].pc # "waiting"
    BY <1>3, NotifyMoves DEF NoBackend, Finish, ReleaseSlot
  <2>2. active > 0
    BY <1>3, CountedAtLeastOne DEF NoBackend, Finish, At, OwnerPC
  <2> QED BY <1>3, <2>1, <2>2 DEF NoBackend, Finish, ReleaseSlot, KeepsOthers
<1>4. CASE Upstream(r) \/ Leased(r) \/ LeaseLost(r) \/ ResolveRaises(r)
  BY <1>4 DEF Upstream, Leased, LeaseLost, ResolveRaises, At, Goto
<1>5. CASE Answered(r) \/ StreamOpened(r) \/ StreamEnds(r) \/ StreamCutOff(r)
  BY <1>5 DEF Answered, StreamOpened, StreamEnds, StreamCutOff, At, Goto
<1>6. CASE ReleaseLease(r) \/ ReleaseLost(r) \/ ReleaseCancelled(r) \/ FreeCancelled(r)
  BY <1>6 DEF ReleaseLease, ReleaseLost, ReleaseCancelled, FreeCancelled, At, Goto
<1> QED BY <1>1, <1>2, <1>3, <1>4, <1>5, <1>6 DEF Step

LEMMA StepPolicyInv ==
    ASSUME IInv, PolicyInv, NEW r \in Request, Step(r)
    PROVE  PolicyInv'
<1>1. active \in Nat /\ queued \in Nat /\ Min(ActiveLimits) \in Nat
  BY CountedAtLeastOne, LowestLimit
<1>2. limit.active \in Nat /\ limit.queued \in Nat /\ Policy.active \in Nat /\ Policy.queued \in Nat
  BY PolicyAssumption DEF IInv, LimitType
<1>3. LimitInRange'
  BY StepShape DEF PolicyInv, LimitInRange
<1>4. ActiveWithinPolicy'
  BY <1>1, <1>2, StepShape DEF PolicyInv, LimitInRange, ActiveWithinPolicy
<1>5. ForwardedWithinBudget'
  BY StepShape DEF PolicyInv, ForwardedWithinBudget, At
<1>6. NoParkingBesideFreeSlot'
  <2> SUFFICES ASSUME NEW q \in Request, req'[q].pc = "waiting"
               PROVE  active' >= Min(ActiveLimits)
    BY DEF NoParkingBesideFreeSlot, At, ActiveLimits
  <2>1. active' = active \/ active' = active + 1
    BY StepShape
  <2>2. CASE req[q].pc = "waiting"
    <3>1. active >= Min(ActiveLimits)
      BY <2>2 DEF PolicyInv, NoParkingBesideFreeSlot, At, ActiveLimits
    <3> QED BY <1>1, <2>1, <3>1
  <2>3. CASE active >= limit.active
    BY <1>1, <1>2, <2>1, <2>3 DEF PolicyInv, LimitInRange
  <2> QED BY <2>2, <2>3, StepShape
<1> QED BY <1>3, <1>4, <1>5, <1>6 DEF PolicyInv

LEMMA SpecPolicyInv == Spec => []PolicyInv
<1>1. IInv /\ PolicyInv /\ [Next]_vars => PolicyInv'
  <2> SUFFICES ASSUME IInv, PolicyInv, [Next]_vars PROVE PolicyInv'
    OBVIOUS
  <2>1. CASE UNCHANGED vars
    BY <2>1 DEF vars, PolicyInv, LimitInRange, ActiveWithinPolicy, ForwardedWithinBudget,
                NoParkingBesideFreeSlot, At
  <2>2. CASE Next
    <3>1. PICK r \in Request : Receive(r) \/ Step(r)
      BY <2>2 DEF Next
    <3> QED BY <3>1, ReceivePolicyInv, StepPolicyInv
  <2> QED BY <2>1, <2>2
<1> QED BY <1>1, InitPolicyInv, SpecIInv, PTL DEF Spec

(***************************************************************************)
(* Whatever limits requests ask for, no more of them run and no more wait  *)
(* than the model's policy allows.                                         *)
(***************************************************************************)
THEOREM PolicyIsRespected == Spec => []ActiveWithinPolicy
BY SpecPolicyInv, PTL DEF PolicyInv

(***************************************************************************)
(* apply_token_policy keeps the input, the output limit output_token_key   *)
(* picks and their sum within the configured budget, for any policy and    *)
(* any body; further output keys of a body are not part of the claim.      *)
(***************************************************************************)
THEOREM BudgetIsRespected == Spec => []ForwardedWithinBudget
BY SpecPolicyInv, PTL DEF PolicyInv

(***************************************************************************)
(* No request stays parked while fewer slots are taken than the lowest     *)
(* limit a request may set: no wake-up of notify_all is lost.              *)
(***************************************************************************)
THEOREM NoLostWakeup == Spec => []NoParkingBesideFreeSlot
BY SpecPolicyInv, PTL DEF PolicyInv
============================================================================
