--------------------------- MODULE RequestProxy ---------------------------
(***************************************************************************)
(* The synchronous path of the queue proxy for one model: the preparation  *)
(* of a request by the token policy, the ModelLimiter that admits it, the  *)
(* backend lease at the lifecycle registry and forward_openai_path, which  *)
(* gives slot and lease back on every way out but one: the body of a       *)
(* stream whose client goes away is cancelled by the web framework at any  *)
(* await, also inside release_once.  The body of an "async with            *)
(* self._condition" block has no await but the wait for a notification, so *)
(* each stretch of it is one step.                                         *)
(***************************************************************************)
EXTENDS TokenPolicy, FiniteSets, FiniteSetsExt

CONSTANTS Request,     \* the requests that may be under way together
          Bodies,      \* what requests ask for
          Losses,      \* registry calls whose reply may be lost: "lease", "release"
          MaxLeases,   \* bound: active_requests of the registry
          Disconnects  \* whether a stream's client may go away before its end

ASSUME RequestAssumption == IsFiniteSet(Request)
ASSUME BodiesAssumption == Bodies # {} /\ \A b \in Bodies : IsBody(b)
ASSUME LossesAssumption == Losses \subseteq {"lease", "release"}
ASSUME DisconnectsAssumption == Disconnects \in BOOLEAN
ASSUME MaxLeasesAssumption == MaxLeases \in Nat \ {0}

VARIABLES limit,    \* max_active_requests and max_queued_requests of the limiter
          active,   \* _active_requests
          queued,   \* _queued_requests
          leases,   \* active_requests of the model's backend in the registry
          leaked,   \* how many of them belong to no request: a reply was lost
          req       \* per request, where it is, its lease and what is forwarded

vars == <<limit, active, queued, leases, leaked, req>>

PC == {"new",         \* not received yet, or answered before
       "acquiring",   \* about to enter the limiter
       "waiting",     \* parked in _condition.wait()
       "notified",    \* woken, not back in the lock yet
       "resolving",   \* awaiting backend_resolver.resolve
       "unleased",    \* the lease call failed at a point the registry had counted it
       "sending",     \* awaiting the upstream response
       "streaming",   \* the response body is being produced
       "releasing",   \* in release_once, about to give the lease back
       "freeing",     \* in release_once, about to call limiter.release
       "stranded"}    \* its stream was cut off: nothing of it runs any more

NoLimits == [k \in {} |-> Null]

(* Type invariant of the limiter, of the registry's count and of the requests. *)
TypeOK ==
    /\ limit \in [active : Nat, queued : Nat]
    /\ active \in 0 .. Cardinality(Request)
    /\ queued \in 0 .. Cardinality(Request)
    /\ leases \in 0 .. MaxLeases
    /\ leaked \in 0 .. MaxLeases
    /\ req \in [Request -> [pc : PC, lease : BOOLEAN, stream : BOOLEAN,
                            input : Nat, out : {NoLimits} \union {Forwarded(b) : b \in Bodies}]]

Idle == [pc |-> "new", lease |-> FALSE, stream |-> FALSE, input |-> 0, out |-> NoLimits]

Limits(p) == [active |-> p.active, queued |-> p.queued]

Init ==
    /\ limit = Limits(Policy)
    /\ active = 0
    /\ queued = 0
    /\ leases = 0
    /\ leaked = 0
    /\ req = [r \in Request |-> Idle]

At(r, pc) == req[r].pc = pc

Goto(r, pc) == req' = [req EXCEPT ![r].pc = pc]

----------------------------------------------------------------------------
(***************************************************************************)
(* prepare refuses a request (400 or 413: no step) or gives it its budget; *)
(* limiter_registry.get_or_create then takes its limits for everyone's.    *)
(***************************************************************************)
Receive(r) ==
    /\ At(r, "new")
    /\ \E b \in Bodies :
          /\ ~Refused(b)
          /\ limit' = Limits(Effective(b.override))
          /\ req' = [req EXCEPT ![r] = [Idle EXCEPT !.pc = "acquiring",
                                        !.input = InputTokens(b), !.out = Forwarded(b)]]
    /\ UNCHANGED <<active, queued, leases, leaked>>

(* ModelLimiter.acquire *)
Admit(r) ==
    /\ At(r, "acquiring")
    /\ active < limit.active
    /\ active' = active + 1
    /\ Goto(r, "resolving")
    /\ UNCHANGED <<limit, queued, leases, leaked>>

QueueFull(r) ==
    /\ At(r, "acquiring")
    /\ active >= limit.active
    /\ queued >= limit.queued
    /\ req' = [req EXCEPT ![r] = Idle]
    /\ UNCHANGED <<limit, active, queued, leases, leaked>>

Park(r) ==
    /\ At(r, "acquiring")
    /\ active >= limit.active
    /\ queued < limit.queued
    /\ queued' = queued + 1
    /\ Goto(r, "waiting")
    /\ UNCHANGED <<limit, active, leases, leaked>>

(* notify_all, with r going on to pc. *)
NotifyAll(r, pc) ==
    req' = [q \in Request |-> IF q = r THEN [Idle EXCEPT !.pc = pc]
                              ELSE IF At(q, "waiting") THEN [req[q] EXCEPT !.pc = "notified"]
                              ELSE req[q]]

(* Mutant: every wake-up leaves the queue, also one that parks again. *)
WakeLeavesQueue(r) ==
    /\ At(r, "notified")
    /\ queued' = queued - 1
    /\ \/ active < limit.active /\ active' = active + 1 /\ Goto(r, "resolving")
       \/ active >= limit.active /\ UNCHANGED active /\ Goto(r, "waiting")
    /\ UNCHANGED <<limit, leases, leaked>>

(* Mutant: the deadline is noticed, but the wait goes on. *)
QueueTimeoutIgnored(r) ==
    /\ req[r].pc \in {"waiting", "notified"}
    /\ Goto(r, "waiting")
    /\ UNCHANGED <<limit, active, queued, leases, leaked>>

(* Mutant: nobody is notified. *)
ReleaseSlotSilently(r) ==
    /\ active' = IF active > 0 THEN active - 1 ELSE 0
    /\ req' = [req EXCEPT ![r] = Idle]
    /\ UNCHANGED <<limit, queued, leases, leaked>>

(* _wait_for_slot_locked, back in the lock. *)
Wake(r) ==
    /\ At(r, "notified")
    /\ \/ /\ active < limit.active
          /\ active' = active + 1
          /\ queued' = queued - 1
          /\ Goto(r, "resolving")
       \/ /\ active >= limit.active
          /\ Goto(r, "waiting")
          /\ UNCHANGED <<active, queued>>
    /\ UNCHANGED <<limit, leases, leaked>>

QueueTimeout(r) ==
    /\ req[r].pc \in {"waiting", "notified"}
    /\ queued' = queued - 1
    /\ NotifyAll(r, "new")
    /\ UNCHANGED <<limit, active, leases, leaked>>

(* ModelLimiter.release *)
ReleaseSlot(r) ==
    /\ active' = IF active > 0 THEN active - 1 ELSE 0
    /\ NotifyAll(r, "new")
    /\ UNCHANGED <<limit, queued, leases, leaked>>

----------------------------------------------------------------------------
(* Mutant: the slot is given back at once, and by release_once again. *)
NoBackendReleasesTwice(r) ==
    /\ req[r].pc \in {"resolving", "unleased"}
    /\ active' = IF active > 0 THEN active - 1 ELSE 0
    /\ NotifyAll(r, "releasing")
    /\ UNCHANGED <<limit, queued, leases, leaked>>

(* backend_resolver.resolve finds no backend it may use: the slot is given back. *)
NoBackend(r) ==
    /\ req[r].pc \in {"resolving", "unleased"}
    /\ ReleaseSlot(r)

(* It falls back to the default upstream, or leases a backend. *)
Upstream(r) ==
    /\ req[r].pc \in {"resolving", "unleased"}
    /\ Goto(r, "sending")
    /\ UNCHANGED <<limit, active, queued, leases, leaked>>

Leased(r) ==
    /\ At(r, "resolving")
    /\ leases < MaxLeases
    /\ leases' = leases + 1
    /\ req' = [req EXCEPT ![r].pc = "sending", ![r].lease = TRUE]
    /\ UNCHANGED <<limit, active, queued, leaked>>

(* The registry counted the lease but the reply is lost or late. *)
LeaseLost(r) ==
    /\ "lease" \in Losses
    /\ At(r, "resolving")
    /\ leases < MaxLeases
    /\ leases' = leases + 1
    /\ leaked' = leaked + 1
    /\ Goto(r, "unleased")
    /\ UNCHANGED <<limit, active, queued>>

(* resolve raises: except BaseException calls release_once with no lease. *)
ResolveRaises(r) ==
    /\ At(r, "resolving")
    /\ Goto(r, "releasing")
    /\ UNCHANGED <<limit, active, queued, leases, leaked>>

----------------------------------------------------------------------------
(* A buffered response, an upstream error, a disconnect or any other exception. *)
Answered(r) ==
    /\ At(r, "sending")
    /\ Goto(r, "releasing")
    /\ UNCHANGED <<limit, active, queued, leases, leaked>>

(* The upstream's headers arrived: release_once is left to the body generator. *)
StreamOpened(r) ==
    /\ At(r, "sending")
    /\ req' = [req EXCEPT ![r].pc = "streaming", ![r].stream = TRUE]
    /\ UNCHANGED <<limit, active, queued, leases, leaked>>

StreamEnds(r) ==
    /\ At(r, "streaming")
    /\ Goto(r, "releasing")
    /\ UNCHANGED <<limit, active, queued, leases, leaked>>

(***************************************************************************)
(* The client is gone and the framework cancels the response: before the   *)
(* generator's first step no finally clause runs, later the cancellation   *)
(* may strike an aclose of the clause, ahead of release_once.              *)
(***************************************************************************)
StreamCutOff(r) ==
    /\ Disconnects
    /\ At(r, "streaming")
    /\ Goto(r, "stranded")
    /\ UNCHANGED <<limit, active, queued, leases, leaked>>

(* Mutant: a request without a lease gives one back. *)
ReleaseAnyLease(r) ==
    /\ At(r, "releasing")
    /\ leases' = IF leases > 0 THEN leases - 1 ELSE leases
    /\ req' = [req EXCEPT ![r].pc = "freeing", ![r].lease = FALSE]
    /\ UNCHANGED <<limit, active, queued, leaked>>

(* release_once: the registry's count first, floored at zero, then the slot. *)
ReleaseLease(r) ==
    /\ At(r, "releasing")
    /\ leases' = IF req[r].lease /\ leases > 0 THEN leases - 1 ELSE leases
    /\ req' = [req EXCEPT ![r].pc = "freeing", ![r].lease = FALSE]
    /\ UNCHANGED <<limit, active, queued, leaked>>

ReleaseLost(r) ==
    /\ "release" \in Losses
    /\ At(r, "releasing")
    /\ req[r].lease
    /\ leaked' = leaked + 1
    /\ req' = [req EXCEPT ![r].pc = "freeing", ![r].lease = FALSE]
    /\ UNCHANGED <<limit, active, queued, leases>>

(***************************************************************************)
(* A cancellation strikes while the stream's release_once awaits the       *)
(* registry, which may have counted the release: released is set already,  *)
(* release catches HTTP errors only, limiter.release is never called.      *)
(***************************************************************************)
ReleaseCancelled(r) ==
    /\ Disconnects
    /\ At(r, "releasing")
    /\ req[r].stream /\ req[r].lease
    /\ \/ Goto(r, "stranded") /\ UNCHANGED leases
       \/ /\ leases' = IF leases > 0 THEN leases - 1 ELSE leases
          /\ req' = [req EXCEPT ![r].pc = "stranded", ![r].lease = FALSE]
    /\ UNCHANGED <<limit, active, queued, leaked>>

(* Or while it awaits the limiter's lock. *)
FreeCancelled(r) ==
    /\ Disconnects
    /\ At(r, "freeing")
    /\ req[r].stream
    /\ Goto(r, "stranded")
    /\ UNCHANGED <<limit, active, queued, leases, leaked>>

Finish(r) ==
    /\ At(r, "freeing")
    /\ ReleaseSlot(r)

----------------------------------------------------------------------------
Step(r) ==
    \/ Admit(r) \/ QueueFull(r) \/ Park(r) \/ Wake(r) \/ QueueTimeout(r)
    \/ NoBackend(r) \/ Upstream(r) \/ Leased(r) \/ LeaseLost(r) \/ ResolveRaises(r)
    \/ Answered(r) \/ StreamOpened(r) \/ StreamEnds(r) \/ StreamCutOff(r)
    \/ ReleaseLease(r) \/ ReleaseLost(r) \/ ReleaseCancelled(r) \/ FreeCancelled(r)
    \/ Finish(r)

Next == \E r \in Request : Receive(r) \/ Step(r)

Spec == Init /\ [][Next]_vars

(***************************************************************************)
(* Every await of a request ends: calls by request_timeout_seconds, the    *)
(* wait for a slot by the deadline of asyncio.wait_for, which runs on      *)
(* while notifications come and go.  Clients owe no further requests.      *)
(***************************************************************************)
FairSpec ==
    /\ Spec
    /\ \A r \in Request : WF_vars(Step(r)) /\ WF_vars(QueueTimeout(r))

----------------------------------------------------------------------------
(* The requests under way that hold a slot: something of each still runs. *)
Owners == {r \in Request : req[r].pc \in {"resolving", "unleased", "sending", "streaming",
                                          "releasing", "freeing"}}

Waiters == {r \in Request : req[r].pc \in {"waiting", "notified"}}

(* The requests of which nothing runs any more and whose slot is still counted. *)
Stranded == {r \in Request : At(r, "stranded")}

(***************************************************************************)
(* The limiter counts the requests under way that hold a slot, those that  *)
(* wait for one, and the streams that were cut off, whose slot nobody will *)
(* give back.  That is the only leak: timeouts racing a notification,      *)
(* errors, disconnects from a buffered response and streams that reach the *)
(* end of release_once leak no slot, and nothing frees one twice.          *)
(***************************************************************************)
SlotsBalanced ==
    /\ active = Cardinality(Owners) + Cardinality(Stranded)
    /\ queued = Cardinality(Waiters)
    /\ \A r \in Stranded : Disconnects /\ req[r].stream

(***************************************************************************)
(* The registry counts exactly the requests under way that use the         *)
(* backend, the leases of cut-off streams and those whose reply was lost:  *)
(* the last two are the only ways for a backend to look busy for ever, and *)
(* nothing makes a busy one look idle.                                     *)
(***************************************************************************)
LeasesCovered ==
    leases = leaked + Cardinality({r \in Owners : req[r].lease})
                    + Cardinality({r \in Stranded : req[r].lease})

(***************************************************************************)
(* What the protocol promises of a client that disconnects, where no reply *)
(* of the registry is lost: slots and leases are those of the requests     *)
(* under way.  It is not so of a stream that is cut off.                   *)
(***************************************************************************)
BalancedOnDisconnect ==
    /\ active = Cardinality(Owners)
    /\ leases = Cardinality({r \in Owners : req[r].lease})

(***************************************************************************)
(* However requests override the limits, no more of them run, and no more  *)
(* wait, than the model's policy allows, also right after a limit is       *)
(* lowered and while parked requests wake up in any order.                 *)
(***************************************************************************)
ActiveWithinPolicy == active <= Policy.active /\ queued <= Policy.queued

(***************************************************************************)
(* Whatever a request sets, lowers or leaves out, its input, the output    *)
(* limit that output_token_key picks and their sum are forwarded within    *)
(* the budget configured for the model.  A limit beyond it can only be     *)
(* forwarded under a second output key that the body carries besides.      *)
(***************************************************************************)
ForwardedWithinBudget ==
    \A r \in Request : ~At(r, "new") =>
        LET out == req[r].out
            within(n) == n <= Policy.maxOutput /\ req[r].input + n <= Policy.maxTotal
        IN /\ req[r].input <= Policy.maxInput
           /\ OutputTokenKey(out) \in DOMAIN out
           /\ \A k \in DOMAIN out : k = OutputTokenKey(out) => within(out[k])

(***************************************************************************)
(* A request is parked only while enough slots are taken for the lowest    *)
(* limit a request may set: whoever frees a slot wakes the parked ones, so *)
(* with limits that stay as they are no one sleeps beside a free slot.     *)
(***************************************************************************)
NoParkingBesideFreeSlot ==
    (\E r \in Request : At(r, "waiting"))
        => active >= Min({Effective(b.override).active : b \in Bodies})

(***************************************************************************)
(* Every received request ends, its slot free again, or as a stream that   *)
(* was cut off: no wake-up, timeout or error loses one.                    *)
(***************************************************************************)
EveryRequestEnds ==
    \A r \in Request : At(r, "acquiring") ~> req[r].pc \in {"new", "stranded"}
============================================================================
