----------------------------- MODULE Lifecycle -----------------------------
(***************************************************************************)
(* The lifecycle service: its registry of backend instances, the reconcile *)
(* and allocate jobs that start, reload and stop them, cleanup, and the    *)
(* proxies that lease them.  One process runs all jobs on an event loop,   *)
(* so a step is what happens between two awaits; commands to LM Studio and *)
(* docker are synchronous and part of their step.  Every change of the     *)
(* registry is made in memory and then written to its file as a whole; the *)
(* write may raise, which ends the handler or is met by an except clause.  *)
(***************************************************************************)
EXTENDS Integers, Sequences, FiniteSets, FiniteSetsExt, Functions

CONSTANTS Model,         \* the configured models
          Lmstudio,      \* those that LM Studio serves; docker runs the others
          Profile,       \* per model: min and max replicas, VRAM, shape, bucket, who loads it
          Gpu, Capacity, \* the GPUs and their VRAM
          ExternalGpus,  \* the GPUs an external load may be put down to, or NoGpu
          Demands,       \* what a proxy may report of a model's queue
          Job,           \* handlers that may be under way together
          Client,        \* proxy requests that may hold a lease together
          MaxInstances,  \* bound: entries ever added to the registry
          MaxFaults,     \* bound: the steps that end because a write of the file raises
          Restarts       \* whether the process may restart

ASSUME ModelAssumption == IsFiniteSet(Model) /\ Lmstudio \subseteq Model
ASSUME CapacityAssumption == Capacity \in [Gpu -> Nat]
ASSUME BoundAssumption == MaxInstances \in Nat /\ MaxFaults \in Nat /\ Restarts \in BOOLEAN
ASSUME DemandsAssumption ==
    /\ Demands \subseteq [queued : BOOLEAN, oversized : BOOLEAN, required : Nat,
                          shape : [context : Nat, parallel : Nat]]
    /\ \E d \in Demands : ~d.queued
ASSUME ProfileAssumption ==
    Profile \in [Model -> [min : Nat, max : Nat, vram : Nat, bucketOnly : BOOLEAN, loads : BOOLEAN,
                           port : Nat, shape : [context : Nat, parallel : Nat]]]

VARIABLES inst,     \* the registry's entries for instances the lifecycle started
          ext,      \* its "external" entry of each model: absent, or the GPU it reserves
          live,     \* what LM Studio has loaded under each model's identifier
          job,      \* per handler, where it is and what it still has to do
          client,   \* per request, the instance it chose and whether it holds a lease
          file,     \* the registry's file: inst and ext as they were last written
          faults    \* the steps so far that ended with a write that raised

vars == <<inst, ext, live, job, client, file, faults>>

NoGpu  == "no GPU"

ASSUME ExternalAssumption == ExternalGpus \subseteq Gpu \union {NoGpu} /\ ExternalGpus # {}

Absent == "absent"
Shape  == [context : Nat, parallel : Nat]   \* 0 where it is not known or not set
Load   == [loaded : BOOLEAN, shape : Shape]
NoLoad == [loaded |-> FALSE, shape |-> [context |-> 0, parallel |-> 0]]

(* "removed" marks an entry purged from the registry; its id is never used again. *)
Transient == {"starting", "warming"}
Active    == Transient \union {"ready", "draining"}
States    == Active \union {"stopped", "failed", "removed"}

Entry == [model : Model, gpu : Gpu, state : States, owned : BOOLEAN,
          active : Nat, shape : Shape, port : Nat]

(* A PlacementDecision that reconcile carries out; "allocate" has no GPU yet. *)
Decision == [act : {"start", "reload", "allocate"}, gpu : Gpu \union {NoGpu},
             id : 0 .. MaxInstances, shape : Shape]

Nothing == [m \in {} |-> {}]
Quiet   == [m \in Model |-> CHOOSE d \in Demands : ~d.queued]
Idle    == [pc |-> "idle", demand |-> Quiet, todo |-> Nothing, id |-> 0]

Ids == 1 .. Len(inst)

(* Type invariant of the registry, of LM Studio's loads, the jobs and the clients. *)
TypeOK ==
    /\ inst \in Seq(Entry) /\ Len(inst) <= MaxInstances
    /\ ext \in [Model -> {Absent, NoGpu} \union Gpu]
    /\ live \in [Model -> Load]
    /\ \A j \in Job :
          /\ job[j].pc \in {"idle", "planning", "executing", "allocating", "health", "warmup"}
          /\ job[j].demand \in [Model -> Demands]
          /\ DOMAIN job[j].todo \subseteq Model
          /\ \A m \in DOMAIN job[j].todo : job[j].todo[m] \in Decision
          /\ job[j].id \in 0 .. Len(inst)
    /\ client \in [Client -> [at : 0 .. MaxInstances, leased : BOOLEAN]]
    /\ file.inst \in Seq(Entry) /\ Len(file.inst) <= Len(inst)
    /\ file.ext \in [Model -> {Absent, NoGpu} \union Gpu]
    /\ faults \in 0 .. MaxFaults

Init ==
    /\ inst = <<>>
    /\ ext = [m \in Model |-> Absent]
    /\ live = [m \in Model |-> NoLoad]
    /\ job = [j \in Job |-> Idle]
    /\ client = [c \in Client |-> [at |-> 0, leased |-> FALSE]]
    /\ file = [inst |-> inst, ext |-> ext]
    /\ faults = 0

----------------------------------------------------------------------------
(* save: the file holds the registry, or the last write raises and leaves it at f. *)
Saved == file' = [inst |-> inst', ext |-> ext'] /\ UNCHANGED faults

Raises(f) ==
    /\ faults < MaxFaults
    /\ faults' = faults + 1
    /\ file' = f

Unwritten == UNCHANGED <<file, faults>>

----------------------------------------------------------------------------
(* Registry queries *)
ForModel(m, states) == {i \in Ids : inst[i].model = m /\ inst[i].state \in states}

Ready(m) == ForModel(m, {"ready"})

(* reserved_vram_by_gpu *)
Reserved(g) ==
    LET Vram(m) == Profile[m].vram
        VramOf(i) == Vram(inst[i].model)
    IN  MapThenSumSet(VramOf, {i \in Ids : inst[i].gpu = g /\ inst[i].state \in Active})
        + MapThenSumSet(Vram, {m \in Model : ext[m] = g})

(* choose_gpu: the inventory's free memory is at most the GPU's size. *)
MayPlace(m, g) == Reserved(g) + Profile[m].vram <= Capacity[g]

DesiredReplicas(m, d) ==
    Min({Profile[m].max,
         Max({Profile[m].min, Cardinality(Ready(m))}) + IF d.queued THEN 1 ELSE 0})

(* profile_with_context_plan: what the plan leaves open stays as configured. *)
ShapeFor(m, d) ==
    [k \in {"context", "parallel"} |->
        IF d.queued /\ d.shape[k] > 0 THEN d.shape[k] ELSE Profile[m].shape[k]]

(* Mutant: the port of a backend that was stopped is given away. *)
NextHostPortOfActive(reg, m) ==
    Min({p \in Profile[m].port .. Profile[m].port + Len(reg) :
            \A i \in DOMAIN reg : reg[i].state \in Active => reg[i].port # p})

(* next_host_port, over the entries that are in the registry, stopped ones included. *)
NextHostPort(reg, m) ==
    Min({p \in Profile[m].port .. Profile[m].port + Len(reg) :
            \A i \in DOMAIN reg : reg[i].state # "removed" => reg[i].port # p})

----------------------------------------------------------------------------
(* The adapters, as functions of a registry reg and of the loads. *)

(* maybe_load_lmstudio: a load that is already there is used but not owned, and none
   is made for a profile that says so or where the lms command is missing. *)
Owns(loads, m) == m \in Lmstudio => Profile[m].loads /\ loads[m] = NoLoad

(* start_instance and upsert *)
Started(reg, m, g, shape, own) ==
    Append(reg, [model |-> m, gpu |-> g, state |-> "starting", owned |-> own, active |-> 0,
                 shape |-> shape, port |-> NextHostPort(reg, m)])

Loaded(loads, m, shape) ==
    IF m \in Lmstudio /\ Owns(loads, m)
    THEN [loads EXCEPT ![m] = [loaded |-> TRUE, shape |-> shape]]
    ELSE loads

(* Mutant: the entry is left in an intermediate state. *)
StoppedHalfway(reg, S, F) ==
    [i \in DOMAIN reg |-> IF i \in S THEN [reg[i] EXCEPT !.state = "stopping"] ELSE reg[i]]

(* stop_instance for the entries S, where the command, or the write of "stopped",
   raises for those in F. *)
Stopped(reg, S, F) ==
    [i \in DOMAIN reg |-> IF i \in S
                          THEN [reg[i] EXCEPT !.state = IF i \in F THEN "failed" ELSE "stopped"]
                          ELSE reg[i]]

Unloaded(S) ==
    [m \in Model |-> IF \E i \in S : inst[i].model = m /\ inst[i].owned THEN NoLoad ELSE live[m]]

(* What the commands leave loaded: those that raised may have done their work. *)
LeftLoaded(S, F) == {Unloaded(S \ X) : X \in SUBSET F}

(***************************************************************************)
(* The entries S of reg were stopped and a write in the stop of i raises:  *)
(* the one of "draining", before the command, or the one of "failed" in    *)
(* the except clause.  written says if the step wrote the file before.     *)
(***************************************************************************)
StopRaises(reg, S, F, i, written) ==
    LET done == Stopped(reg, S, F)
        Marked(state) == [done EXCEPT ![i].state = state]
    IN  \/ /\ inst' = Marked("draining")
           /\ live' \in LeftLoaded(S, F)
           /\ Raises(IF written THEN [inst |-> done, ext |-> ext'] ELSE file)
        \/ /\ inst' = Marked("failed")
           /\ live' \in LeftLoaded(S \union {i}, F \union {i})
           /\ Raises([inst |-> Marked("draining"), ext |-> ext'])

----------------------------------------------------------------------------
(* loaded_models: what "lms ps" reports, nothing at all when the command fails. *)
Readings == {live, [m \in Model |-> NoLoad]}

(* sync_live_lmstudio_state: any entry of the model, whatever its state, takes the load. *)
Matched(m) == ext[m] # Absent \/ ForModel(m, States \ {"removed"}) # {}

SyncedInst(seen) ==
    [i \in Ids |-> IF seen[inst[i].model] = NoLoad \/ inst[i].state = "removed" THEN inst[i]
                   ELSE [inst[i] EXCEPT !.shape = seen[inst[i].model].shape]]

(* gpu_ids_from_lmstudio_load gives g: the GPU the load names, the preferred one, or none. *)
SyncedExt(seen, g) ==
    [m \in Model |-> IF seen[m] = NoLoad THEN Absent
                     ELSE IF Matched(m) THEN ext[m] ELSE g]

(* The entries and the external entries that the sync writes. *)
SyncedIds(seen) ==
    {i \in Ids : inst[i].state # "removed" /\ seen[inst[i].model] # NoLoad}

SyncedModels(seen) ==
    {m \in Model : ext[m] # Absent \/ (seen[m] # NoLoad /\ ~Matched(m))}

(* Mutant: active requests do not count. *)
IdleOrBusy == {i \in Ids : inst[i].state = "ready"}

(* Mutant: one too many. *)
RemovableAndOne(m) == Cardinality(Ready(m)) - Profile[m].min + 1

IdleCandidates == {i \in Ids : inst[i].state = "ready" /\ inst[i].active = 0}

RemovableCount(m) == Cardinality(Ready(m)) - Profile[m].min

(* stop_idle_instances: what it may stop, whichever entries have passed their TTL. *)
IdleStops(quiet) ==
    {S \in SUBSET IdleCandidates :
        \A m \in Model : LET stops == {i \in S : inst[i].model = m}
                        IN  stops # {} => m \in quiet /\ Cardinality(stops) <= RemovableCount(m)}

(* POST /reconcile up to its first await. *)
Reconcile(j) ==
    /\ job[j].pc = "idle"
    /\ \E d \in [Model -> Demands], seen \in Readings, g \in ExternalGpus :
       \E S \in IdleStops({m \in Model : ~d[m].queued}) : \E F \in SUBSET S :
          /\ inst' = Stopped(SyncedInst(seen), S, F)
          /\ ext' = SyncedExt(seen, g)
          /\ live' \in LeftLoaded(S, F)
          /\ job' = [job EXCEPT ![j] = [Idle EXCEPT !.pc = "planning", !.demand = d]]
          /\ IF S \union SyncedIds(seen) = {} /\ SyncedModels(seen) = {} THEN Unwritten ELSE Saved
    /\ UNCHANGED client

(* The registry when the sync has got as far as the entries X and the models E. *)
PartlySynced(seen, g, X, E) ==
    [inst |-> [i \in Ids |-> IF i \in X THEN SyncedInst(seen)[i] ELSE inst[i]],
     ext  |-> [m \in Model |-> IF m \in E THEN SyncedExt(seen, g)[m] ELSE ext[m]]]

(***************************************************************************)
(* A write of the sync raises, in whatever order it comes to the entries,  *)
(* or one of the idle stops after it: the reconcile ends there.            *)
(***************************************************************************)
SyncRaises ==
    /\ faults < MaxFaults
    /\ \E seen \in Readings, g \in ExternalGpus :
       \E X \in SUBSET SyncedIds(seen), E \in SUBSET SyncedModels(seen) :
          /\ inst' = PartlySynced(seen, g, X, E).inst
          /\ ext' = PartlySynced(seen, g, X, E).ext
          /\ \/ \E i \in X : Raises(IF X = {i} /\ E = {} THEN file
                                     ELSE PartlySynced(seen, g, X \ {i}, E))
             \/ \E m \in E : Raises(IF X = {} /\ E = {m} THEN file
                                     ELSE PartlySynced(seen, g, X, E \ {m}))
    /\ UNCHANGED <<live, job, client>>

ReconcileRaises ==
    /\ faults < MaxFaults
    /\ \E seen \in Readings, g \in ExternalGpus :
       \E S \in IdleStops(Model) : \E i \in S : \E F \in SUBSET (S \ {i}) :
          /\ ext' = SyncedExt(seen, g)
          /\ StopRaises(SyncedInst(seen), S \ {i}, F, i,
                        S # {i} \/ SyncedIds(seen) # {} \/ SyncedModels(seen) # {})
    /\ UNCHANGED <<job, client>>

(* purge_stale_instances: old records of LM Studio's models leave the registry. *)
Purgeable(reg) ==
    {i \in Ids : reg[i].model \in Lmstudio /\ reg[i].state \in {"stopped", "failed"}}

Purged(reg, P) ==
    [i \in Ids |-> IF i \in P THEN [reg[i] EXCEPT !.state = "removed"] ELSE reg[i]]

(* POST /cleanup: stop idle ones of whichever models have nothing queued, then purge. *)
Cleanup ==
    /\ UNCHANGED <<ext, job, client>>
    /\ \E S \in IdleStops(Model) : \E F \in SUBSET S :
       \E P \in SUBSET Purgeable(Stopped(inst, S, F)) :
          /\ inst' = Purged(Stopped(inst, S, F), P)
          /\ live' \in LeftLoaded(S, F)
          /\ IF S \union P = {} THEN Unwritten ELSE Saved

(* A write of a stop, or the one after the removal of p, raises. *)
CleanupRaises ==
    /\ faults < MaxFaults
    /\ UNCHANGED <<ext, job, client>>
    /\ \E S \in IdleStops(Model) :
          \/ \E i \in S : \E F \in SUBSET (S \ {i}) : StopRaises(inst, S \ {i}, F, i, S # {i})
          \/ \E F \in SUBSET S : \E P \in SUBSET Purgeable(Stopped(inst, S, F)) : \E p \in P :
                /\ inst' = Purged(Stopped(inst, S, F), P)
                /\ live' \in LeftLoaded(S, F)
                /\ Raises(IF S = {} /\ P = {p} THEN file
                          ELSE [inst |-> Purged(Stopped(inst, S, F), P \ {p}), ext |-> ext])

----------------------------------------------------------------------------
(* assess_reload_need for an entry of shape s *)
Assess(m, s, d) ==
    LET want == ShapeFor(m, d)
    IN  IF want.context > 0 /\ s.context = 0 THEN "hard"
        ELSE IF want.parallel > 0 /\ s.parallel = 0 THEN "soft"
        ELSE IF s.context > 0 /\ s.context < d.required THEN "hard"
        ELSE IF s.context < want.context THEN IF Profile[m].bucketOnly THEN "soft" ELSE "keep"
        ELSE IF s.parallel < want.parallel THEN "soft" ELSE "fits"

(* The shape that LM Studio reports, or else the recorded one. *)
LiveShape(i, seen) ==
    LET m == inst[i].model IN IF seen[m] = NoLoad THEN inst[i].shape ELSE seen[m].shape

(* Mutant: instances that are still starting are considered as well. *)
MisfitsOfAll(m, d, seen) == {i \in ForModel(m, Active) : Assess(m, LiveShape(i, seen), d) # "fits"}

Misfits(m, d, seen) ==
    {i \in ForModel(m, {"ready", "draining"}) : Assess(m, LiveShape(i, seen), d) # "fits"}

(* reload_dwell_satisfied is asked of a soft mismatch only; "keep" is a noop decision. *)
MayReload(assessment, reload) ==
    (IF assessment \in {"hard", "soft"} THEN {<<reload>>} ELSE {})
        \union (IF assessment \in {"soft", "keep"} THEN {<<>>} ELSE {})

(* reload_decision_for_context_plan: the first entry that does not fit decides. *)
ReloadDecisions(m, d, seen) ==
    LET i == Min(Misfits(m, d, seen))
        reload == [act |-> "reload", gpu |-> inst[i].gpu, id |-> i, shape |-> ShapeFor(m, d)]
    IN  IF m \notin Lmstudio \/ Misfits(m, d, seen) = {} THEN {<<>>}
        ELSE MayReload(Assess(m, LiveShape(i, seen), d), reload)

(* plan, for one model: the decisions it may come to, <<>> for none to carry out. *)
Decisions(m, d, seen) ==
    IF d.oversized THEN {<<>>}
    ELSE IF DesiredReplicas(m, d) > Cardinality(ForModel(m, Active))
    THEN {<<>>} \union {<<[act |-> "start", gpu |-> g, id |-> 0, shape |-> ShapeFor(m, d)]>> :
                            g \in {h \in Gpu : MayPlace(m, h)}}
    ELSE IF d.queued THEN ReloadDecisions(m, d, seen)
    ELSE {<<>>}

(* What is left of a reconcile once its decision for m was carried out. *)
Rest(j, m) == Restrict(job[j].todo, DOMAIN job[j].todo \ {m})

Continue(todo) ==
    IF todo = Nothing THEN Idle ELSE [Idle EXCEPT !.pc = "executing", !.todo = todo]

(* gpu_states answered: plan decides for all models at once. *)
Plan(j) ==
    /\ job[j].pc = "planning"
    /\ \E seen \in Readings :
       \E f \in [Model -> UNION {Decisions(m, job[j].demand[m], seen) : m \in Model}] :
          /\ \A m \in Model : f[m] \in Decisions(m, job[j].demand[m], seen)
          /\ job' = [job EXCEPT ![j] =
                        Continue([m \in {n \in Model : f[n] # <<>>} |-> f[m][1]])]
    /\ UNCHANGED <<inst, ext, live, client>>
    /\ Unwritten

(* From here initialize_instance runs for the entry just appended. *)
Initialise(j, todo) ==
    job' = [job EXCEPT ![j] = [Idle EXCEPT !.pc = "health", !.todo = todo, !.id = Len(inst')]]

(* The write that enters the new entry raises: the entry is there, the handler ends. *)
UpsertRaises(j, f) ==
    /\ job' = [job EXCEPT ![j] = Idle]
    /\ Raises(f)

(* The decision to start a replica, carried out after another await. *)
StartPlanned(j, m) ==
    /\ job[j].pc = "executing"
    /\ m \in DOMAIN job[j].todo
    /\ job[j].todo[m].act = "start"
    /\ Len(inst) < MaxInstances
    /\ inst' = Started(inst, m, job[j].todo[m].gpu, job[j].todo[m].shape, Owns(live, m))
    /\ live' = Loaded(live, m, job[j].todo[m].shape)
    /\ UNCHANGED <<ext, client>>
    /\ \/ Initialise(j, Rest(j, m)) /\ Saved
       \/ UpsertRaises(j, file)

(* reload_instance: an entry with active requests is drained, an unowned load is left. *)
ReloadPlanned(j, m) ==
    /\ job[j].pc = "executing"
    /\ m \in DOMAIN job[j].todo
    /\ job[j].todo[m].act = "reload"
    /\ UNCHANGED <<ext, client>>
    /\ LET i == job[j].todo[m].id
           shape == job[j].todo[m].shape
       IN  /\ inst[i].state # "removed"
           /\ \/ /\ inst[i].active > 0
                 /\ inst[i].state = "draining"
                 /\ job' = [job EXCEPT ![j] = Continue(Rest(j, m))]
                 /\ UNCHANGED <<inst, live>>
                 /\ Unwritten
              \/ /\ inst[i].active > 0
                 /\ inst[i].state # "draining"
                 /\ inst' = [inst EXCEPT ![i].state = "draining"]
                 /\ \/ job' = [job EXCEPT ![j] = Continue(Rest(j, m))] /\ Saved
                    \/ job' = [job EXCEPT ![j] = Idle] /\ Raises(file)
                 /\ UNCHANGED live
              \/ /\ inst[i].active = 0
                 /\ ~inst[i].owned
                 /\ job' = [job EXCEPT ![j] = Continue(Rest(j, m))]
                 /\ UNCHANGED <<inst, live>>
                 /\ Unwritten
              \/ /\ inst[i].active = 0
                 /\ inst[i].owned
                 /\ StopRaises(inst, {}, {}, i, FALSE)
                 /\ job' = [job EXCEPT ![j] = Idle]
              \/ /\ inst[i].active = 0
                 /\ inst[i].owned
                 /\ \E F \in SUBSET {i} : \E left \in LeftLoaded({i}, F) :
                       \/ /\ Len(inst) < MaxInstances
                          /\ inst' = Started(Stopped(inst, {i}, F), m,
                                             job[j].todo[m].gpu, shape, Owns(left, m))
                          /\ live' = Loaded(left, m, shape)
                          /\ \/ Initialise(j, Rest(j, m)) /\ Saved
                             \/ UpsertRaises(j, [inst |-> Stopped(inst, {i}, F), ext |-> ext])
                       \/ /\ inst' = Stopped(inst, {i}, F)   \* start_instance raises
                          /\ live' = left
                          /\ job' = [job EXCEPT ![j] = Idle]
                          /\ Saved

(* POST /allocations when no instance of the model is ready. *)
Allocate(j, m) ==
    /\ job[j].pc = "idle"
    /\ Ready(m) = {}
    /\ job' = [job EXCEPT ![j] = [Idle EXCEPT !.pc = "allocating",
                 !.todo = [n \in {m} |-> [act |-> "allocate", gpu |-> NoGpu, id |-> 0,
                                          shape |-> Profile[m].shape]]]]
    /\ UNCHANGED <<inst, ext, live, client>>
    /\ Unwritten

(* The GPU is chosen and the instance entered in one step, after the last await. *)
AllocateStart(j, m) ==
    /\ job[j].pc = "allocating"
    /\ m \in DOMAIN job[j].todo
    /\ Len(inst) < MaxInstances
    /\ \E g \in {h \in Gpu : MayPlace(m, h)} :
          inst' = Started(inst, m, g, job[j].todo[m].shape, Owns(live, m))
    /\ live' = Loaded(live, m, job[j].todo[m].shape)
    /\ UNCHANGED <<ext, client>>
    /\ \/ Initialise(j, Nothing) /\ Saved
       \/ UpsertRaises(j, file)

(* The inventory or the model check fails, no GPU has room, a start raises, or an
   entry to reload is gone: the handler ends. *)
Abandon(j) ==
    /\ job[j].pc \in {"planning", "executing", "allocating"}
    /\ job' = [job EXCEPT ![j] = Idle]
    /\ UNCHANGED <<inst, ext, live, client>>
    /\ Unwritten

----------------------------------------------------------------------------
(* initialize_instance *)
Healthy(j) ==
    /\ job[j].pc = "health"
    /\ inst' = [inst EXCEPT ![job[j].id].state = "warming"]
    /\ job' = [job EXCEPT ![j].pc = "warmup"]
    /\ UNCHANGED <<ext, live, client>>
    /\ Saved

Warmed(j) ==
    /\ job[j].pc = "warmup"
    /\ inst' = [inst EXCEPT ![job[j].id].state = "ready"]
    /\ job' = [job EXCEPT ![j] = Continue(job[j].todo)]
    /\ UNCHANGED <<ext, live, client>>
    /\ Saved

(* Mutant: the failure is not recorded. *)
InitFailsUnmarked(j) ==
    /\ job[j].pc \in {"health", "warmup"}
    /\ live' \in {live, Unloaded({job[j].id})}
    /\ job' = [job EXCEPT ![j] = Continue(job[j].todo)]
    /\ UNCHANGED <<inst, ext, client>>
    /\ Unwritten

(* Any exception, of a write as well: the backend is stopped if that works, and marked
   failed.  If the write of that raises, the handler ends. *)
InitFails(j) ==
    /\ job[j].pc \in {"health", "warmup"}
    /\ inst' = [inst EXCEPT ![job[j].id].state = "failed"]
    /\ live' \in {live, Unloaded({job[j].id})}
    /\ UNCHANGED <<ext, client>>
    /\ \/ job' = [job EXCEPT ![j] = Continue(job[j].todo)] /\ Saved
       \/ job' = [job EXCEPT ![j] = Idle] /\ Raises(file)

----------------------------------------------------------------------------
(* A proxy reads the registry and chooses a ready instance, or is given one. *)
Choose(c) ==
    /\ client[c].at = 0
    /\ \E i \in Ids : /\ inst[i].state = "ready"
                      /\ client' = [client EXCEPT ![c].at = i]
    /\ UNCHANGED <<inst, ext, live, job>>
    /\ Unwritten

(* The lease does not look at the state; an entry that is gone refuses it.  If the write
   raises it is counted, but not granted. *)
Lease(c) ==
    /\ client[c].at # 0
    /\ ~client[c].leased
    /\ UNCHANGED <<ext, live, job>>
    /\ \/ /\ inst[client[c].at].state # "removed"
          /\ inst' = [inst EXCEPT ![client[c].at].active = @ + 1]
          /\ \/ client' = [client EXCEPT ![c].leased = TRUE] /\ Saved
             \/ client' = [client EXCEPT ![c].at = 0] /\ Raises(file)
       \/ /\ inst[client[c].at].state = "removed"
          /\ client' = [client EXCEPT ![c].at = 0]
          /\ UNCHANGED inst
          /\ Unwritten

Release(c) ==
    /\ client[c].leased
    /\ UNCHANGED <<ext, live, job>>
    /\ \/ /\ inst[client[c].at].state # "removed"
          /\ inst' = [inst EXCEPT ![client[c].at].active = Max({0, @ - 1})]
          /\ Saved \/ Raises(file)
       \/ /\ inst[client[c].at].state = "removed"
          /\ UNCHANGED inst
          /\ Unwritten
    /\ client' = [client EXCEPT ![c] = [at |-> 0, leased |-> FALSE]]

(* LM Studio's own TTL or its user unloads a model; its user loads one. *)
LoadVanishes(m) ==
    /\ live[m] # NoLoad
    /\ live' = [live EXCEPT ![m] = NoLoad]
    /\ UNCHANGED <<inst, ext, job, client>>
    /\ Unwritten

UserLoads(m) ==
    /\ m \in Lmstudio
    /\ live[m] = NoLoad
    /\ live' = [live EXCEPT ![m] = [loaded |-> TRUE, shape |-> Profile[m].shape]]
    /\ UNCHANGED <<inst, ext, job, client>>
    /\ Unwritten

(* load: entries that never reached the file are gone. *)
LoadedFromFile ==
    [i \in Ids |-> IF i \in DOMAIN file.inst THEN file.inst[i]
                   ELSE [inst[i] EXCEPT !.state = "removed"]]

(* The process stops and loads the file; what was under way is lost. *)
Restart ==
    /\ Restarts
    /\ inst' = LoadedFromFile
    /\ ext' = file.ext
    /\ job' = [j \in Job |-> Idle]
    /\ UNCHANGED <<live, client>>
    /\ Unwritten

JobStep(j) ==
    \/ Plan(j) \/ Abandon(j) \/ Healthy(j) \/ Warmed(j) \/ InitFails(j)
    \/ \E m \in Model : StartPlanned(j, m) \/ ReloadPlanned(j, m) \/ AllocateStart(j, m)

Next ==
    \/ \E j \in Job : Reconcile(j) \/ JobStep(j) \/ \E m \in Model : Allocate(j, m)
    \/ Cleanup
    \/ SyncRaises \/ ReconcileRaises \/ CleanupRaises
    \/ \E c \in Client : Choose(c) \/ Lease(c) \/ Release(c)
    \/ \E m \in Model : LoadVanishes(m) \/ UserLoads(m)
    \/ Restart

Spec == Init /\ [][Next]_vars

----------------------------------------------------------------------------
Initialising(j) == job[j].pc \in {"health", "warmup"}

(***************************************************************************)
(* While initialize_instance runs, its entry stays in the registry and in  *)
(* the state that job gave it, and no other job initialises it: whatever   *)
(* reconcile, reload, cleanup and purge do meanwhile, the final mark_state *)
(* neither raises nor brings a stopped backend back into rotation.         *)
(***************************************************************************)
InitialisingUntouched ==
    \A j \in Job : Initialising(j) =>
        /\ inst[job[j].id].state = IF job[j].pc = "health" THEN "starting" ELSE "warming"
        /\ \A k \in Job : Initialising(k) /\ job[k].id = job[j].id => k = j

(* The step is a restart. *)
Restarted ==
    /\ inst' = LoadedFromFile
    /\ \A j \in Job : job'[j] = Idle
    /\ UNCHANGED <<live, client, file, faults>>

Orphans ==
    {i \in Ids : /\ inst[i].state \in Transient
                 /\ \A j \in Job : Initialising(j) => job[j].id # i}

(***************************************************************************)
(* An entry that is starting or warming while no job initialises it keeps  *)
(* its VRAM and counts as a replica for ever.  Whatever fails or is        *)
(* reloaded meanwhile, only two things leave one: a restart, or the write  *)
(* that enters a new instance when it raises, for that instance alone.     *)
(***************************************************************************)
OrphanedByFailure ==
    \/ Orphans' \subseteq Orphans
    \/ faults' > faults /\ Orphans' \subseteq Orphans \union {Len(inst) + 1}
    \/ Restarted

OrphansHaveCause == [][OrphanedByFailure]_vars

(***************************************************************************)
(* No two entries of the registry have the same host port, those whose     *)
(* stop failed included: their containers may still hold it.  Ports are    *)
(* computed by start_instance and entered by a later upsert, in any of the *)
(* jobs under way.                                                         *)
(***************************************************************************)
PortsDistinct ==
    \A i, k \in Ids : /\ i # k
                      /\ inst[i].state # "removed"
                      /\ inst[k].state # "removed"
                      => inst[i].port # inst[k].port

(***************************************************************************)
(* controller.py: "Scale one replica per reconcile cycle so placement can  *)
(* account for each newly reserved backend before making the next          *)
(* decision".  What is reserved on a GPU fits on it.                       *)
(***************************************************************************)
PlacementsFit == \A g \in Gpu : Reserved(g) <= Capacity[g]

(***************************************************************************)
(* An instance that a proxy has leased and that is still ready or draining *)
(* is not stopped, failed or purged before the lease ends, also when the   *)
(* lease came after a plan to reload it or after it was chosen.  A restart *)
(* may only forget that a stopped entry was set to draining, if the write  *)
(* of that raised.                                                         *)
(***************************************************************************)
KeepsLeased ==
    \A c \in Client : client[c].leased /\ client'[c].leased =>
        LET i == client[c].at
        IN  \/ inst[i].state \in {"ready", "draining"} => inst'[i].state \in {"ready", "draining"}
            \/ Restarted /\ inst[i].state = "draining"

LeasedBackendKept == [][KeepsLeased]_vars

(* A step that carries out the decision to reload m. *)
Reloading(m) ==
    \E j \in Job : /\ m \in DOMAIN job[j].todo
                  /\ job[j].todo[m].act = "reload"
                  /\ job'[j] # job[j]

(***************************************************************************)
(* docs/REAL_RUN_PREP.md: "Idle stop only applies to ready instances with  *)
(* active_requests == 0 above min_replicas".  Only a reload takes a model  *)
(* below its minimum of ready instances.                                   *)
(***************************************************************************)
KeepsMinimum ==
    \A m \in Model : Cardinality(Ready(m)') < Cardinality(Ready(m)) =>
        Cardinality(Ready(m)') >= Profile[m].min \/ Reloading(m)

IdleStopKeepsMinimum == [][KeepsMinimum]_vars

(***************************************************************************)
(* docs/TASK_CONTEXT_ORCHESTRATION_PLAN.md: "LM Studio reloads must be     *)
(* graceful: drain first, unload only owned loads".  A reload does not     *)
(* take the load away from a ready instance that serves requests.          *)
(***************************************************************************)
ReloadsDrained ==
    \A m \in Model : Reloading(m) /\ live'[m] # live[m]
        => \A i \in Ready(m) : inst[i].active = 0

GracefulReload == [][ReloadsDrained]_vars
============================================================================
