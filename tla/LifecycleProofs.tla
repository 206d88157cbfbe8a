-------------------------- MODULE LifecycleProofs --------------------------
(***************************************************************************)
(* Theorems about Lifecycle, for any models, GPUs, demands and any number  *)
(* of handlers and clients: what the jobs under way and the registry they  *)
(* share promise each other, through failures and restarts.                *)
(***************************************************************************)
EXTENDS Lifecycle, FiniteSetTheorems, WellFoundedInduction, TLAPS

Phase == {"idle", "planning", "executing", "allocating", "health", "warmup"}

Todos == UNION {[D -> Decision] : D \in SUBSET Model}

JobRecord == [pc : Phase, demand : [Model -> Demands], todo : Todos, id : 0 .. MaxInstances]

Types ==
    /\ inst \in Seq(Entry) /\ Len(inst) <= MaxInstances
    /\ ext \in [Model -> {Absent, NoGpu} \union Gpu]
    /\ live \in [Model -> Load]
    /\ job \in [Job -> JobRecord]
    /\ client \in [Client -> [at : 0 .. MaxInstances, leased : BOOLEAN]]

(* A decision is carried out for its own model: a start or a reload has a GPU, and *)
(* an entry to reload exists and has left initialize_instance behind for good.     *)
TodoOK(j) ==
    \A m \in DOMAIN job[j].todo :
        /\ job[j].todo[m].act # "allocate" => job[j].todo[m].gpu \in Gpu
        /\ job[j].todo[m].act = "reload" =>
              /\ job[j].todo[m].id \in Ids
              /\ inst[job[j].todo[m].id].model = m
              /\ inst[job[j].todo[m].id].state \notin Transient

(* The entry a job initialises exists, in the state that job gave it. *)
InitOK(j) ==
    /\ job[j].id \in 0 .. Len(inst)
    /\ Initialising(j) =>
          /\ job[j].id \in Ids
          /\ inst[job[j].id].state = IF job[j].pc = "health" THEN "starting" ELSE "warming"

NoSharedEntry ==
    \A j, k \in Job : Initialising(j) /\ Initialising(k) /\ job[j].id = job[k].id => j = k

(* What a lease was taken on is in the registry, where the lease is counted. *)
ClientOK(c) ==
    /\ client[c].at \in 0 .. Len(inst)
    /\ client[c].leased => client[c].at # 0

LeaseHolders(i) == {c \in Client : client[c].leased /\ client[c].at = i}

LeasesCounted ==
    \A i \in Ids : inst[i].state # "removed" =>
        \A C \in SUBSET LeaseHolders(i) : IsFiniteSet(C) => Cardinality(C) <= inst[i].active

(***************************************************************************)
(* What a restart finds.  The file may lag behind the registry, but what   *)
(* it holds of an entry has the entry's model and port, no port twice, and *)
(* counts every lease; and an entry that is ready is ready in the file.    *)
(***************************************************************************)
Exts  == [Model -> {Absent, NoGpu} \union Gpu]
Filed == 1 .. Len(file.inst)

FileTypes ==
    /\ file.inst \in Seq(Entry) /\ Len(file.inst) <= Len(inst)
    /\ file.ext \in Exts
    /\ faults \in 0 .. MaxFaults

FileSame ==
    \A i \in Filed : file.inst[i].model = inst[i].model /\ file.inst[i].port = inst[i].port

FilePorts ==
    \A i, k \in Filed : /\ i # k
                        /\ file.inst[i].state # "removed"
                        /\ file.inst[k].state # "removed"
                        => file.inst[i].port # file.inst[k].port

FileLeases ==
    \A i \in Filed : file.inst[i].state # "removed" =>
        \A C \in SUBSET LeaseHolders(i) : IsFiniteSet(C) => Cardinality(C) <= file.inst[i].active

FileReady ==
    \A i \in Ids : inst[i].state = "ready" => i \in Filed /\ file.inst[i].state = "ready"

FileOK == FileTypes /\ FileSame /\ FilePorts /\ FileLeases /\ FileReady

(* The inductive invariant. *)
LInv ==
    /\ Types
    /\ \A j \in Job : TodoOK(j) /\ InitOK(j)
    /\ NoSharedEntry
    /\ \A c \in Client : ClientOK(c)
    /\ LeasesCounted
    /\ PortsDistinct
    /\ FileOK

----------------------------------------------------------------------------
LEMMA Registry ==
    ASSUME NEW n \in Nat, NEW f \in [1 .. n -> Entry]
    PROVE  f \in Seq(Entry) /\ Len(f) = n
OBVIOUS

LEMMA LeastOf ==
    ASSUME NEW S \in SUBSET Nat, S # {}
    PROVE  Min(S) \in S /\ \A y \in S : Min(S) <= y
<1>1. \E x \in S : \A y \in S : ~(<<y, x>> \in OpToRel(<, Nat))
  BY NatLessThanWellFounded, WFMin
<1>2. \A x, y \in Nat : ~(<<y, x>> \in OpToRel(<, Nat)) => x <= y
  BY DEF OpToRel
<1>3. \E x \in S : \A y \in S : x <= y
  BY <1>1, <1>2
<1> QED BY <1>3 DEF Min

(* next_host_port finds a port: among one more than the entries, one is free. *)
LEMMA PortFree ==
    ASSUME NEW reg \in Seq(Entry), NEW m \in Model
    PROVE  /\ NextHostPort(reg, m) \in Nat
           /\ \A i \in DOMAIN reg : reg[i].state # "removed" => reg[i].port # NextHostPort(reg, m)
<1> DEFINE n == Len(reg)
           first == Profile[m].port
           tried == first .. first + n
           used == {reg[i].port : i \in 1 .. n}
           free == {p \in tried : \A i \in DOMAIN reg : reg[i].state # "removed" => reg[i].port # p}
<1>1. n \in Nat /\ DOMAIN reg = 1 .. n /\ first \in Nat
  BY ProfileAssumption
<1>4. NextHostPort(reg, m) = Min(free)
  BY DEF NextHostPort
<1> HIDE DEF n, first
<1>2. free \in SUBSET Nat
  BY <1>1
<1>3. free # {}
  <2> SUFFICES ASSUME free = {} PROVE FALSE
    OBVIOUS
  <2>1. tried \in SUBSET used
    BY <1>1
  <2> DEFINE f == [i \in 1 .. n |-> reg[i].port]
  <2>2. f \in Surjection(1 .. n, used)
    <3>1. f \in [1 .. n -> used] /\ \A t \in used : \E i \in 1 .. n : f[i] = t
      OBVIOUS
    <3> QED BY <3>1 DEF Surjection
  <2>3. IsFiniteSet(1 .. n) /\ Cardinality(1 .. n) = n
    BY <1>1, FS_Interval
  <2>4. IsFiniteSet(used) /\ Cardinality(used) <= n
    <3> HIDE DEF f, used
    <3>1. IsFiniteSet(used) /\ Cardinality(used) <= Cardinality(1 .. n)
      BY <2>2, <2>3, FS_Surjection
    <3> QED BY <2>3, <3>1
  <2>5. Cardinality(tried) = n + 1
    BY <1>1, FS_Interval
  <2>6. Cardinality(tried) <= Cardinality(used) /\ Cardinality(used) \in Nat
    BY <2>1, <2>4, FS_Subset, FS_CardinalityType
  <2> HIDE DEF tried, used
  <2> QED BY <1>1, <2>4, <2>5, <2>6
<1>5. Min(free) \in free
  BY <1>2, <1>3, LeastOf
<1> QED BY <1>2, <1>4, <1>5

(* start_instance and upsert add one entry, which shares its port with no other. *)
LEMMA StartedEntry ==
    ASSUME NEW reg \in Seq(Entry), NEW m \in Model, NEW g \in Gpu, NEW shape \in Shape,
           NEW own \in BOOLEAN, NEW new, new = Started(reg, m, g, shape, own)
    PROVE  /\ new \in Seq(Entry) /\ Len(new) = Len(reg) + 1
           /\ \A i \in 1 .. Len(reg) : new[i] = reg[i]
           /\ new[Len(new)].state = "starting" /\ new[Len(new)].active = 0
           /\ \A i \in 1 .. Len(reg) : reg[i].state # "removed" => reg[i].port # new[Len(new)].port
<1> DEFINE entry == [model |-> m, gpu |-> g, state |-> "starting", owned |-> own,
                     active |-> 0, shape |-> shape, port |-> NextHostPort(reg, m)]
<1>1. NextHostPort(reg, m) \in Nat
      /\ \A i \in 1 .. Len(reg) : reg[i].state # "removed" => reg[i].port # NextHostPort(reg, m)
  BY PortFree
<1>2. entry \in Entry
  BY <1>1 DEF Entry, States, Active, Transient
<1>3. new = Append(reg, entry)
  BY DEF Started
<1>4. entry.state = "starting" /\ entry.active = 0 /\ entry.port = NextHostPort(reg, m)
  OBVIOUS
<1> HIDE DEF entry
<1>5. /\ new \in Seq(Entry) /\ Len(new) = Len(reg) + 1 /\ new[Len(new)] = entry
      /\ \A i \in 1 .. Len(reg) : new[i] = reg[i]
  BY <1>2, <1>3
<1> QED BY <1>1, <1>4, <1>5

LEMMA ShapeType ==
    ASSUME NEW m \in Model, NEW d \in Demands
    PROVE  ShapeFor(m, d) \in Shape
<1>1. d.shape \in Shape /\ Profile[m].shape \in Shape
  BY DemandsAssumption, ProfileAssumption DEF Shape
<1>2. \A k \in {"context", "parallel"} : ShapeFor(m, d)[k] \in Nat
  BY <1>1 DEF ShapeFor, Shape
<1> QED BY <1>2 DEF ShapeFor, Shape

LEMMA QuietType == Quiet \in [Model -> Demands]
BY DemandsAssumption DEF Quiet

LEMMA NothingType == Nothing \in Todos /\ DOMAIN Nothing = {}
BY DEF Nothing, Todos

LEMMA IdleType ==
    /\ Idle \in JobRecord /\ Idle.pc = "idle" /\ Idle.id = 0 /\ DOMAIN Idle.todo = {}
BY QuietType, NothingType, BoundAssumption DEF Idle, JobRecord, Phase

LEMMA ReadingType ==
    ASSUME Types, NEW seen \in Readings
    PROVE  seen \in [Model -> Load]
<1>1. NoLoad \in Load
  BY DEF NoLoad, Load, Shape
<1>2. [m \in Model |-> NoLoad] \in [Model -> Load]
  BY <1>1
<1> QED BY <1>2 DEF Types, Readings

----------------------------------------------------------------------------
(* What every step may do to an entry of the registry. *)
EntryStep(i) ==
    /\ inst'[i] \in Entry
    /\ inst'[i].model = inst[i].model /\ inst'[i].port = inst[i].port
    /\ inst[i].state = "removed" => inst'[i].state = "removed"
    /\ inst'[i].state \in Transient => inst[i].state \in Transient

RegistryStep ==
    /\ inst' \in Seq(Entry) /\ Len(inst') \in Len(inst) .. MaxInstances
    /\ Len(inst') <= Len(inst) + 1
    /\ \A i \in Ids : EntryStep(i)
    /\ \A i \in 1 .. Len(inst') : i \notin Ids =>
          \A k \in 1 .. Len(inst') :
             k # i /\ inst'[k].state # "removed" => inst'[i].port # inst'[k].port

LEMMA LenFacts ==
    ASSUME Types
    PROVE  /\ Len(inst) \in Nat /\ Ids = DOMAIN inst /\ inst \in [Ids -> Entry]
           /\ \A i \in Ids : inst[i] \in Entry /\ i \in Nat /\ i # 0
           /\ MaxInstances \in Nat
BY BoundAssumption DEF Types, Ids

(* The fields of an entry. *)
LEMMA EntryFields ==
    ASSUME NEW e \in Entry
    PROVE  /\ e.model \in Model /\ e.gpu \in Gpu /\ e.state \in States /\ e.owned \in BOOLEAN
           /\ e.active \in Nat /\ e.shape \in Shape /\ e.port \in Nat
BY DEF Entry

LEMMA PortsKept ==
    ASSUME LInv, RegistryStep
    PROVE  PortsDistinct'
<1> SUFFICES ASSUME NEW i \in 1 .. Len(inst'), NEW k \in 1 .. Len(inst'), i # k,
                    inst'[i].state # "removed", inst'[k].state # "removed"
             PROVE  inst'[i].port # inst'[k].port
  BY DEF PortsDistinct, Ids
<1>1. CASE i \notin Ids
  BY <1>1 DEF RegistryStep
<1>2. CASE k \notin Ids
  BY <1>2 DEF RegistryStep
<1>3. CASE i \in Ids /\ k \in Ids
  <2>1. EntryStep(i) /\ EntryStep(k)
    BY <1>3 DEF RegistryStep
  <2>2. inst[i].state # "removed" /\ inst[k].state # "removed"
    BY <2>1 DEF EntryStep
  <2>3. inst[i].port # inst[k].port
    BY <1>3, <2>2 DEF LInv, PortsDistinct
  <2> QED BY <2>1, <2>3 DEF EntryStep
<1> QED BY <1>1, <1>2, <1>3

(* A job keeps its decisions and its entry while others step. *)
LEMMA JobKept ==
    ASSUME LInv, RegistryStep, NEW j \in Job, job'[j] = job[j],
           Initialising(j) => inst'[job[j].id].state = inst[job[j].id].state
    PROVE  TodoOK(j)' /\ InitOK(j)'
<1>1. TodoOK(j) /\ InitOK(j) /\ Len(inst) \in Nat
  BY LenFacts DEF LInv
<1>2. \A i \in Ids : i \in 1 .. Len(inst') /\ EntryStep(i)
  BY <1>1 DEF RegistryStep, Ids
<1>3. TodoOK(j)'
  BY <1>1, <1>2 DEF TodoOK, EntryStep, Ids
<1>4. InitOK(j)'
  <2>1. job'[j].id \in 0 .. Len(inst')
    BY <1>1 DEF InitOK, RegistryStep
  <2> QED BY <1>1, <1>2, <2>1 DEF InitOK, Initialising, Ids
<1> QED BY <1>3, <1>4

(* The part of the invariant that is about the jobs. *)
JobsOK ==
    /\ job \in [Job -> JobRecord]
    /\ \A j \in Job : TodoOK(j) /\ InitOK(j)
    /\ NoSharedEntry

(* A step of job j.  If it begins to initialise an entry, that entry is new. *)
LEMMA JobsKept ==
    ASSUME LInv, RegistryStep, NEW j \in Job, NEW r \in JobRecord,
           job' = [job EXCEPT ![j] = r],
           \A k \in Job \ {j} : Initialising(k) =>
              inst'[job[k].id].state = inst[job[k].id].state,
           TodoOK(j)', InitOK(j)',
           Initialising(j)' => (Initialising(j) /\ r.id = job[j].id) \/ r.id \notin Ids
    PROVE  JobsOK'
<1>1. job \in [Job -> JobRecord]
  BY DEF LInv, Types
<1>2. job' \in [Job -> JobRecord] /\ job'[j] = r /\ \A k \in Job \ {j} : job'[k] = job[k]
  BY <1>1
<1>3. \A k \in Job : TodoOK(k)' /\ InitOK(k)'
  BY <1>2, JobKept
<1>4. NoSharedEntry'
  <2> SUFFICES ASSUME NEW k \in Job, NEW l \in Job, Initialising(k)', Initialising(l)',
                      job'[k].id = job'[l].id, k # l
               PROVE  FALSE
    BY DEF NoSharedEntry
  <2>1. \A x \in Job \ {j} : Initialising(x)' => Initialising(x) /\ job[x].id \in Ids
    BY <1>2 DEF Initialising, LInv, InitOK
  <2>2. CASE k # j /\ l # j
    BY <1>2, <2>1, <2>2 DEF LInv, NoSharedEntry
  <2>3. CASE k = j
    BY <1>2, <2>1, <2>3 DEF LInv, NoSharedEntry
  <2>4. CASE l = j
    BY <1>2, <2>1, <2>4 DEF LInv, NoSharedEntry
  <2> QED BY <2>2, <2>3, <2>4
<1> QED BY <1>2, <1>3, <1>4 DEF JobsOK

LEMMA JobsUnchanged ==
    ASSUME LInv, RegistryStep, UNCHANGED job,
           \A k \in Job : Initialising(k) => inst'[job[k].id].state = inst[job[k].id].state
    PROVE  JobsOK'
<1>1. \A k \in Job : TodoOK(k)' /\ InitOK(k)'
  BY JobKept
<1>2. NoSharedEntry' /\ job' \in [Job -> JobRecord]
  BY DEF LInv, Types, NoSharedEntry, Initialising
<1> QED BY <1>1, <1>2 DEF JobsOK

ClientsOK ==
    /\ client \in [Client -> [at : 0 .. MaxInstances, leased : BOOLEAN]]
    /\ \A c \in Client : ClientOK(c)
    /\ LeasesCounted

(* Leases and their counts do not change; a new entry has none. *)
LEMMA ClientsKept ==
    ASSUME LInv, RegistryStep, UNCHANGED client,
           \A i \in Ids : inst'[i].active = inst[i].active
    PROVE  ClientsOK'
<1>1. Len(inst) \in Nat /\ Len(inst') \in Nat /\ Len(inst') >= Len(inst) /\ inst' \in Seq(Entry)
  BY LenFacts DEF LInv, RegistryStep
<1>2. \A c \in Client : ClientOK(c)'
  BY <1>1 DEF LInv, ClientOK
<1>3. LeasesCounted'
  <2> SUFFICES ASSUME NEW i \in 1 .. Len(inst'), inst'[i].state # "removed",
                      NEW C \in SUBSET (LeaseHolders(i)'), IsFiniteSet(C)
               PROVE  Cardinality(C) <= inst'[i].active
    BY DEF LeasesCounted, Ids
  <2>1. LeaseHolders(i)' = LeaseHolders(i)
    BY DEF LeaseHolders
  <2>2. CASE i \in Ids
    <3>1. inst[i].state # "removed"
      BY <2>2 DEF RegistryStep, EntryStep
    <3> QED BY <2>1, <2>2, <3>1 DEF LInv, LeasesCounted
  <2>3. CASE i \notin Ids
    <3>1. \A c \in Client : client[c].at # i
      BY <1>1, <2>3 DEF LInv, ClientOK, Ids
    <3>2. C = {}
      BY <2>1, <3>1 DEF LeaseHolders
    <3>3. inst'[i].active \in Nat
      BY <1>1, EntryFields
    <3> QED BY <3>2, <3>3, FS_EmptySet
  <2> QED BY <2>2, <2>3
<1> QED BY <1>2, <1>3 DEF LInv, Types, ClientsOK

(***************************************************************************)
(* What a step may do to the file: write the registry as it is then; leave *)
(* the file alone; or write it halfway, when entries of inst were marked   *)
(* but the last change is still missing.  In the last two cases no entry   *)
(* becomes ready and no lease is granted.                                  *)
(***************************************************************************)
NoneReady ==
    \A i \in 1 .. Len(inst') : inst'[i].state = "ready" => i \in Ids /\ inst[i].state = "ready"

NoneLeased == \A i : LeaseHolders(i)' \subseteq LeaseHolders(i)

Halfway(reg) ==
    /\ reg \in [Ids -> Entry]
    /\ \A i \in Ids : /\ reg[i].model = inst[i].model /\ reg[i].port = inst[i].port
                      /\ reg[i].active = inst[i].active
                      /\ reg[i].state # "removed" => inst[i].state # "removed"
    /\ \A i \in 1 .. Len(inst') : inst'[i].state = "ready" => i \in Ids /\ reg[i].state = "ready"

FileStep ==
    /\ faults' \in 0 .. MaxFaults
    /\ \/ file' = [inst |-> inst', ext |-> ext']
       \/ UNCHANGED file /\ NoneReady /\ NoneLeased
       \/ /\ \E reg, e : file' = [inst |-> reg, ext |-> e] /\ Halfway(reg) /\ e \in Exts
          /\ NoneLeased

LEMMA FileKept ==
    ASSUME LInv, RegistryStep, ClientsOK', ext' \in Exts, FileStep
    PROVE  FileOK'
<1>0. /\ Len(inst) \in Nat /\ Len(inst') \in Nat /\ Len(inst) <= Len(inst')
      /\ faults' \in 0 .. MaxFaults /\ inst' \in Seq(Entry)
      /\ \A i \in Ids : i \in 1 .. Len(inst')
  BY LenFacts DEF LInv, RegistryStep, FileStep, Ids
<1>1. CASE file' = [inst |-> inst', ext |-> ext']
  <2>1. file'.inst = inst' /\ file'.ext = ext'
    BY <1>1
  <2>2. FileTypes' /\ FileSame' /\ FileReady'
    BY <1>0, <2>1 DEF FileTypes, FileSame, FileReady, Filed, Ids
  <2>3. PortsDistinct'
    BY PortsKept
  <2>4. FilePorts'
    BY <2>1, <2>3 DEF FilePorts, PortsDistinct, Filed, Ids
  <2>5. FileLeases'
    BY <2>1 DEF FileLeases, ClientsOK, LeasesCounted, Filed, Ids
  <2> QED BY <2>2, <2>4, <2>5 DEF FileOK
<1>2. CASE UNCHANGED file /\ NoneReady /\ NoneLeased
  <2>1. FileTypes /\ FileSame /\ FilePorts /\ FileLeases /\ FileReady
    BY DEF LInv, FileOK
  <2>2. file.inst \in Seq(Entry) /\ Len(file.inst) \in Nat /\ Len(file.inst) <= Len(inst)
        /\ \A i \in Filed : i \in Ids
    BY <1>0, <2>1 DEF FileTypes, Filed, Ids
  <2>3. FileTypes' /\ FilePorts'
    BY <1>0, <1>2, <2>1, <2>2 DEF FileTypes, FilePorts, Filed
  <2>4. FileSame'
    BY <1>2, <2>1, <2>2 DEF FileSame, Filed, RegistryStep, EntryStep
  <2>5. FileLeases'
    BY <1>2, <2>1 DEF FileLeases, Filed, NoneLeased
  <2>6. FileReady'
    BY <1>2, <2>1 DEF FileReady, Filed, NoneReady, Ids
  <2> QED BY <2>3, <2>4, <2>5, <2>6 DEF FileOK
<1>3. ASSUME NEW reg, NEW e, file' = [inst |-> reg, ext |-> e], Halfway(reg), e \in Exts, NoneLeased
      PROVE  FileOK'
  <2>1. file'.inst = reg /\ file'.ext = e
    BY <1>3
  <2>2. reg \in Seq(Entry) /\ Len(reg) = Len(inst)
    BY <1>0, <1>3, Registry DEF Halfway, Ids
  <2>3. FileTypes'
    BY <1>0, <1>3, <2>1, <2>2 DEF FileTypes
  <2>4. FileSame'
    BY <1>3, <2>1, <2>2 DEF FileSame, Filed, Halfway, Ids, RegistryStep, EntryStep
  <2>5. FilePorts'
    BY <1>3, <2>1, <2>2 DEF FilePorts, Filed, Halfway, Ids, LInv, PortsDistinct
  <2>6. FileLeases'
    BY <1>3, <2>1, <2>2 DEF FileLeases, Filed, Halfway, Ids, LInv, LeasesCounted, NoneLeased
  <2>7. FileReady'
    BY <1>3, <2>1, <2>2 DEF FileReady, Filed, Halfway, Ids
  <2> QED BY <2>3, <2>4, <2>5, <2>6, <2>7 DEF FileOK
<1> QED BY <1>1, <1>2, <1>3 DEF FileStep

LEMMA FaultTypes ==
    ASSUME LInv
    PROVE  /\ UNCHANGED faults => faults' \in 0 .. MaxFaults
           /\ \A f : Raises(f) => faults' \in 0 .. MaxFaults /\ faults' > faults /\ file' = f
<1>1. faults \in 0 .. MaxFaults /\ MaxFaults \in Nat
  BY BoundAssumption DEF LInv, FileOK, FileTypes
<1> QED BY <1>1 DEF Raises

LEMMA SavedStep ==
    ASSUME LInv, Saved
    PROVE  FileStep
BY FaultTypes DEF Saved, FileStep

LEMMA Unleased ==
    ASSUME UNCHANGED client
    PROVE  NoneLeased
BY DEF NoneLeased, LeaseHolders

(* The file is left alone, by a step that does not write or whose write raises. *)
LEMMA UnwrittenStep ==
    ASSUME LInv, Unwritten \/ Raises(file), NoneReady, NoneLeased
    PROVE  FileStep
<1>1. UNCHANGED file /\ faults' \in 0 .. MaxFaults
  BY FaultTypes DEF Unwritten
<1> QED BY <1>1 DEF FileStep

LEMMA IdleStep ==
    ASSUME LInv, Unwritten, UNCHANGED <<inst, client>>
    PROVE  FileStep
<1>1. NoneReady
  BY DEF NoneReady, Ids
<1> QED BY <1>1, Unleased, UnwrittenStep

LEMMA Assemble ==
    ASSUME LInv, RegistryStep, JobsOK', ClientsOK', ext' \in Exts, live' \in [Model -> Load],
           FileStep
    PROVE  LInv'
<1>1. PortsDistinct' /\ FileOK'
  BY PortsKept, FileKept
<1>2. Len(inst') <= MaxInstances
  BY LenFacts DEF LInv, RegistryStep
<1> QED BY <1>1, <1>2 DEF LInv, Types, Exts, RegistryStep, JobsOK, ClientsOK

----------------------------------------------------------------------------
(* The three ways a step changes the registry: not at all, in place, or by one entry. *)
LEMMA RegistrySame ==
    ASSUME LInv, UNCHANGED inst
    PROVE  RegistryStep
<1>1. Types
  BY DEF LInv
<1>2. \A i \in Ids : EntryStep(i)
  BY <1>1, LenFacts DEF EntryStep
<1>3. inst' \in Seq(Entry) /\ Len(inst') \in Len(inst) .. MaxInstances /\ Len(inst') <= Len(inst) + 1
  BY <1>1, LenFacts DEF Types
<1> QED BY <1>2, <1>3 DEF RegistryStep, Ids

LEMMA RegistryInPlace ==
    ASSUME LInv, inst' \in [Ids -> Entry], \A i \in Ids : EntryStep(i)
    PROVE  RegistryStep /\ Len(inst') = Len(inst)
<1>1. Types /\ Len(inst) \in Nat
  BY LenFacts DEF LInv
<1>2. inst' \in Seq(Entry) /\ Len(inst') = Len(inst)
  BY <1>1, Registry DEF Ids
<1>3. Len(inst') \in Len(inst) .. MaxInstances /\ Len(inst') <= Len(inst) + 1
  BY <1>1, <1>2, LenFacts DEF Types
<1> QED BY <1>2, <1>3 DEF RegistryStep, Ids

LEMMA RegistryPlusOne ==
    ASSUME LInv, NEW reg \in [Ids -> Entry], NEW m \in Model, NEW g \in Gpu,
           NEW shape \in Shape, NEW own \in BOOLEAN,
           Len(inst) < MaxInstances, inst' = Started(reg, m, g, shape, own),
           \A i \in Ids : /\ reg[i].model = inst[i].model /\ reg[i].port = inst[i].port
                          /\ inst[i].state = "removed" => reg[i].state = "removed"
                          /\ reg[i].state \in Transient => inst[i].state \in Transient
    PROVE  /\ RegistryStep
           /\ Len(inst') = Len(inst) + 1 /\ Len(inst) + 1 \notin Ids
           /\ inst'[Len(inst')].state = "starting"
           /\ \A i \in Ids : inst'[i] = reg[i]
<1>1. Types /\ Len(inst) \in Nat /\ MaxInstances \in Nat
  BY LenFacts DEF LInv
<1>2. reg \in Seq(Entry) /\ Len(reg) = Len(inst)
  BY <1>1, Registry DEF Ids
<1>3. /\ inst' \in Seq(Entry) /\ Len(inst') = Len(inst) + 1
      /\ \A i \in Ids : inst'[i] = reg[i]
      /\ inst'[Len(inst')].state = "starting"
      /\ \A i \in Ids : reg[i].state # "removed" => reg[i].port # inst'[Len(inst')].port
  BY <1>2, StartedEntry DEF Ids
<1>4. \A i \in Ids : EntryStep(i)
  BY <1>3 DEF EntryStep
<1>5. ASSUME NEW i \in 1 .. Len(inst'), i \notin Ids, NEW k \in 1 .. Len(inst'), k # i,
             inst'[k].state # "removed"
      PROVE  inst'[i].port # inst'[k].port
  <2>1. i = Len(inst') /\ k \in Ids
    BY <1>1, <1>3, <1>5 DEF Ids
  <2> QED BY <1>3, <1>5, <2>1
<1>6. Len(inst') \in Len(inst) .. MaxInstances /\ Len(inst') <= Len(inst) + 1
      /\ Len(inst) + 1 \notin Ids
  BY <1>1, <1>3 DEF Ids
<1> QED BY <1>3, <1>4, <1>5, <1>6 DEF RegistryStep

(* mark_state changes the state of an entry and nothing else. *)
LEMMA MarkedEntry ==
    ASSUME NEW e \in Entry, NEW s \in States, NEW f, f = [e EXCEPT !.state = s]
    PROVE  /\ f \in Entry /\ f.state = s
           /\ f.model = e.model /\ f.port = e.port /\ f.active = e.active
BY DEF Entry

(* stop_instance does so for the entries it stops. *)
LEMMA StoppedType ==
    ASSUME NEW n \in Nat, NEW reg \in [1 .. n -> Entry], NEW S, NEW F, NEW new,
           new = Stopped(reg, S, F)
    PROVE  /\ new \in [1 .. n -> Entry]
           /\ \A i \in 1 .. n :
                 /\ new[i].model = reg[i].model /\ new[i].port = reg[i].port
                 /\ new[i].active = reg[i].active
                 /\ i \notin S => new[i] = reg[i]
                 /\ i \in S => new[i].state \in {"stopped", "failed"}
<1>1. \A i \in 1 .. n :
        new[i] = IF i \in S
                 THEN [reg[i] EXCEPT !.state = IF i \in F THEN "failed" ELSE "stopped"]
                 ELSE reg[i]
  BY DEF Stopped
<1>3. ASSUME NEW i \in 1 .. n
      PROVE  /\ new[i] \in Entry
             /\ new[i].model = reg[i].model /\ new[i].port = reg[i].port
             /\ new[i].active = reg[i].active
             /\ i \notin S => new[i] = reg[i]
             /\ i \in S => new[i].state \in {"stopped", "failed"}
  <2>1. CASE i \in S
    <3>1. PICK s \in {"stopped", "failed"} : new[i] = [reg[i] EXCEPT !.state = s]
      BY <1>1, <2>1
    <3>2. reg[i] \in Entry /\ s \in States
      BY DEF States
    <3>3. /\ new[i] \in Entry /\ new[i].state = s
          /\ new[i].model = reg[i].model /\ new[i].port = reg[i].port
          /\ new[i].active = reg[i].active
      BY <3>1, <3>2, MarkedEntry
    <3> QED BY <2>1, <3>3
  <2>2. CASE i \notin S
    BY <1>1, <2>2
  <2> QED BY <2>1, <2>2
<1>4. new = [i \in 1 .. n |-> new[i]]
  BY DEF Stopped
<1> QED BY <1>3, <1>4

LEMMA UnloadedType ==
    ASSUME Types, NEW S
    PROVE  Unloaded(S) \in [Model -> Load]
BY DEF Types, Unloaded, NoLoad, Load, Shape

LEMMA LoadedType ==
    ASSUME NEW loads \in [Model -> Load], NEW m \in Model, NEW shape \in Shape
    PROVE  Loaded(loads, m, shape) \in [Model -> Load]
<1>1. [loaded |-> TRUE, shape |-> shape] \in Load
  BY DEF Load
<1> QED BY <1>1 DEF Loaded

LEMMA LeftType ==
    ASSUME Types, NEW S, NEW F, NEW left \in LeftLoaded(S, F)
    PROVE  left \in [Model -> Load]
<1>1. PICK X : left = Unloaded(S \ X)
  BY DEF LeftLoaded
<1> QED BY <1>1, UnloadedType

(* sync_live_lmstudio_state changes recorded shapes only. *)
LEMMA SyncedType ==
    ASSUME Types, NEW seen \in Readings, NEW new, new = SyncedInst(seen)
    PROVE  /\ new \in [Ids -> Entry]
           /\ \A i \in Ids : /\ new[i].model = inst[i].model /\ new[i].port = inst[i].port
                             /\ new[i].active = inst[i].active
                             /\ new[i].state = inst[i].state
<1>1. \A i \in Ids : inst[i] \in Entry
  BY LenFacts
<1>2. \A i \in Ids : seen[inst[i].model].shape \in Shape
  BY <1>1, ReadingType DEF Entry, Load
<1>3. ASSUME NEW e \in Entry, NEW s \in Shape
      PROVE  /\ [e EXCEPT !.shape = s] \in Entry
             /\ [e EXCEPT !.shape = s].model = e.model /\ [e EXCEPT !.shape = s].port = e.port
             /\ [e EXCEPT !.shape = s].active = e.active
             /\ [e EXCEPT !.shape = s].state = e.state
  BY <1>3 DEF Entry
<1>4. \A i \in Ids : /\ new[i] \in Entry
                     /\ new[i].model = inst[i].model /\ new[i].port = inst[i].port
                     /\ new[i].active = inst[i].active /\ new[i].state = inst[i].state
  BY <1>1, <1>2, <1>3 DEF SyncedInst
<1>5. new = [i \in Ids |-> new[i]]
  BY DEF SyncedInst
<1> QED BY <1>4, <1>5

(* The tables of decisions that a job carries. *)
LEMMA RestType ==
    ASSUME NEW j \in Job, Types, NEW m
    PROVE  /\ Rest(j, m) \in Todos
           /\ DOMAIN Rest(j, m) = DOMAIN job[j].todo \ {m}
           /\ \A n \in DOMAIN Rest(j, m) : Rest(j, m)[n] = job[j].todo[n]
<1>1. job[j].todo \in Todos
  BY DEF Types, JobRecord
<1>2. PICK D \in SUBSET Model : job[j].todo \in [D -> Decision]
  BY <1>1 DEF Todos
<1>3. Rest(j, m) \in [D \ {m} -> Decision]
  BY <1>2 DEF Rest, Restrict
<1>4. DOMAIN Rest(j, m) = DOMAIN job[j].todo \ {m}
      /\ \A n \in DOMAIN Rest(j, m) : Rest(j, m)[n] = job[j].todo[n]
  BY DEF Rest, Restrict
<1> QED BY <1>3, <1>4 DEF Todos

(* The fields a job writes when it moves on. *)
LEMMA JobAt ==
    ASSUME NEW r \in JobRecord, NEW p \in Phase, NEW f, f = [r EXCEPT !.pc = p]
    PROVE  f \in JobRecord /\ f.pc = p /\ f.id = r.id /\ f.todo = r.todo
BY DEF JobRecord

LEMMA JobTodo ==
    ASSUME NEW p \in Phase, NEW todo \in Todos
    PROVE  /\ [Idle EXCEPT !.pc = p, !.todo = todo] \in JobRecord
           /\ [Idle EXCEPT !.pc = p, !.todo = todo].pc = p
           /\ [Idle EXCEPT !.pc = p, !.todo = todo].id = 0
           /\ [Idle EXCEPT !.pc = p, !.todo = todo].todo = todo
<1>1. 0 \in 0 .. MaxInstances
  BY BoundAssumption
<1> QED BY <1>1, QuietType DEF Idle, JobRecord

LEMMA JobDemand ==
    ASSUME NEW p \in Phase, NEW demand \in [Model -> Demands]
    PROVE  /\ [Idle EXCEPT !.pc = p, !.demand = demand] \in JobRecord
           /\ [Idle EXCEPT !.pc = p, !.demand = demand].pc = p
           /\ [Idle EXCEPT !.pc = p, !.demand = demand].id = 0
           /\ [Idle EXCEPT !.pc = p, !.demand = demand].todo = Nothing
<1>1. 0 \in 0 .. MaxInstances
  BY BoundAssumption
<1> QED BY <1>1, NothingType DEF Idle, JobRecord

LEMMA ContinueType ==
    ASSUME NEW todo \in Todos
    PROVE  /\ Continue(todo) \in JobRecord /\ Continue(todo).pc \in {"idle", "executing"}
           /\ Continue(todo).id = 0 /\ Continue(todo).todo = todo
<1> DEFINE r == [Idle EXCEPT !.pc = "executing", !.todo = todo]
<1>1. r \in JobRecord /\ r.pc = "executing" /\ r.id = 0 /\ r.todo = todo
  <2>1. "executing" \in Phase
    BY DEF Phase
  <2> QED BY <2>1, JobTodo
<1> HIDE DEF r
<1>2. Idle.todo = Nothing
  BY DEF Idle
<1>3. Continue(todo) = IF todo = Nothing THEN Idle ELSE r
  BY DEF Continue, r
<1> QED BY <1>1, <1>2, <1>3, IdleType

----------------------------------------------------------------------------
(***************************************************************************)
(* Reconcile and cleanup stop idle ready entries, those in S, and purge    *)
(* stopped ones.  A stop whose write raised is left as it was marked.      *)
(***************************************************************************)
Retired(new, S) ==
    /\ new \in [Ids -> Entry]
    /\ \A i \in Ids :
          /\ new[i].model = inst[i].model /\ new[i].port = inst[i].port
          /\ new[i].active = inst[i].active
          /\ i \notin S => \/ new[i].state = inst[i].state
                           \/ /\ inst[i].state \in {"stopped", "failed"}
                              /\ new[i].state = "removed"
          /\ i \in S => /\ inst[i].state = "ready" /\ inst[i].active = 0
                        /\ new[i].state \in {"draining", "stopped", "failed", "removed"}

Retires(S) == Retired(inst', S)

(* stop_idle_instances, in a reconcile or a cleanup. *)
IdleStop == \E quiet \in SUBSET Model : \E S \in IdleStops(quiet) : Retires(S)

LEMMA Mirrored ==
    ASSUME Types, NEW seen \in Readings
    PROVE  Retired(inst, {}) /\ Retired(SyncedInst(seen), {})
<1>1. inst \in [Ids -> Entry]
  BY LenFacts
<1> DEFINE reg == SyncedInst(seen)
<1>2. /\ reg \in [Ids -> Entry]
      /\ \A i \in Ids : /\ reg[i].model = inst[i].model /\ reg[i].port = inst[i].port
                        /\ reg[i].active = inst[i].active
                        /\ reg[i].state = inst[i].state
  BY SyncedType
<1> HIDE DEF reg
<1>3. Retired(inst, {}) /\ Retired(reg, {})
  BY <1>1, <1>2 DEF Retired
<1> QED BY <1>3 DEF reg

LEMMA IdleOnes ==
    ASSUME NEW quiet, NEW S \in IdleStops(quiet)
    PROVE  S \in SUBSET Ids /\ \A i \in S : inst[i].state = "ready" /\ inst[i].active = 0
BY DEF IdleStops, IdleCandidates

(* Stops in a registry reg that has the states of inst. *)
LEMMA StoppedRetired ==
    ASSUME Types, NEW reg, Retired(reg, {}), NEW S, NEW F, NEW new, new = Stopped(reg, S, F),
           \A i \in S : inst[i].state = "ready" /\ inst[i].active = 0
    PROVE  Retired(new, S)
<1>1. /\ reg \in [1 .. Len(inst) -> Entry] /\ Len(inst) \in Nat
  BY LenFacts DEF Retired, Ids
<1>2. /\ new \in [Ids -> Entry]
      /\ \A i \in Ids :
            /\ new[i].model = reg[i].model /\ new[i].port = reg[i].port
            /\ new[i].active = reg[i].active
            /\ i \notin S => new[i] = reg[i]
            /\ i \in S => new[i].state \in {"stopped", "failed"}
  BY <1>1, StoppedType DEF Ids
<1> QED BY <1>2 DEF Retired

(* One more entry, which was idle, is marked. *)
LEMMA MarkedRetired ==
    ASSUME Types, NEW S, NEW reg, Retired(reg, S), NEW i \in Ids \ S,
           inst[i].state = "ready", inst[i].active = 0,
           NEW state \in {"draining", "failed"}, NEW new, new = [reg EXCEPT ![i].state = state]
    PROVE  Retired(new, S \union {i})
<1>1. reg \in [Ids -> Entry] /\ state \in States
  BY DEF Retired, States, Active
<1>2. new[i] = [reg[i] EXCEPT !.state = state] /\ \A k \in Ids \ {i} : new[k] = reg[k]
  BY <1>1
<1>3. /\ new[i] \in Entry /\ new[i].state = state
      /\ new[i].model = reg[i].model /\ new[i].port = reg[i].port /\ new[i].active = reg[i].active
  BY <1>1, <1>2, MarkedEntry
<1>4. new \in [Ids -> Entry]
  BY <1>1, <1>2, <1>3
<1> QED BY <1>2, <1>3, <1>4 DEF Retired

LEMMA PurgedRetired ==
    ASSUME Types, NEW S, NEW reg, Retired(reg, S), NEW P \in SUBSET Purgeable(reg),
           NEW new, new = Purged(reg, P)
    PROVE  Retired(new, S)
<1>0. reg \in [Ids -> Entry] /\ "removed" \in States
  BY DEF Retired, States
<1>1. new = [i \in Ids |-> IF i \in P THEN [reg[i] EXCEPT !.state = "removed"] ELSE reg[i]]
  BY DEF Purged
<1>2. ASSUME NEW i \in Ids
      PROVE  /\ new[i] \in Entry
             /\ new[i].model = reg[i].model /\ new[i].port = reg[i].port
             /\ new[i].active = reg[i].active
             /\ new[i].state = IF i \in P THEN "removed" ELSE reg[i].state
  <2>1. CASE i \in P
    <3>1. new[i] = [reg[i] EXCEPT !.state = "removed"] /\ reg[i] \in Entry
      BY <1>0, <1>1, <2>1
    <3> QED BY <1>0, <2>1, <3>1, MarkedEntry
  <2>2. CASE i \notin P
    BY <1>0, <1>1, <2>2
  <2> QED BY <2>1, <2>2
<1>3. new \in [Ids -> Entry]
  BY <1>1, <1>2
<1>4. \A i \in P : i \in Ids /\ reg[i].state \in {"stopped", "failed"}
  BY DEF Purgeable
<1> QED BY <1>2, <1>3, <1>4 DEF Retired

LEMMA RetiresStep ==
    ASSUME LInv, NEW S, Retires(S)
    PROVE  /\ RegistryStep
           /\ \A k \in Job : Initialising(k) => inst'[job[k].id].state = inst[job[k].id].state
           /\ \A i \in Ids : inst'[i].active = inst[i].active
           /\ Len(inst') = Len(inst)
           /\ NoneReady
<1>0. inst' \in [Ids -> Entry]
  BY DEF Retires, Retired
<1>1. \A i \in Ids : EntryStep(i)
  BY DEF Retires, Retired, EntryStep, Transient
<1>2. \A k \in Job : Initialising(k) => /\ job[k].id \in Ids
                                        /\ inst[job[k].id].state \in {"starting", "warming"}
  BY DEF LInv, InitOK
<1>3. RegistryStep /\ Len(inst') = Len(inst)
  BY <1>0, <1>1, RegistryInPlace
<1>4. NoneReady
  BY <1>3 DEF NoneReady, Retires, Retired, Ids
<1> QED BY <1>2, <1>3, <1>4 DEF Retires, Retired

(* A write that raised among the stops leaves the file with some of them. *)
LEMMA RetiredPart ==
    ASSUME LInv, NEW S, Retires(S), NEW T, T \subseteq S, NEW reg, Retired(reg, T),
           NEW e \in Exts, Raises([inst |-> reg, ext |-> e]), UNCHANGED client
    PROVE  FileStep
<1>1. NoneReady /\ NoneLeased
  BY RetiresStep, Unleased
<1>2. Halfway(reg)
  <2>1. reg \in [Ids -> Entry]
        /\ \A i \in Ids : /\ reg[i].model = inst[i].model /\ reg[i].port = inst[i].port
                          /\ reg[i].active = inst[i].active
                          /\ reg[i].state # "removed" => inst[i].state # "removed"
    BY DEF Retired
  <2>2. ASSUME NEW i \in 1 .. Len(inst'), inst'[i].state = "ready"
        PROVE  i \in Ids /\ reg[i].state = "ready"
    <3>1. i \in Ids /\ inst[i].state = "ready"
      BY <1>1, <2>2 DEF NoneReady
    <3>2. i \notin S
      BY <2>2, <3>1 DEF Retires, Retired
    <3> QED BY <3>1, <3>2 DEF Retired
  <2> QED BY <2>1, <2>2 DEF Halfway
<1>3. faults' \in 0 .. MaxFaults /\ file' = [inst |-> reg, ext |-> e]
  BY FaultTypes
<1> QED BY <1>1, <1>2, <1>3 DEF FileStep

LEMMA RaisedFile ==
    ASSUME LInv, NEW S, Retires(S), Unwritten \/ Raises(file), UNCHANGED client
    PROVE  FileStep
BY RetiresStep, Unleased, UnwrittenStep

(* A stop of idle entries in which a write raises. *)
LEMMA StopRaisesRetires ==
    ASSUME LInv, NEW reg, Retired(reg, {}), NEW quiet, NEW S \in IdleStops(quiet), NEW i \in S,
           NEW F, NEW written, StopRaises(reg, S \ {i}, F, i, written),
           ext' \in Exts, UNCHANGED client
    PROVE  Retires(S) /\ FileStep /\ live' \in [Model -> Load]
<1>0. Types /\ i \in Ids /\ \A k \in S : inst[k].state = "ready" /\ inst[k].active = 0
  BY IdleOnes DEF LInv
<1> DEFINE T == S \ {i}
           done == Stopped(reg, T, F)
           Marked(state) == [done EXCEPT ![i].state = state]
<1>1. Retired(done, T)
  BY <1>0, StoppedRetired
<1>2. /\ i \in Ids \ T /\ T \union {i} = S /\ T \subseteq S
      /\ inst[i].state = "ready" /\ inst[i].active = 0
  BY <1>0
<1>3. \/ /\ inst' = Marked("draining")
         /\ live' \in LeftLoaded(T, F)
         /\ Raises([inst |-> done, ext |-> ext']) \/ Raises(file)
      \/ /\ inst' = Marked("failed")
         /\ live' \in LeftLoaded(S, F \union {i})
         /\ Raises([inst |-> Marked("draining"), ext |-> ext'])
  BY <1>2 DEF StopRaises
<1>4. live' \in [Model -> Load]
  BY <1>0, <1>3, LeftType
<1> HIDE DEF T, done
<1>5. Retired(Marked("draining"), S) /\ Retired(Marked("failed"), S)
  BY <1>0, <1>1, <1>2, MarkedRetired
<1> HIDE DEF Marked
<1>6. Retires(S)
  BY <1>3, <1>5 DEF Retires
<1>7. FileStep
  <2>1. CASE Raises(file)
    BY <1>6, <2>1, RaisedFile
  <2>2. CASE Raises([inst |-> done, ext |-> ext'])
    BY <1>1, <1>2, <1>6, <2>2, RetiredPart
  <2>3. CASE Raises([inst |-> Marked("draining"), ext |-> ext'])
    BY <1>5, <1>6, <2>3, RetiredPart
  <2> QED BY <1>3, <2>1, <2>2, <2>3
<1> QED BY <1>4, <1>6, <1>7

(* mark_state for the entry i. *)
LEMMA MarkStep ==
    ASSUME LInv, NEW i \in Ids, NEW s \in States, inst[i].state # "removed",
           inst' = [inst EXCEPT ![i].state = s], s \in Transient => inst[i].state \in Transient
    PROVE  /\ RegistryStep
           /\ inst'[i].state = s
           /\ \A k \in Ids \ {i} : inst'[k] = inst[k]
           /\ \A k \in Ids : inst'[k].active = inst[k].active
           /\ Len(inst') = Len(inst)
<1>1. inst \in [Ids -> Entry]
  BY LenFacts DEF LInv
<1>2. inst'[i] = [inst[i] EXCEPT !.state = s] /\ \A k \in Ids \ {i} : inst'[k] = inst[k]
  BY <1>1
<1>3. /\ inst'[i] \in Entry /\ inst'[i].state = s
      /\ inst'[i].model = inst[i].model /\ inst'[i].port = inst[i].port
      /\ inst'[i].active = inst[i].active
  BY <1>1, <1>2, MarkedEntry
<1>4. inst' \in [Ids -> Entry]
  BY <1>1, <1>2, <1>3
<1>5. \A k \in Ids : EntryStep(k)
  BY <1>1, <1>2, <1>3 DEF EntryStep
<1> QED BY <1>2, <1>3, <1>4, <1>5, RegistryInPlace

----------------------------------------------------------------------------
(* todo holds decisions that job j had already. *)
FromTodo(todo, j) ==
    \A m \in DOMAIN todo : m \in DOMAIN job[j].todo /\ todo[m] = job[j].todo[m]

OthersUntouched(j) ==
    \A k \in Job \ {j} : Initialising(k) => inst'[job[k].id].state = inst[job[k].id].state

LEMMA TodoKept ==
    ASSUME LInv, RegistryStep, NEW j \in Job, FromTodo(job'[j].todo, j)
    PROVE  TodoOK(j)'
<1>1. TodoOK(j) /\ Len(inst) \in Nat
  BY LenFacts DEF LInv
<1>2. \A i \in Ids : i \in 1 .. Len(inst') /\ EntryStep(i)
  BY <1>1 DEF RegistryStep, Ids
<1> QED BY <1>1, <1>2 DEF TodoOK, EntryStep, Ids, FromTodo

(* The job goes on with decisions it had, or ends, and initialises no entry. *)
LEMMA JobMovesOn ==
    ASSUME LInv, RegistryStep, NEW j \in Job, NEW r \in JobRecord,
           job' = [job EXCEPT ![j] = r], r.pc \notin {"health", "warmup"}, r.id = 0,
           FromTodo(r.todo, j), OthersUntouched(j)
    PROVE  JobsOK'
<1>1. job'[j] = r
  BY DEF LInv, Types
<1>2. TodoOK(j)'
  BY <1>1, TodoKept
<1>3. ~Initialising(j)'
  BY <1>1 DEF Initialising
<1>4. InitOK(j)'
  <2>1. Len(inst') \in Nat
    BY LenFacts DEF LInv, RegistryStep
  <2>2. 0 \in 0 .. Len(inst')
    BY <2>1
  <2> QED BY <1>1, <1>3, <2>2 DEF InitOK
<1> QED BY <1>2, <1>3, <1>4, JobsKept DEF OthersUntouched

(* The job begins to initialise the entry it has just added. *)
LEMMA JobBegins ==
    ASSUME LInv, RegistryStep, NEW j \in Job, NEW todo \in Todos, FromTodo(todo, j),
           Len(inst') = Len(inst) + 1, Len(inst) + 1 \notin Ids,
           inst'[Len(inst')].state = "starting", Initialise(j, todo), OthersUntouched(j)
    PROVE  JobsOK'
<1>1. PICK n \in 1 .. MaxInstances : n = Len(inst')
  <2>1. Len(inst) \in Nat /\ MaxInstances \in Nat
    BY LenFacts DEF LInv
  <2> QED BY <2>1 DEF RegistryStep
<1> DEFINE r == [Idle EXCEPT !.pc = "health", !.todo = todo, !.id = n]
<1>2. job' = [job EXCEPT ![j] = r]
  BY <1>1 DEF Initialise
<1>3. r \in JobRecord /\ r.pc = "health" /\ r.id = n /\ r.todo = todo
  <2>1. "health" \in Phase /\ n \in 0 .. MaxInstances
    BY DEF Phase
  <2>2. r \in JobRecord
    BY <2>1, QuietType DEF Idle, JobRecord
  <2>3. r.pc = "health" /\ r.todo = todo
    BY DEF Idle
  <2>4. r.id = n
    BY DEF Idle
  <2> QED BY <2>2, <2>3, <2>4
<1> HIDE DEF r
<1>4. job'[j] = r
  BY <1>2 DEF LInv, Types
<1>5. TodoOK(j)'
  BY <1>3, <1>4, TodoKept
<1>6. InitOK(j)'
  BY <1>1, <1>3, <1>4 DEF InitOK, Initialising, Ids
<1>7. r.id \notin Ids
  BY <1>1, <1>3
<1> QED BY <1>2, <1>3, <1>5, <1>6, <1>7, JobsKept DEF OthersUntouched

LEMMA EndsJob ==
    ASSUME LInv, RegistryStep, NEW j \in Job, OthersUntouched(j), job' = [job EXCEPT ![j] = Idle]
    PROVE  JobsOK'
<1>1. FromTodo(Idle.todo, j)
  BY IdleType DEF FromTodo
<1> QED BY <1>1, IdleType, JobMovesOn

LEMMA LiveSame ==
    ASSUME LInv
    PROVE  /\ UNCHANGED ext => ext' \in Exts
           /\ UNCHANGED live => live' \in [Model -> Load]
           /\ \A S : live' = Unloaded(S) => live' \in [Model -> Load]
BY UnloadedType DEF LInv, Types, Exts

LEMMA SyncedExtType ==
    ASSUME Types, NEW seen, NEW g \in ExternalGpus
    PROVE  SyncedExt(seen, g) \in Exts
BY ExternalAssumption DEF Types, SyncedExt, Exts

LEMMA ReconcileStops ==
    ASSUME LInv, NEW j \in Job, Reconcile(j)
    PROVE  IdleStop /\ FileStep /\ live' \in [Model -> Load] /\ ext' \in Exts
<1>0. Types /\ UNCHANGED client
  BY DEF LInv, Reconcile
<1>1. PICK d \in [Model -> Demands], seen \in Readings, g \in ExternalGpus :
        \E S \in IdleStops({m \in Model : ~d[m].queued}) : \E F \in SUBSET S :
          /\ inst' = Stopped(SyncedInst(seen), S, F)
          /\ ext' = SyncedExt(seen, g)
          /\ live' \in LeftLoaded(S, F)
          /\ Unwritten \/ Saved
  BY DEF Reconcile
<1>2. PICK S \in IdleStops({m \in Model : ~d[m].queued}) : \E F :
          /\ inst' = Stopped(SyncedInst(seen), S, F)
          /\ ext' = SyncedExt(seen, g)
          /\ live' \in LeftLoaded(S, F)
          /\ Unwritten \/ Saved
  BY <1>1
<1>6. PICK F :
          /\ inst' = Stopped(SyncedInst(seen), S, F)
          /\ ext' = SyncedExt(seen, g)
          /\ live' \in LeftLoaded(S, F)
          /\ Unwritten \/ Saved
  BY <1>2
<1>3. Retires(S)
  BY <1>0, <1>6, IdleOnes, Mirrored, StoppedRetired DEF Retires
<1>4. IdleStop
  <2>1. {m \in Model : ~d[m].queued} \in SUBSET Model
    OBVIOUS
  <2> QED BY <1>3, <2>1 DEF IdleStop
<1>5. FileStep
  BY <1>0, <1>6, <1>3, SavedStep, RaisedFile
<1> QED BY <1>0, <1>6, <1>4, <1>5, LeftType, SyncedExtType

LEMMA CleanupStops ==
    ASSUME LInv, Cleanup
    PROVE  IdleStop /\ FileStep /\ live' \in [Model -> Load] /\ ext' \in Exts
<1>0. Types /\ UNCHANGED <<ext, client>>
  BY DEF LInv, Cleanup
<1>1. PICK S \in IdleStops(Model) : \E F \in SUBSET S :
        \E P \in SUBSET Purgeable(Stopped(inst, S, F)) :
          /\ inst' = Purged(Stopped(inst, S, F), P)
          /\ live' \in LeftLoaded(S, F)
          /\ Unwritten \/ Saved
  BY DEF Cleanup
<1>8. PICK F \in SUBSET S : \E P \in SUBSET Purgeable(Stopped(inst, S, F)) :
          /\ inst' = Purged(Stopped(inst, S, F), P)
          /\ live' \in LeftLoaded(S, F)
          /\ Unwritten \/ Saved
  BY <1>1
<1>2. PICK P \in SUBSET Purgeable(Stopped(inst, S, F)) :
          /\ inst' = Purged(Stopped(inst, S, F), P)
          /\ live' \in LeftLoaded(S, F)
          /\ Unwritten \/ Saved
  BY <1>8
<1>3. Retired(inst, {})
  BY <1>0, Mirrored DEF Readings
<1>4. Retired(Stopped(inst, S, F), S)
  BY <1>0, <1>3, IdleOnes, StoppedRetired
<1>5. Retires(S)
  BY <1>0, <1>2, <1>4, PurgedRetired DEF Retires
<1>6. IdleStop
  BY <1>5 DEF IdleStop
<1>7. FileStep
  BY <1>0, <1>2, <1>5, SavedStep, RaisedFile
<1> QED BY <1>0, <1>2, <1>6, <1>7, LeftType, LiveSame

LEMMA SyncRaisesStops ==
    ASSUME LInv, SyncRaises
    PROVE  IdleStop /\ FileStep /\ live' \in [Model -> Load] /\ ext' \in Exts
<1>0. Types /\ UNCHANGED <<live, job, client>>
  BY DEF LInv, SyncRaises
<1>10. PICK seen \in Readings, g \in ExternalGpus : \E X, E :
          /\ inst' = PartlySynced(seen, g, X, E).inst
          /\ ext' = PartlySynced(seen, g, X, E).ext
          /\ Raises(file) \/ \E Y, D : Raises(PartlySynced(seen, g, Y, D))
  BY DEF SyncRaises
<1>1. PICK X, E :
          /\ inst' = PartlySynced(seen, g, X, E).inst
          /\ ext' = PartlySynced(seen, g, X, E).ext
          /\ Raises(file) \/ \E Y, D : Raises(PartlySynced(seen, g, Y, D))
  BY <1>10
<1> DEFINE reg(Y) == [i \in Ids |-> IF i \in Y THEN SyncedInst(seen)[i] ELSE inst[i]]
           e(D) == [m \in Model |-> IF m \in D THEN SyncedExt(seen, g)[m] ELSE ext[m]]
<1>2. \A Y, D : PartlySynced(seen, g, Y, D) = [inst |-> reg(Y), ext |-> e(D)]
  BY DEF PartlySynced
<1>3. ASSUME NEW Y
      PROVE  Retired(reg(Y), {})
  <2>1. Retired(inst, {}) /\ Retired(SyncedInst(seen), {})
    BY <1>0, Mirrored
  <2>2. \A i \in Ids : reg(Y)[i] = SyncedInst(seen)[i] \/ reg(Y)[i] = inst[i]
    OBVIOUS
  <2>3. reg(Y) \in [Ids -> Entry]
    BY <2>1 DEF Retired
  <2> HIDE DEF reg
  <2> QED BY <2>1, <2>2, <2>3 DEF Retired
<1>4. ASSUME NEW D
      PROVE  e(D) \in Exts
  <2>1. SyncedExt(seen, g) \in Exts /\ ext \in Exts
    BY <1>0, SyncedExtType DEF Types, Exts
  <2> QED BY <2>1 DEF Exts
<1>5. inst' = reg(X) /\ ext' = e(E)
  BY <1>1, <1>2
<1> HIDE DEF reg, e
<1>6. Retires({})
  BY <1>3, <1>5 DEF Retires
<1>7. IdleStop
  <2>1. {} \in IdleStops(Model)
    BY DEF IdleStops
  <2> QED BY <1>6, <2>1 DEF IdleStop
<1>8. FileStep
  <2>1. CASE Raises(file)
    BY <1>0, <1>6, <2>1, RaisedFile
  <2>2. ASSUME NEW Y, NEW D, Raises(PartlySynced(seen, g, Y, D))
        PROVE  FileStep
    BY <1>0, <1>2, <1>3, <1>4, <1>6, <2>2, RetiredPart
  <2> QED BY <1>1, <2>1, <2>2
<1> QED BY <1>0, <1>4, <1>5, <1>7, <1>8, LiveSame

LEMMA ReconcileRaisesStops ==
    ASSUME LInv, ReconcileRaises
    PROVE  IdleStop /\ FileStep /\ live' \in [Model -> Load] /\ ext' \in Exts
<1>0. Types /\ UNCHANGED client
  BY DEF LInv, ReconcileRaises
<1>1. PICK seen \in Readings, g \in ExternalGpus, S \in IdleStops(Model) :
        \E i \in S : \E F, written :
          ext' = SyncedExt(seen, g) /\ StopRaises(SyncedInst(seen), S \ {i}, F, i, written)
  BY DEF ReconcileRaises
<1>5. PICK i \in S : \E F, written :
          ext' = SyncedExt(seen, g) /\ StopRaises(SyncedInst(seen), S \ {i}, F, i, written)
  BY <1>1
<1>2. PICK F, written :
          ext' = SyncedExt(seen, g) /\ StopRaises(SyncedInst(seen), S \ {i}, F, i, written)
  BY <1>5
<1>3. ext' \in Exts
  BY <1>0, <1>2, SyncedExtType
<1>4. Retires(S) /\ FileStep /\ live' \in [Model -> Load]
  BY <1>0, <1>2, <1>3, Mirrored, StopRaisesRetires
<1> QED BY <1>3, <1>4 DEF IdleStop

LEMMA CleanupRaisesStops ==
    ASSUME LInv, CleanupRaises
    PROVE  IdleStop /\ FileStep /\ live' \in [Model -> Load] /\ ext' \in Exts
<1>0. Types /\ UNCHANGED <<ext, client>> /\ ext' \in Exts /\ ext \in Exts
  BY LiveSame DEF LInv, CleanupRaises, Types, Exts
<1>1. Retired(inst, {})
  BY <1>0, Mirrored DEF Readings
<1>2. PICK S \in IdleStops(Model) :
        \/ \E i \in S : \E F, written : StopRaises(inst, S \ {i}, F, i, written)
        \/ \E F : \E P \in SUBSET Purgeable(Stopped(inst, S, F)) : \E p \in P :
              /\ inst' = Purged(Stopped(inst, S, F), P)
              /\ live' \in LeftLoaded(S, F)
              /\ \/ Raises(file)
                 \/ Raises([inst |-> Purged(Stopped(inst, S, F), P \ {p}), ext |-> ext])
  BY DEF CleanupRaises
<1>3. ASSUME NEW i \in S, NEW F, NEW written, StopRaises(inst, S \ {i}, F, i, written)
      PROVE  Retires(S) /\ FileStep /\ live' \in [Model -> Load]
  BY <1>0, <1>1, <1>3, StopRaisesRetires
<1>4. ASSUME NEW F, NEW P \in SUBSET Purgeable(Stopped(inst, S, F)), NEW p \in P,
             inst' = Purged(Stopped(inst, S, F), P), live' \in LeftLoaded(S, F),
             \/ Raises(file)
             \/ Raises([inst |-> Purged(Stopped(inst, S, F), P \ {p}), ext |-> ext])
      PROVE  Retires(S) /\ FileStep /\ live' \in [Model -> Load]
  <2> DEFINE reg == Stopped(inst, S, F)
             part == Purged(reg, P \ {p})
  <2>1. Retired(reg, S)
    BY <1>0, <1>1, IdleOnes, StoppedRetired
  <2>2. P \ {p} \in SUBSET Purgeable(reg)
    OBVIOUS
  <2>3. Retires(S) /\ Retired(part, S)
    BY <1>0, <1>4, <2>1, <2>2, PurgedRetired DEF Retires
  <2>4. Raises(file) \/ Raises([inst |-> part, ext |-> ext])
    BY <1>4
  <2> HIDE DEF reg, part
  <2>5. FileStep
    BY <1>0, <2>3, <2>4, RaisedFile, RetiredPart
  <2> QED BY <1>0, <1>4, <2>3, <2>5, LeftType
<1>5. Retires(S) /\ FileStep /\ live' \in [Model -> Load]
  BY <1>2, <1>3, <1>4
<1> QED BY <1>0, <1>5 DEF IdleStop

LEMMA ReconcileKeeps ==
    ASSUME LInv, NEW j \in Job, Reconcile(j)
    PROVE  RegistryStep /\ LInv'
<1>1. PICK d \in [Model -> Demands] :
          job' = [job EXCEPT ![j] = [Idle EXCEPT !.pc = "planning", !.demand = d]]
  BY DEF Reconcile
<1>2. IdleStop /\ FileStep /\ live' \in [Model -> Load] /\ ext' \in Exts
  BY ReconcileStops
<1>3. PICK S : Retires(S)
  BY <1>2 DEF IdleStop
<1>4. /\ RegistryStep /\ OthersUntouched(j)
      /\ \A i \in Ids : inst'[i].active = inst[i].active
  BY <1>3, RetiresStep DEF OthersUntouched
<1> DEFINE r == [Idle EXCEPT !.pc = "planning", !.demand = d]
<1>5. r \in JobRecord /\ r.pc = "planning" /\ r.id = 0 /\ r.todo = Nothing
  <2>1. "planning" \in Phase
    BY DEF Phase
  <2> QED BY <2>1, JobDemand
<1>6. job' = [job EXCEPT ![j] = r]
  BY <1>1
<1> HIDE DEF r
<1>7. FromTodo(r.todo, j)
  BY <1>5, NothingType DEF FromTodo
<1>8. JobsOK'
  BY <1>4, <1>5, <1>6, <1>7, JobMovesOn
<1>9. ClientsOK'
  BY <1>4, ClientsKept DEF Reconcile
<1> QED BY <1>2, <1>4, <1>8, <1>9, Assemble

(* A cleanup, or a reconcile or cleanup that ends with a write that raises. *)
LEMMA StopsKeep ==
    ASSUME LInv, Cleanup \/ SyncRaises \/ ReconcileRaises \/ CleanupRaises
    PROVE  RegistryStep /\ LInv'
<1>1. IdleStop /\ FileStep /\ live' \in [Model -> Load] /\ ext' \in Exts
  BY CleanupStops, SyncRaisesStops, ReconcileRaisesStops, CleanupRaisesStops
<1>2. PICK S : Retires(S)
  BY <1>1 DEF IdleStop
<1>3. UNCHANGED <<job, client>>
  BY DEF Cleanup, SyncRaises, ReconcileRaises, CleanupRaises
<1>4. /\ RegistryStep
      /\ \A k \in Job : Initialising(k) => inst'[job[k].id].state = inst[job[k].id].state
      /\ \A i \in Ids : inst'[i].active = inst[i].active
  BY <1>2, RetiresStep
<1>5. JobsOK' /\ ClientsOK'
  BY <1>3, <1>4, JobsUnchanged, ClientsKept
<1> QED BY <1>1, <1>4, <1>5, Assemble

----------------------------------------------------------------------------
(* A decision of plan is for its model: a start on a GPU, or the reload of one of the *)
(* model's entries that is ready or draining.                                         *)
LEMMA PlannedDecision ==
    ASSUME LInv, NEW m \in Model, NEW d \in Demands, NEW seen,
           NEW x \in Decisions(m, d, seen), x # <<>>
    PROVE  /\ x[1] \in Decision /\ x[1].gpu \in Gpu
           /\ x[1].act = "reload" => /\ x[1].id \in Ids
                                     /\ inst[x[1].id].model = m
                                     /\ inst[x[1].id].state \notin Transient
<1>1. ShapeFor(m, d) \in Shape /\ 0 \in 0 .. MaxInstances
  BY ShapeType, BoundAssumption
<1>2. CASE \E g \in Gpu : x = <<[act |-> "start", gpu |-> g, id |-> 0, shape |-> ShapeFor(m, d)]>>
  <2>1. PICK g \in Gpu : x = <<[act |-> "start", gpu |-> g, id |-> 0, shape |-> ShapeFor(m, d)]>>
    BY <1>2
  <2>2. x[1] = [act |-> "start", gpu |-> g, id |-> 0, shape |-> ShapeFor(m, d)]
    BY <2>1
  <2>3. x[1] \in Decision
    BY <1>1, <2>2 DEF Decision
  <2> QED BY <2>2, <2>3
<1>3. CASE x \in ReloadDecisions(m, d, seen)
  <2> DEFINE M == Misfits(m, d, seen)
             i == Min(M)
             dec == [act |-> "reload", gpu |-> inst[i].gpu, id |-> i, shape |-> ShapeFor(m, d)]
  <2>1. M # {} /\ x = <<dec>>
    BY <1>3 DEF ReloadDecisions, MayReload
  <2>2. M \in SUBSET Ids /\ Ids \in SUBSET Nat
    BY DEF Misfits, ForModel, Ids
  <2>3. i \in M
    BY <2>1, <2>2, LeastOf
  <2>4. i \in Ids /\ inst[i].model = m /\ inst[i].state \in {"ready", "draining"}
    BY <2>3 DEF Misfits, ForModel
  <2>5. inst[i].gpu \in Gpu /\ i \in 0 .. MaxInstances
    <3>1. inst[i] \in Entry
      BY <2>4, LenFacts DEF LInv
    <3>2. i \in 0 .. MaxInstances
      BY <2>4, LenFacts DEF LInv, Types, Ids
    <3> QED BY <3>1, <3>2, EntryFields
  <2>6. x[1] = dec
    BY <2>1
  <2> HIDE DEF i
  <2>7. x[1] \in Decision
    BY <1>1, <2>5, <2>6 DEF Decision
  <2>8. x[1].gpu \in Gpu /\ x[1].id = i
    BY <2>5, <2>6
  <2> QED BY <2>4, <2>7, <2>8 DEF Transient
<1>4. x \in ReloadDecisions(m, d, seen)
      \/ \E g \in Gpu : x = <<[act |-> "start", gpu |-> g, id |-> 0, shape |-> ShapeFor(m, d)]>>
  BY DEF Decisions
<1> QED BY <1>2, <1>3, <1>4

LEMMA PlanKeeps ==
    ASSUME LInv, NEW j \in Job, Plan(j)
    PROVE  RegistryStep /\ LInv'
<1>1. PICK seen \in Readings :
        \E f \in [Model -> UNION {Decisions(m, job[j].demand[m], seen) : m \in Model}] :
          /\ \A m \in Model : f[m] \in Decisions(m, job[j].demand[m], seen)
          /\ job' = [job EXCEPT ![j] =
                        Continue([m \in {n \in Model : f[n] # <<>>} |-> f[m][1]])]
  BY DEF Plan
<1>2. PICK f \in [Model -> UNION {Decisions(m, job[j].demand[m], seen) : m \in Model}] :
          /\ \A m \in Model : f[m] \in Decisions(m, job[j].demand[m], seen)
          /\ job' = [job EXCEPT ![j] =
                        Continue([m \in {n \in Model : f[n] # <<>>} |-> f[m][1]])]
  BY <1>1
<1> DEFINE D == {n \in Model : f[n] # <<>>}
           todo == [m \in D |-> f[m][1]]
<1>3. UNCHANGED <<inst, ext, live, client>> /\ RegistryStep
  BY RegistrySame DEF Plan
<1>4. \A m \in Model : job[j].demand[m] \in Demands
  BY DEF LInv, Types, JobRecord
<1>5. \A m \in D : /\ f[m][1] \in Decision /\ f[m][1].gpu \in Gpu
                   /\ f[m][1].act = "reload" => /\ f[m][1].id \in Ids
                                                /\ inst[f[m][1].id].model = m
                                                /\ inst[f[m][1].id].state \notin Transient
  BY <1>2, <1>4, PlannedDecision
<1>6. todo \in [D -> Decision] /\ D \in SUBSET Model
  BY <1>5
<1>7. todo \in Todos
  BY <1>6 DEF Todos
<1>8. \A m \in DOMAIN todo :
        /\ todo[m].gpu \in Gpu
        /\ todo[m].act = "reload" => /\ todo[m].id \in Ids /\ inst[todo[m].id].model = m
                                     /\ inst[todo[m].id].state \notin Transient
  BY <1>5
<1>9. job' = [job EXCEPT ![j] = Continue(todo)]
  BY <1>2
<1> HIDE DEF todo, D
<1> DEFINE r == Continue(todo)
<1>10. r \in JobRecord /\ r.pc \in {"idle", "executing"} /\ r.id = 0 /\ r.todo = todo
  BY <1>7, ContinueType
<1> HIDE DEF r
<1>11. job' = [job EXCEPT ![j] = r] /\ job'[j] = r
  BY <1>9 DEF r, LInv, Types
<1>12. TodoOK(j)'
  BY <1>3, <1>8, <1>10, <1>11 DEF TodoOK, Ids
<1>13. ~Initialising(j)' /\ InitOK(j)'
  <2>1. 0 \in 0 .. Len(inst')
    BY <1>3, LenFacts DEF LInv
  <2> QED BY <1>10, <1>11, <2>1 DEF InitOK, Initialising
<1>14. JobsOK'
  BY <1>3, <1>10, <1>11, <1>12, <1>13, JobsKept
<1>15. ClientsOK' /\ FileStep
  BY <1>3, ClientsKept, IdleStep DEF Plan
<1> QED BY <1>3, <1>14, <1>15, LiveSame, Assemble

(* The entry appended by a start, from a registry that is like inst but for stopped entries. *)
LEMMA StartKeeps ==
    ASSUME LInv, NEW j \in Job, NEW m \in Model, NEW reg \in [Ids -> Entry], NEW g \in Gpu,
           NEW shape \in Shape, NEW own \in BOOLEAN, NEW loads \in [Model -> Load],
           NEW todo \in Todos, FromTodo(todo, j),
           Len(inst) < MaxInstances, inst' = Started(reg, m, g, shape, own),
           live' = Loaded(loads, m, shape), UNCHANGED <<ext, client>>,
           \/ Initialise(j, todo) /\ Saved
           \/ UpsertRaises(j, file)
           \/ UpsertRaises(j, [inst |-> reg, ext |-> ext]),
           \A i \in Ids : /\ reg[i].model = inst[i].model /\ reg[i].port = inst[i].port
                          /\ reg[i].active = inst[i].active
                          /\ \/ reg[i].state = inst[i].state
                             \/ /\ inst[i].state \notin Transient \union {"removed"}
                                /\ reg[i].state \in {"stopped", "failed"}
    PROVE  RegistryStep /\ LInv'
<1>1. \A i \in Ids : /\ inst[i].state = "removed" => reg[i].state = "removed"
                     /\ reg[i].state \in Transient => inst[i].state \in Transient
  BY DEF Transient
<1>2. /\ RegistryStep
      /\ Len(inst') = Len(inst) + 1 /\ Len(inst) + 1 \notin Ids
      /\ inst'[Len(inst')].state = "starting"
      /\ \A i \in Ids : inst'[i] = reg[i]
  BY <1>1, RegistryPlusOne
<1>3. OthersUntouched(j)
  <2>1. \A k \in Job : Initialising(k) => job[k].id \in Ids /\ inst[job[k].id].state \in Transient
    BY DEF LInv, InitOK, Transient
  <2> QED BY <1>2, <2>1 DEF OthersUntouched
<1>4. JobsOK'
  <2>1. CASE Initialise(j, todo)
    BY <1>2, <1>3, <2>1, JobBegins
  <2>2. CASE job' = [job EXCEPT ![j] = Idle]
    BY <1>2, <1>3, <2>2, EndsJob
  <2> QED BY <2>1, <2>2 DEF UpsertRaises
<1>5. ClientsOK'
  BY <1>2, ClientsKept
<1>6. live' \in [Model -> Load]
  BY LoadedType
<1>7. FileStep
  <2>1. \A i \in 1 .. Len(inst') : inst'[i].state = "ready" => i \in Ids /\ reg[i].state = "ready"
    <3>1. \A i \in 1 .. Len(inst') : i \in Ids \/ i = Len(inst')
      BY <1>2, LenFacts DEF LInv, Ids
    <3> QED BY <1>2, <3>1
  <2>2. NoneReady /\ NoneLeased
    BY <2>1, Unleased DEF NoneReady
  <2>3. CASE Saved
    BY <2>3, SavedStep
  <2>4. CASE Raises(file)
    BY <2>2, <2>4, UnwrittenStep
  <2>5. CASE Raises([inst |-> reg, ext |-> ext])
    <3>1. Halfway(reg)
      BY <2>1 DEF Halfway
    <3>2. ext \in Exts
      BY DEF LInv, Types, Exts
    <3>3. faults' \in 0 .. MaxFaults /\ file' = [inst |-> reg, ext |-> ext]
      BY <2>5, FaultTypes
    <3> QED BY <2>2, <3>1, <3>2, <3>3 DEF FileStep
  <2> QED BY <2>3, <2>4, <2>5 DEF UpsertRaises
<1> QED BY <1>2, <1>4, <1>5, <1>6, <1>7, LiveSame, Assemble

LEMMA OwnType ==
    ASSUME NEW loads, NEW m
    PROVE  Owns(loads, m) \in BOOLEAN
BY DEF Owns

(* What a decision of a job is. *)
LEMMA TodoType ==
    ASSUME LInv, NEW j \in Job, NEW m \in DOMAIN job[j].todo
    PROVE  /\ m \in Model /\ job[j].todo[m].shape \in Shape
           /\ job[j].todo[m].act # "allocate" => job[j].todo[m].gpu \in Gpu
<1>1. job[j].todo \in Todos
  BY DEF LInv, Types, JobRecord
<1>2. m \in Model /\ job[j].todo[m] \in Decision
  BY <1>1 DEF Todos
<1>3. job[j].todo[m].shape \in Shape
  BY <1>2 DEF Decision
<1> QED BY <1>2, <1>3 DEF LInv, TodoOK

LEMMA StartPlannedKeeps ==
    ASSUME LInv, NEW j \in Job, NEW m \in Model, StartPlanned(j, m)
    PROVE  RegistryStep /\ LInv'
<1>1. /\ inst' = Started(inst, m, job[j].todo[m].gpu, job[j].todo[m].shape, Owns(live, m))
      /\ live' = Loaded(live, m, job[j].todo[m].shape)
      /\ (Initialise(j, Rest(j, m)) /\ Saved) \/ UpsertRaises(j, file)
  BY DEF StartPlanned
<1>2. /\ Owns(live, m) \in BOOLEAN
      /\ job[j].todo[m].gpu \in Gpu /\ job[j].todo[m].shape \in Shape
  BY OwnType, TodoType DEF StartPlanned
<1>3. Rest(j, m) \in Todos /\ FromTodo(Rest(j, m), j)
  BY RestType DEF FromTodo, LInv
<1>4. inst \in [Ids -> Entry] /\ live \in [Model -> Load]
  BY LenFacts DEF LInv, Types
<1> QED BY <1>1, <1>2, <1>3, <1>4, StartKeeps DEF StartPlanned

LEMMA AllocateStartKeeps ==
    ASSUME LInv, NEW j \in Job, NEW m \in Model, AllocateStart(j, m)
    PROVE  RegistryStep /\ LInv'
<1>1. PICK g \in Gpu : inst' = Started(inst, m, g, job[j].todo[m].shape, Owns(live, m))
  BY DEF AllocateStart
<1>2. /\ live' = Loaded(live, m, job[j].todo[m].shape)
      /\ (Initialise(j, Nothing) /\ Saved) \/ UpsertRaises(j, file)
  BY DEF AllocateStart
<1>3. Owns(live, m) \in BOOLEAN /\ job[j].todo[m].shape \in Shape
  BY OwnType, TodoType DEF AllocateStart
<1>4. Nothing \in Todos /\ FromTodo(Nothing, j)
  BY NothingType DEF FromTodo
<1>5. inst \in [Ids -> Entry] /\ live \in [Model -> Load]
  BY LenFacts DEF LInv, Types
<1> QED BY <1>1, <1>2, <1>3, <1>4, <1>5, StartKeeps DEF AllocateStart

----------------------------------------------------------------------------
(* The entry to reload when its turn has come. *)
LEMMA ReloadTarget ==
    ASSUME LInv, NEW j \in Job, NEW m \in DOMAIN job[j].todo, job[j].todo[m].act = "reload"
    PROVE  /\ job[j].todo[m].id \in Ids
           /\ inst[job[j].todo[m].id].model = m
           /\ inst[job[j].todo[m].id].state \notin Transient
BY DEF LInv, TodoOK

(* No job initialises an entry that has left the transient states. *)
LEMMA SettledUntouched ==
    ASSUME LInv, NEW i \in Ids, inst[i].state \notin Transient,
           \A k \in Ids \ {i} : inst'[k].state = inst[k].state
    PROVE  \A k \in Job : Initialising(k) => inst'[job[k].id].state = inst[job[k].id].state
<1>1. \A k \in Job : Initialising(k) => job[k].id \in Ids /\ inst[job[k].id].state \in Transient
  BY DEF LInv, InitOK, Transient
<1> QED BY <1>1

LEMMA RestMovesOn ==
    ASSUME LInv, RegistryStep, NEW j \in Job, NEW m, OthersUntouched(j),
           job' = [job EXCEPT ![j] = Continue(Rest(j, m))]
    PROVE  JobsOK'
<1> DEFINE r == Continue(Rest(j, m))
<1>1. Rest(j, m) \in Todos /\ FromTodo(Rest(j, m), j)
  BY RestType DEF FromTodo, LInv
<1>2. r \in JobRecord /\ r.pc \in {"idle", "executing"} /\ r.id = 0 /\ r.todo = Rest(j, m)
  BY <1>1, ContinueType
<1> HIDE DEF r
<1>3. FromTodo(r.todo, j) /\ job' = [job EXCEPT ![j] = r]
  BY <1>1, <1>2 DEF r
<1> QED BY <1>2, <1>3, JobMovesOn

(* The stop that a reload begins with, when a write of it raises. *)
LEMMA ReloadStopRaises ==
    ASSUME LInv, NEW i \in Ids, inst[i].state # "removed", StopRaises(inst, {}, {}, i, FALSE),
           UNCHANGED <<ext, client>>
    PROVE  /\ \E state \in {"draining", "failed"} : inst' = [inst EXCEPT ![i].state = state]
           /\ live' \in [Model -> Load]
           /\ FileStep
<1>0. Types /\ inst \in [Ids -> Entry] /\ Len(inst) \in Nat /\ DOMAIN inst = Ids /\ ext' \in Exts
  BY LenFacts, LiveSame DEF LInv
<1>1. Stopped(inst, {}, {}) = inst
  BY <1>0 DEF Stopped
<1> DEFINE Marked(state) == [inst EXCEPT ![i].state = state]
<1>2. \/ inst' = Marked("draining") /\ live' \in LeftLoaded({}, {}) /\ Raises(file)
      \/ /\ inst' = Marked("failed")
         /\ live' \in LeftLoaded({i}, {i})
         /\ Raises([inst |-> Marked("draining"), ext |-> ext'])
  BY <1>1 DEF StopRaises
<1>3. ASSUME NEW s \in {"draining", "failed"}
      PROVE  /\ Marked(s) \in [Ids -> Entry]
             /\ \A k \in Ids : /\ Marked(s)[k].model = inst[k].model
                               /\ Marked(s)[k].port = inst[k].port
                               /\ Marked(s)[k].active = inst[k].active
                               /\ Marked(s)[k].state = IF k = i THEN s ELSE inst[k].state
  <2>1. s \in States
    BY DEF States, Active
  <2>2. Marked(s)[i] = [inst[i] EXCEPT !.state = s] /\ \A k \in Ids \ {i} : Marked(s)[k] = inst[k]
    BY <1>0
  <2>3. /\ Marked(s)[i] \in Entry /\ Marked(s)[i].state = s /\ Marked(s)[i].model = inst[i].model
        /\ Marked(s)[i].port = inst[i].port /\ Marked(s)[i].active = inst[i].active
    BY <1>0, <2>1, <2>2, MarkedEntry
  <2>4. Marked(s) \in [Ids -> Entry]
    BY <1>0, <2>3
  <2> HIDE DEF Marked
  <2> QED BY <2>2, <2>3, <2>4
<1>4. live' \in [Model -> Load]
  BY <1>0, <1>2, LeftType
<1>5. \E state \in {"draining", "failed"} : inst' = [inst EXCEPT ![i].state = state]
  BY <1>2
<1> HIDE DEF Marked
<1>6. inst' = Marked("draining") \/ inst' = Marked("failed")
  BY <1>2
<1>7. Len(inst') = Len(inst)
  BY <1>0, <1>3, <1>6, Registry DEF Ids
<1>8. NoneReady /\ NoneLeased
  BY <1>3, <1>6, <1>7, Unleased DEF NoneReady, Ids
<1>9. FileStep
  <2>1. CASE Raises(file)
    BY <1>8, <2>1, UnwrittenStep
  <2>2. CASE inst' = Marked("failed") /\ Raises([inst |-> Marked("draining"), ext |-> ext'])
    <3>1. Halfway(Marked("draining"))
      BY <1>3, <1>7, <2>2 DEF Halfway, Ids
    <3>2. faults' \in 0 .. MaxFaults /\ file' = [inst |-> Marked("draining"), ext |-> ext']
      BY <2>2, FaultTypes
    <3> QED BY <1>0, <1>8, <3>1, <3>2 DEF FileStep
  <2> QED BY <1>2, <2>1, <2>2
<1> QED BY <1>4, <1>5, <1>9

LEMMA ReloadPlannedKeeps ==
    ASSUME LInv, NEW j \in Job, NEW m \in Model, ReloadPlanned(j, m)
    PROVE  RegistryStep /\ LInv'
<1>0. m \in DOMAIN job[j].todo /\ job[j].todo[m].act = "reload" /\ UNCHANGED <<ext, client>>
  BY DEF ReloadPlanned
<1>1. PICK i \in Ids : i = job[j].todo[m].id /\ inst[i].model = m /\ inst[i].state \notin Transient
  BY <1>0, ReloadTarget
<1>2. inst[i].state # "removed"
  BY <1>1 DEF ReloadPlanned
<1>3. ASSUME NEW s \in {"draining", "failed"}, inst' = [inst EXCEPT ![i].state = s],
             \/ job' = [job EXCEPT ![j] = Continue(Rest(j, m))]
             \/ job' = [job EXCEPT ![j] = Idle],
             live' \in [Model -> Load],
             Saved \/ Raises(file) \/ FileStep
      PROVE  RegistryStep /\ LInv'
  <2>1. s \in States /\ s \notin Transient
    BY DEF States, Active, Transient
  <2>2. /\ RegistryStep /\ inst'[i].state = s /\ Len(inst') = Len(inst)
        /\ \A k \in Ids \ {i} : inst'[k] = inst[k]
        /\ \A k \in Ids : inst'[k].active = inst[k].active
    BY <1>2, <1>3, <2>1, MarkStep
  <2>3. OthersUntouched(j)
    BY <1>1, <2>2, SettledUntouched DEF OthersUntouched
  <2>4. JobsOK' /\ ClientsOK'
    BY <1>0, <1>3, <2>2, <2>3, RestMovesOn, EndsJob, ClientsKept
  <2>5. NoneReady /\ NoneLeased
    BY <1>0, <2>2, Unleased DEF NoneReady, Ids
  <2>6. FileStep
    BY <1>3, <2>5, SavedStep, UnwrittenStep
  <2> QED BY <1>0, <1>3, <2>2, <2>4, <2>6, LiveSame, Assemble
<1>4. CASE job' = [job EXCEPT ![j] = Continue(Rest(j, m))] /\ UNCHANGED <<inst, live>> /\ Unwritten
  <2>1. RegistryStep /\ OthersUntouched(j) /\ FileStep
    BY <1>0, <1>4, RegistrySame, IdleStep DEF OthersUntouched
  <2>2. JobsOK' /\ ClientsOK'
    BY <1>0, <1>4, <2>1, RestMovesOn, ClientsKept
  <2> QED BY <1>0, <1>4, <2>1, <2>2, LiveSame, Assemble
<1>5. ASSUME NEW F, NEW left \in LeftLoaded({i}, F), Len(inst) < MaxInstances,
             inst' = Started(Stopped(inst, {i}, F), m, job[j].todo[m].gpu,
                             job[j].todo[m].shape, Owns(left, m)),
             live' = Loaded(left, m, job[j].todo[m].shape),
             \/ Initialise(j, Rest(j, m)) /\ Saved
             \/ UpsertRaises(j, [inst |-> Stopped(inst, {i}, F), ext |-> ext])
      PROVE  RegistryStep /\ LInv'
  <2> DEFINE reg == Stopped(inst, {i}, F)
  <2>1. inst \in [1 .. Len(inst) -> Entry] /\ Len(inst) \in Nat
    BY LenFacts DEF LInv, Ids
  <2>2. /\ reg \in [Ids -> Entry]
        /\ \A k \in Ids :
              /\ reg[k].model = inst[k].model /\ reg[k].port = inst[k].port
              /\ reg[k].active = inst[k].active
              /\ k \notin {i} => reg[k] = inst[k]
              /\ k \in {i} => reg[k].state \in {"stopped", "failed"}
    BY <2>1, StoppedType DEF Ids
  <2>3. inst' = Started(reg, m, job[j].todo[m].gpu, job[j].todo[m].shape, Owns(left, m))
    BY <1>5
  <2>8. \/ Initialise(j, Rest(j, m)) /\ Saved
        \/ UpsertRaises(j, [inst |-> reg, ext |-> ext])
    BY <1>5
  <2> HIDE DEF reg
  <2>4. \A k \in Ids : /\ reg[k].model = inst[k].model /\ reg[k].port = inst[k].port
                       /\ reg[k].active = inst[k].active
                       /\ \/ reg[k].state = inst[k].state
                          \/ /\ inst[k].state \notin Transient \union {"removed"}
                             /\ reg[k].state \in {"stopped", "failed"}
    BY <1>1, <1>2, <2>2
  <2>5. /\ Owns(left, m) \in BOOLEAN
        /\ job[j].todo[m].gpu \in Gpu /\ job[j].todo[m].shape \in Shape
    BY <1>0, OwnType, TodoType
  <2>6. Rest(j, m) \in Todos /\ FromTodo(Rest(j, m), j)
    BY RestType DEF FromTodo, LInv
  <2>7. left \in [Model -> Load]
    BY <1>5, LeftType DEF LInv
  <2> QED BY <1>0, <1>5, <2>2, <2>3, <2>4, <2>5, <2>6, <2>7, <2>8, StartKeeps
<1>6. ASSUME NEW F, inst' = Stopped(inst, {i}, F), live' \in LeftLoaded({i}, F),
             job' = [job EXCEPT ![j] = Idle], Saved
      PROVE  RegistryStep /\ LInv'
  <2>1. inst \in [1 .. Len(inst) -> Entry] /\ Len(inst) \in Nat
    BY LenFacts DEF LInv, Ids
  <2>2. /\ inst' \in [Ids -> Entry]
        /\ \A k \in Ids :
              /\ inst'[k].model = inst[k].model /\ inst'[k].port = inst[k].port
              /\ inst'[k].active = inst[k].active
              /\ k \notin {i} => inst'[k] = inst[k]
              /\ k \in {i} => inst'[k].state \in {"stopped", "failed"}
    <3> DEFINE reg == Stopped(inst, {i}, F)
    <3>1. inst' = reg
      BY <1>6
    <3>2. /\ reg \in [1 .. Len(inst) -> Entry]
          /\ \A k \in 1 .. Len(inst) :
                /\ reg[k].model = inst[k].model /\ reg[k].port = inst[k].port
                /\ reg[k].active = inst[k].active
                /\ k \notin {i} => reg[k] = inst[k]
                /\ k \in {i} => reg[k].state \in {"stopped", "failed"}
      BY <2>1, StoppedType
    <3> HIDE DEF reg
    <3> QED BY <3>1, <3>2 DEF Ids
  <2>3. \A k \in Ids : EntryStep(k)
    BY <1>2, <2>2 DEF EntryStep, Transient
  <2>4. RegistryStep
    BY <2>2, <2>3, RegistryInPlace
  <2>5. OthersUntouched(j)
    BY <1>1, <2>2, SettledUntouched DEF OthersUntouched
  <2>6. JobsOK' /\ ClientsOK'
    BY <1>0, <1>6, <2>2, <2>4, <2>5, EndsJob, ClientsKept
  <2>7. live' \in [Model -> Load] /\ FileStep
    BY <1>6, LeftType, SavedStep DEF LInv
  <2> QED BY <1>0, <2>4, <2>6, <2>7, LiveSame, Assemble
<1>7. CASE StopRaises(inst, {}, {}, i, FALSE) /\ job' = [job EXCEPT ![j] = Idle]
  BY <1>0, <1>2, <1>3, <1>7, ReloadStopRaises
<1>8. CASE /\ inst' = [inst EXCEPT ![i].state = "draining"]
           /\ \/ job' = [job EXCEPT ![j] = Continue(Rest(j, m))] /\ Saved
              \/ job' = [job EXCEPT ![j] = Idle] /\ Raises(file)
           /\ UNCHANGED live
  BY <1>3, <1>8, LiveSame
<1> QED BY <1>1, <1>4, <1>5, <1>6, <1>7, <1>8 DEF ReloadPlanned

LEMMA AllocateKeeps ==
    ASSUME LInv, NEW j \in Job, NEW m \in Model, Allocate(j, m)
    PROVE  RegistryStep /\ LInv'
<1> DEFINE dec == [act |-> "allocate", gpu |-> NoGpu, id |-> 0, shape |-> Profile[m].shape]
           todo == [n \in {m} |-> dec]
           r == [Idle EXCEPT !.pc = "allocating", !.todo = todo]
<1>1. UNCHANGED <<inst, ext, live, client>> /\ job' = [job EXCEPT ![j] = r]
  BY DEF Allocate
<1>2. dec \in Decision
  BY ProfileAssumption, BoundAssumption DEF Decision, Shape
<1>3. todo \in Todos
  <2> HIDE DEF dec
  <2>1. todo \in [{m} -> Decision] /\ {m} \in SUBSET Model
    BY <1>2
  <2> HIDE DEF todo
  <2> QED BY <2>1 DEF Todos
<1>4. dec.act = "allocate" /\ DOMAIN todo = {m} /\ todo[m] = dec
  OBVIOUS
<1> HIDE DEF dec, todo
<1>5. r \in JobRecord /\ r.pc = "allocating" /\ r.id = 0 /\ r.todo = todo
  <2>1. "allocating" \in Phase
    BY DEF Phase
  <2> QED BY <1>3, <2>1, JobTodo
<1> HIDE DEF r
<1>6. job'[j] = r /\ RegistryStep
  BY <1>1, RegistrySame DEF LInv, Types
<1>7. TodoOK(j)'
  BY <1>4, <1>5, <1>6 DEF TodoOK
<1>8. ~Initialising(j)' /\ InitOK(j)'
  <2>1. 0 \in 0 .. Len(inst')
    BY <1>1, LenFacts DEF LInv
  <2> QED BY <1>5, <1>6, <2>1 DEF InitOK, Initialising
<1>9. JobsOK' /\ ClientsOK'
  BY <1>1, <1>5, <1>6, <1>7, <1>8, JobsKept, ClientsKept
<1>10. FileStep
  BY IdleStep DEF Allocate
<1> QED BY <1>1, <1>6, <1>9, <1>10, LiveSame, Assemble

LEMMA AbandonKeeps ==
    ASSUME LInv, NEW j \in Job, Abandon(j)
    PROVE  RegistryStep /\ LInv'
<1>1. RegistryStep /\ OthersUntouched(j)
  BY RegistrySame DEF Abandon, OthersUntouched
<1>2. JobsOK' /\ ClientsOK' /\ FileStep
  BY <1>1, EndsJob, ClientsKept, IdleStep DEF Abandon
<1> QED BY <1>1, <1>2, LiveSame, Assemble DEF Abandon

----------------------------------------------------------------------------
(* A mark_state of initialize_instance, on the entry of its own job. *)
LEMMA OwnMark ==
    ASSUME LInv, NEW j \in Job, Initialising(j), NEW s \in States,
           s \in Transient \/ s \in {"ready", "failed"},
           inst' = [inst EXCEPT ![job[j].id].state = s]
    PROVE  /\ RegistryStep /\ OthersUntouched(j)
           /\ job[j].id \in Ids /\ inst[job[j].id].state \in Transient
           /\ inst'[job[j].id].state = s
           /\ \A k \in Ids \ {job[j].id} : inst'[k] = inst[k]
           /\ \A k \in Ids : inst'[k].active = inst[k].active
           /\ Len(inst') = Len(inst)
<1>1. PICK i \in Ids : i = job[j].id /\ inst[i].state \in Transient
  BY DEF LInv, InitOK, Transient
<1>2. inst[i].state # "removed"
  BY <1>1 DEF Transient
<1>3. /\ RegistryStep
      /\ inst'[i].state = s
      /\ \A k \in Ids \ {i} : inst'[k] = inst[k]
      /\ \A k \in Ids : inst'[k].active = inst[k].active
      /\ Len(inst') = Len(inst)
  BY <1>1, <1>2, MarkStep
<1>4. \A k \in Job \ {j} : Initialising(k) => job[k].id \in Ids /\ job[k].id # i
  BY <1>1 DEF LInv, InitOK, NoSharedEntry
<1> QED BY <1>1, <1>3, <1>4 DEF OthersUntouched

LEMMA HealthyKeeps ==
    ASSUME LInv, NEW j \in Job, Healthy(j)
    PROVE  RegistryStep /\ LInv'
<1>0. Initialising(j) /\ "warming" \in States /\ "warming" \in Transient
  BY DEF Healthy, Initialising, States, Active, Transient
<1>1. /\ RegistryStep /\ OthersUntouched(j) /\ job[j].id \in Ids
      /\ inst'[job[j].id].state = "warming" /\ Len(inst') = Len(inst)
      /\ \A k \in Ids : inst'[k].active = inst[k].active
  BY <1>0, OwnMark DEF Healthy
<1> DEFINE r == [job[j] EXCEPT !.pc = "warmup"]
<1>2. job' = [job EXCEPT ![j] = r] /\ job[j] \in JobRecord
  BY DEF Healthy, LInv, Types
<1>3. r \in JobRecord /\ r.pc = "warmup" /\ r.id = job[j].id /\ r.todo = job[j].todo
  BY <1>2, JobAt DEF Phase
<1> HIDE DEF r
<1>4. job'[j] = r
  BY <1>2 DEF LInv, Types
<1>5. TodoOK(j)'
  BY <1>1, <1>3, <1>4, TodoKept DEF FromTodo
<1>6. InitOK(j)'
  BY <1>1, <1>3, <1>4 DEF InitOK, Initialising, Ids, LInv
<1>7. JobsOK'
  BY <1>0, <1>1, <1>2, <1>3, <1>5, <1>6, JobsKept DEF OthersUntouched
<1>8. ClientsOK' /\ FileStep
  BY <1>1, ClientsKept, SavedStep DEF Healthy
<1> QED BY <1>1, <1>7, <1>8, LiveSame, Assemble DEF Healthy

(* The job leaves the entry behind and continues with its other decisions. *)
LEMMA LeavesEntry ==
    ASSUME LInv, RegistryStep, NEW j \in Job, OthersUntouched(j),
           job' = [job EXCEPT ![j] = Continue(job[j].todo)]
    PROVE  JobsOK'
<1> DEFINE r == Continue(job[j].todo)
<1>1. job[j].todo \in Todos
  BY DEF LInv, Types, JobRecord
<1>2. r \in JobRecord /\ r.pc \in {"idle", "executing"} /\ r.id = 0 /\ r.todo = job[j].todo
  BY <1>1, ContinueType
<1> HIDE DEF r
<1>3. FromTodo(r.todo, j) /\ job' = [job EXCEPT ![j] = r]
  BY <1>2 DEF r, FromTodo
<1> QED BY <1>2, <1>3, JobMovesOn

LEMMA InitEndsKeeps ==
    ASSUME LInv, NEW j \in Job, Warmed(j) \/ InitFails(j)
    PROVE  RegistryStep /\ LInv'
<1>1. Initialising(j) /\ {"ready", "failed"} \subseteq States
  BY DEF Warmed, InitFails, Initialising, States, Active
<1>2. PICK s \in {"ready", "failed"} : inst' = [inst EXCEPT ![job[j].id].state = s]
  BY DEF Warmed, InitFails
<1>3. /\ RegistryStep /\ OthersUntouched(j) /\ Len(inst') = Len(inst)
      /\ inst'[job[j].id].state = s
      /\ \A k \in Ids \ {job[j].id} : inst'[k] = inst[k]
      /\ \A k \in Ids : inst'[k].active = inst[k].active
  BY <1>1, <1>2, OwnMark
<1>4. JobsOK'
  BY <1>3, LeavesEntry, EndsJob DEF Warmed, InitFails
<1>5. ClientsOK' /\ UNCHANGED client
  BY <1>3, ClientsKept DEF Warmed, InitFails
<1>6. ext' \in Exts /\ live' \in [Model -> Load]
  BY LiveSame DEF Warmed, InitFails
<1>7. FileStep
  <2>1. CASE Saved
    BY <2>1, SavedStep
  <2>2. CASE InitFails(j) /\ Raises(file)
    <3>1. inst' = [inst EXCEPT ![job[j].id].state = "failed"] /\ "failed" \in States
      BY <1>1, <2>2 DEF InitFails
    <3>2. inst'[job[j].id].state = "failed"
      BY <1>1, <3>1, OwnMark
    <3>3. NoneReady
      BY <1>3, <3>2 DEF NoneReady, Ids
    <3> QED BY <1>5, <2>2, <3>3, Unleased, UnwrittenStep
  <2> QED BY <2>1, <2>2 DEF Warmed, InitFails
<1> QED BY <1>3, <1>4, <1>5, <1>6, <1>7, Assemble

----------------------------------------------------------------------------
(* A change of an entry's active_requests. *)
LEMMA ActiveStep ==
    ASSUME LInv, NEW i \in Ids, NEW n \in Nat, inst' = [inst EXCEPT ![i].active = n]
    PROVE  /\ RegistryStep
           /\ inst'[i].active = n
           /\ \A k \in Ids \ {i} : inst'[k] = inst[k]
           /\ \A k \in Ids : inst'[k].state = inst[k].state
           /\ Len(inst') = Len(inst)
<1>1. inst \in [Ids -> Entry]
  BY LenFacts DEF LInv
<1>2. inst'[i] = [inst[i] EXCEPT !.active = n] /\ \A k \in Ids \ {i} : inst'[k] = inst[k]
  BY <1>1
<1>3. ASSUME NEW e \in Entry, NEW f, f = [e EXCEPT !.active = n]
      PROVE  /\ f \in Entry /\ f.state = e.state /\ f.active = n
             /\ f.model = e.model /\ f.port = e.port
  BY <1>3 DEF Entry
<1>4. /\ inst'[i] \in Entry /\ inst'[i].state = inst[i].state /\ inst'[i].active = n
      /\ inst'[i].model = inst[i].model /\ inst'[i].port = inst[i].port
  BY <1>1, <1>2, <1>3
<1>5. inst' \in [Ids -> Entry]
  BY <1>1, <1>2, <1>4
<1>6. \A k \in Ids : EntryStep(k)
  BY <1>1, <1>2, <1>4 DEF EntryStep
<1> QED BY <1>1, <1>2, <1>4, <1>5, <1>6, RegistryInPlace

(* A step of client c that leaves the states of all entries alone. *)
LEMMA ClientStep ==
    ASSUME LInv, RegistryStep, UNCHANGED <<ext, live, job>>, ClientsOK', FileStep,
           \A k \in Ids : inst'[k].state = inst[k].state
    PROVE  RegistryStep /\ LInv'
<1>1. \A k \in Job : Initialising(k) => job[k].id \in Ids
  BY DEF LInv, InitOK
<1>2. JobsOK'
  BY <1>1, JobsUnchanged
<1> QED BY <1>2, LiveSame, Assemble

LEMMA ChooseKeeps ==
    ASSUME LInv, NEW c \in Client, Choose(c)
    PROVE  RegistryStep /\ LInv'
<1>1. PICK i \in Ids : client' = [client EXCEPT ![c].at = i]
  BY DEF Choose
<1>2. client \in [Client -> [at : 0 .. MaxInstances, leased : BOOLEAN]] /\ ~client[c].leased
  BY DEF LInv, Types, Choose, ClientOK
<1>3. i \in 1 .. MaxInstances /\ UNCHANGED inst
  BY LenFacts DEF LInv, Types, Ids, Choose
<1>4. /\ client' \in [Client -> [at : 0 .. MaxInstances, leased : BOOLEAN]]
      /\ client'[c].at = i /\ client'[c].leased = client[c].leased
      /\ \A b \in Client \ {c} : client'[b] = client[b]
  BY <1>1, <1>2, <1>3
<1>5. \A b \in Client : ClientOK(b)'
  BY <1>2, <1>3, <1>4, LenFacts DEF LInv, ClientOK, Ids
<1>6. \A k : LeaseHolders(k)' = LeaseHolders(k)
  BY <1>2, <1>4 DEF LeaseHolders
<1>7. LeasesCounted'
  BY <1>3, <1>6 DEF LInv, LeasesCounted, Ids
<1>8. FileStep
  <2>1. NoneReady /\ NoneLeased
    BY <1>3, <1>6 DEF NoneReady, NoneLeased, Ids
  <2> QED BY <2>1, UnwrittenStep DEF Choose
<1> QED BY <1>3, <1>4, <1>5, <1>7, <1>8, RegistrySame, ClientStep DEF ClientsOK, Choose

LEMMA LeaseKeeps ==
    ASSUME LInv, NEW c \in Client, Lease(c)
    PROVE  RegistryStep /\ LInv'
<1>1. client \in [Client -> [at : 0 .. MaxInstances, leased : BOOLEAN]]
      /\ ~client[c].leased /\ UNCHANGED <<ext, live, job>>
  BY DEF LInv, Types, Lease
<1>2. PICK i \in Ids : i = client[c].at
  BY LenFacts DEF LInv, ClientOK, Lease, Ids
<1>3. inst[i].active \in Nat
  BY LenFacts, EntryFields DEF LInv
<1>4. CASE inst[i].state # "removed" /\ client' = [client EXCEPT ![c].leased = TRUE] /\ Saved
  <2>1. /\ inst' = [inst EXCEPT ![i].active = inst[i].active + 1]
        /\ client' = [client EXCEPT ![c].leased = TRUE]
    <3>1. inst' = [inst EXCEPT ![i].active = @ + 1]
      BY <1>2, <1>4 DEF Lease
    <3>2. inst \in [Ids -> Entry]
      BY LenFacts DEF LInv
    <3> QED BY <1>4, <3>1, <3>2
  <2>2. /\ RegistryStep /\ inst'[i].active = inst[i].active + 1 /\ Len(inst') = Len(inst)
        /\ \A k \in Ids \ {i} : inst'[k] = inst[k]
        /\ \A k \in Ids : inst'[k].state = inst[k].state
    <3>1. inst[i].active + 1 \in Nat
      BY <1>3
    <3> QED BY <2>1, <3>1, ActiveStep
  <2>3. /\ client' \in [Client -> [at : 0 .. MaxInstances, leased : BOOLEAN]]
        /\ client'[c].at = i /\ client'[c].leased
        /\ \A b \in Client \ {c} : client'[b] = client[b]
    BY <1>1, <1>2, <2>1
  <2>4. \A b \in Client : ClientOK(b)'
    <3>1. i \in 0 .. Len(inst) /\ i # 0
      BY LenFacts DEF LInv, Ids
    <3>2. ClientOK(c)'
      BY <2>2, <2>3, <3>1 DEF ClientOK
    <3>3. \A b \in Client \ {c} : ClientOK(b)'
      BY <2>2, <2>3 DEF LInv, ClientOK
    <3> QED BY <3>2, <3>3
  <2>5. LeasesCounted'
    <3> SUFFICES ASSUME NEW k \in Ids, inst[k].state # "removed",
                        NEW C \in SUBSET (LeaseHolders(k)'), IsFiniteSet(C)
                 PROVE  Cardinality(C) <= inst'[k].active
      BY <2>2 DEF LeasesCounted, Ids
    <3>1. CASE k = i
      <4>1. C \ {c} \in SUBSET LeaseHolders(i)
        BY <2>3, <3>1 DEF LeaseHolders
      <4>2. IsFiniteSet(C \ {c}) /\ Cardinality(C) \in Nat
            /\ Cardinality(C \ {c}) = IF c \in C THEN Cardinality(C) - 1 ELSE Cardinality(C)
        BY FS_RemoveElement, FS_CardinalityType
      <4>3. Cardinality(C \ {c}) <= inst[i].active
        BY <1>4, <4>1, <4>2 DEF LInv, LeasesCounted
      <4> QED BY <1>3, <2>2, <3>1, <4>2, <4>3
    <3>2. CASE k # i
      <4>1. C \in SUBSET LeaseHolders(k)
        BY <2>3, <3>2 DEF LeaseHolders
      <4>2. Cardinality(C) <= inst[k].active
        BY <4>1 DEF LInv, LeasesCounted
      <4> QED BY <2>2, <3>2, <4>2
    <3> QED BY <3>1, <3>2
  <2>6. FileStep
    BY <1>4, SavedStep
  <2> QED BY <1>1, <2>2, <2>3, <2>4, <2>5, <2>6, ClientStep DEF ClientsOK
<1>5. CASE client' = [client EXCEPT ![c].at = 0] /\ (Raises(file) \/ Unwritten)
  <2>1. client' = [client EXCEPT ![c].at = 0]
    BY <1>5
  <2>2. 0 \in 0 .. MaxInstances /\ 0 \in 0 .. Len(inst)
    BY LenFacts DEF LInv
  <2>3. /\ client' \in [Client -> [at : 0 .. MaxInstances, leased : BOOLEAN]]
        /\ client'[c].at = 0 /\ client'[c].leased = client[c].leased
        /\ \A b \in Client \ {c} : client'[b] = client[b]
    BY <1>1, <2>1, <2>2
  <2>4. /\ RegistryStep /\ Len(inst') = Len(inst)
        /\ \A k \in Ids : inst'[k].state = inst[k].state
        /\ \A k \in Ids : inst'[k].active \in Nat /\ inst'[k].active >= inst[k].active
    <3>1. inst \in [Ids -> Entry] /\ \A k \in Ids : inst[k].active \in Nat
      BY LenFacts, EntryFields DEF LInv
    <3>2. CASE UNCHANGED inst
      BY <3>1, <3>2, RegistrySame
    <3>3. CASE inst' = [inst EXCEPT ![i].active = @ + 1]
      <4>1. inst' = [inst EXCEPT ![i].active = inst[i].active + 1] /\ inst[i].active + 1 \in Nat
        BY <1>3, <3>1, <3>3
      <4>2. /\ RegistryStep /\ inst'[i].active = inst[i].active + 1 /\ Len(inst') = Len(inst)
            /\ \A k \in Ids \ {i} : inst'[k] = inst[k]
            /\ \A k \in Ids : inst'[k].state = inst[k].state
        BY <4>1, ActiveStep
      <4> QED BY <1>3, <3>1, <4>2
    <3> QED BY <1>2, <3>2, <3>3 DEF Lease
  <2>5. \A b \in Client : ClientOK(b)'
    BY <1>1, <2>2, <2>3, <2>4 DEF LInv, ClientOK
  <2>6. \A k : LeaseHolders(k)' = LeaseHolders(k)
    BY <1>1, <2>3 DEF LeaseHolders
  <2>7. LeasesCounted'
    <3> SUFFICES ASSUME NEW k \in Ids, inst[k].state # "removed",
                        NEW C \in SUBSET LeaseHolders(k), IsFiniteSet(C)
                 PROVE  Cardinality(C) <= inst'[k].active
      BY <2>4, <2>6 DEF LeasesCounted, Ids
    <3>1. Cardinality(C) <= inst[k].active /\ Cardinality(C) \in Nat
      BY FS_CardinalityType DEF LInv, LeasesCounted
    <3>2. inst[k].active \in Nat
      BY LenFacts, EntryFields DEF LInv
    <3> QED BY <2>4, <3>1, <3>2
  <2>8. FileStep
    <3>1. NoneReady /\ NoneLeased
      BY <2>4, <2>6 DEF NoneReady, NoneLeased, Ids
    <3> QED BY <1>5, <3>1, UnwrittenStep
  <2> QED BY <1>1, <2>3, <2>4, <2>5, <2>7, <2>8, ClientStep DEF ClientsOK
<1> QED BY <1>2, <1>4, <1>5 DEF Lease

(* A client that releases was counted, so the count does not stop at 0. *)
LEMMA ReleaseKeeps ==
    ASSUME LInv, NEW c \in Client, Release(c)
    PROVE  RegistryStep /\ LInv'
<1>1. client \in [Client -> [at : 0 .. MaxInstances, leased : BOOLEAN]]
      /\ client[c].leased /\ UNCHANGED <<ext, live, job>>
      /\ client' = [client EXCEPT ![c] = [at |-> 0, leased |-> FALSE]]
  BY DEF LInv, Types, Release
<1>2. PICK i \in Ids : i = client[c].at
  BY LenFacts DEF LInv, ClientOK, Release, Ids
<1>3. inst[i].active \in Nat /\ 0 \in 0 .. MaxInstances /\ Len(inst) \in Nat
  BY LenFacts, EntryFields DEF LInv
<1>4. /\ client' \in [Client -> [at : 0 .. MaxInstances, leased : BOOLEAN]]
      /\ client'[c].at = 0 /\ ~client'[c].leased
      /\ \A b \in Client \ {c} : client'[b] = client[b]
  BY <1>1, <1>3
<1>5. \A k : LeaseHolders(k)' = LeaseHolders(k) \ {c}
  BY <1>4 DEF LeaseHolders
<1>6. CASE inst[i].state = "removed"
  <2>1. UNCHANGED inst
    BY <1>2, <1>6 DEF Release
  <2>2. \A b \in Client : ClientOK(b)'
    BY <1>3, <1>4, <2>1 DEF LInv, ClientOK
  <2>3. LeasesCounted'
    BY <1>5, <2>1 DEF LInv, LeasesCounted, Ids
  <2>4. FileStep
    <3>1. NoneReady /\ NoneLeased /\ Unwritten
      BY <1>2, <1>5, <1>6, <2>1 DEF NoneReady, NoneLeased, Ids, Release
    <3> QED BY <3>1, UnwrittenStep
  <2> QED BY <1>1, <1>4, <2>1, <2>2, <2>3, <2>4, RegistrySame, ClientStep DEF ClientsOK
<1>7. CASE inst[i].state # "removed"
  <2>1. ASSUME NEW C \in SUBSET (LeaseHolders(i)'), IsFiniteSet(C)
        PROVE  Cardinality(C) \in Nat /\ Cardinality(C) + 1 <= inst[i].active
    <3>1. C \union {c} \in SUBSET LeaseHolders(i) /\ c \notin C
      BY <1>1, <1>2, <1>5, <2>1 DEF LeaseHolders
    <3>2. /\ IsFiniteSet(C \union {c}) /\ Cardinality(C \union {c}) = Cardinality(C) + 1
          /\ Cardinality(C) \in Nat
      BY <2>1, <3>1, FS_AddElement, FS_CardinalityType
    <3> QED BY <1>7, <3>1, <3>2 DEF LInv, LeasesCounted
  <2>2. inst[i].active >= 1
    <3>1. {} \in SUBSET (LeaseHolders(i)') /\ IsFiniteSet({}) /\ Cardinality({}) = 0
      BY FS_EmptySet
    <3> QED BY <1>3, <2>1, <3>1
  <2>3. Max({0, inst[i].active - 1}) = inst[i].active - 1
    <3> DEFINE n == inst[i].active - 1
    <3>1. n \in Nat
      BY <1>3, <2>2
    <3> HIDE DEF n
    <3>2. \E x \in {0, n} : \A y \in {0, n} : x >= y
      BY <3>1
    <3>3. Max({0, n}) \in {0, n} /\ \A y \in {0, n} : Max({0, n}) >= y
      BY <3>2 DEF Max
    <3>4. Max({0, n}) = n
      BY <3>1, <3>3
    <3> QED BY <3>4 DEF n
  <2>4. inst' = [inst EXCEPT ![i].active = inst[i].active - 1]
    <3>1. inst' = [inst EXCEPT ![i].active = Max({0, @ - 1})]
      BY <1>2, <1>7 DEF Release
    <3>2. inst \in [Ids -> Entry]
      BY LenFacts DEF LInv
    <3>3. inst' = [inst EXCEPT ![i].active = Max({0, inst[i].active - 1})]
      BY <3>1, <3>2
    <3> QED BY <2>3, <3>3
  <2>5. inst[i].active - 1 \in Nat
    BY <1>3, <2>2
  <2>6. /\ RegistryStep /\ inst'[i].active = inst[i].active - 1 /\ Len(inst') = Len(inst)
        /\ \A k \in Ids \ {i} : inst'[k] = inst[k]
        /\ \A k \in Ids : inst'[k].state = inst[k].state
    BY <2>4, <2>5, ActiveStep
  <2>7. \A b \in Client : ClientOK(b)'
    BY <1>3, <1>4, <2>6 DEF LInv, ClientOK
  <2>8. LeasesCounted'
    <3> SUFFICES ASSUME NEW k \in Ids, inst[k].state # "removed",
                        NEW C \in SUBSET (LeaseHolders(k)'), IsFiniteSet(C)
                 PROVE  Cardinality(C) <= inst'[k].active
      BY <2>6 DEF LeasesCounted, Ids
    <3>1. CASE k = i
      <4>1. Cardinality(C) \in Nat /\ Cardinality(C) + 1 <= inst[i].active
        BY <2>1, <3>1
      <4> QED BY <1>3, <2>6, <3>1, <4>1
    <3>2. CASE k # i
      <4>1. C \in SUBSET LeaseHolders(k)
        BY <1>5
      <4>2. Cardinality(C) <= inst[k].active
        BY <4>1 DEF LInv, LeasesCounted
      <4> QED BY <2>6, <3>2, <4>2
    <3> QED BY <3>1, <3>2
  <2>9. FileStep
    <3>1. NoneReady /\ NoneLeased /\ (Saved \/ Raises(file))
      BY <1>2, <1>5, <1>7, <2>6 DEF NoneReady, NoneLeased, Ids, Release
    <3> QED BY <3>1, SavedStep, UnwrittenStep
  <2> QED BY <1>1, <1>4, <2>6, <2>7, <2>8, <2>9, ClientStep DEF ClientsOK
<1> QED BY <1>6, <1>7

----------------------------------------------------------------------------
LEMMA LoadKeeps ==
    ASSUME LInv, NEW m \in Model, LoadVanishes(m) \/ UserLoads(m)
    PROVE  RegistryStep /\ LInv'
<1>1. UNCHANGED <<inst, ext, job, client>>
  BY DEF LoadVanishes, UserLoads
<1>2. RegistryStep /\ JobsOK' /\ ClientsOK' /\ FileStep
  BY <1>1, RegistrySame, JobsUnchanged, ClientsKept, IdleStep DEF LoadVanishes, UserLoads
<1>3. live' \in [Model -> Load]
  <2>1. live \in [Model -> Load]
    BY DEF LInv, Types
  <2>2. NoLoad \in Load /\ [loaded |-> TRUE, shape |-> Profile[m].shape] \in Load
    BY ProfileAssumption DEF NoLoad, Load, Shape
  <2> QED BY <2>1, <2>2 DEF LoadVanishes, UserLoads
<1> QED BY <1>1, <1>2, <1>3, LiveSame, Assemble

(* The registry as load finds it in the file. *)
LEMMA LoadedEntries ==
    ASSUME LInv, NEW new, new = LoadedFromFile
    PROVE  /\ new \in Seq(Entry) /\ Len(new) = Len(inst)
           /\ \A i \in Ids : /\ new[i].model = inst[i].model
                             /\ i \in Filed => new[i] = file.inst[i]
                             /\ i \notin Filed => new[i].state = "removed"
           /\ \A i \in Ids : inst[i].state = "ready" => new[i].state = "ready"
           /\ Filed \subseteq Ids
<1>1. /\ Types /\ FileTypes /\ FileSame /\ FileReady
      /\ inst \in [Ids -> Entry] /\ Len(inst) \in Nat
  BY LenFacts DEF LInv, FileOK
<1>2. file.inst \in Seq(Entry) /\ Len(file.inst) \in Nat /\ Len(file.inst) <= Len(inst)
      /\ DOMAIN file.inst = Filed
  BY <1>1 DEF FileTypes, Filed
<1>3. Filed \subseteq Ids
  BY <1>1, <1>2 DEF Filed, Ids
<1>4. ASSUME NEW i \in Ids
      PROVE  /\ new[i] \in Entry /\ new[i].model = inst[i].model
             /\ i \in Filed => new[i] = file.inst[i]
             /\ i \notin Filed => new[i].state = "removed"
  <2>1. CASE i \in Filed
    BY <1>1, <1>2, <2>1 DEF LoadedFromFile, FileSame, Filed
  <2>2. CASE i \notin Filed
    <3>1. new[i] = [inst[i] EXCEPT !.state = "removed"] /\ "removed" \in States
      BY <1>2, <2>2 DEF LoadedFromFile, States
    <3> QED BY <1>1, <2>2, <3>1, MarkedEntry
  <2> QED BY <2>1, <2>2
<1>5. new \in [1 .. Len(inst) -> Entry]
  <2>1. new = [i \in Ids |-> new[i]]
    BY DEF LoadedFromFile
  <2> QED BY <1>4, <2>1 DEF Ids
<1>6. new \in Seq(Entry) /\ Len(new) = Len(inst)
  BY <1>1, <1>5, Registry
<1>7. \A i \in Ids : inst[i].state = "ready" => new[i].state = "ready"
  BY <1>1, <1>4 DEF FileReady
<1> QED BY <1>3, <1>4, <1>6, <1>7

LEMMA RestartKeeps ==
    ASSUME LInv, Restart
    PROVE  LInv'
<1>1. UNCHANGED <<live, client, file, faults>> /\ ext' = file.ext /\ \A j \in Job : job'[j] = Idle
  BY DEF Restart, Unwritten
<1>2. /\ inst' \in Seq(Entry) /\ Len(inst') = Len(inst) /\ Ids' = Ids
      /\ \A i \in Ids : /\ inst'[i].model = inst[i].model
                        /\ i \in Filed => inst'[i] = file.inst[i]
                        /\ i \notin Filed => inst'[i].state = "removed"
      /\ Filed \subseteq Ids
  BY LoadedEntries DEF Restart, Ids
<1>3. /\ Types /\ FileTypes /\ FilePorts /\ FileLeases /\ Len(inst) \in Nat
      /\ Filed' = Filed /\ \A i : LeaseHolders(i)' = LeaseHolders(i)
  BY <1>1, LenFacts DEF LInv, FileOK, Filed, LeaseHolders
<1>4. JobsOK'
  <2>1. job' \in [Job -> JobRecord]
    BY IdleType DEF Restart
  <2>2. \A j \in Job : ~Initialising(j)' /\ TodoOK(j)'
    BY <1>1, IdleType DEF Initialising, TodoOK
  <2>3. 0 \in 0 .. Len(inst')
    BY <1>2, <1>3
  <2> QED BY <1>1, <2>1, <2>2, <2>3, IdleType DEF JobsOK, InitOK, NoSharedEntry
<1>5. Types'
  BY <1>1, <1>2, <1>3, <1>4 DEF Types, FileTypes, Exts, JobsOK
<1>6. \A c \in Client : ClientOK(c)'
  BY <1>1, <1>2 DEF LInv, ClientOK
<1>7. LeasesCounted'
  BY <1>2, <1>3 DEF LeasesCounted, FileLeases
<1>8. PortsDistinct'
  BY <1>2, <1>3 DEF PortsDistinct, FilePorts
<1>9. FileOK'
  <2>1. FileTypes' /\ FilePorts' /\ FileLeases'
    BY <1>1, <1>2, <1>3 DEF FileTypes, FilePorts, FileLeases
  <2>2. FileSame'
    BY <1>1, <1>2, <1>3 DEF FileSame
  <2>3. FileReady'
    BY <1>1, <1>2, <1>3 DEF FileReady
  <2> QED BY <2>1, <2>2, <2>3 DEF FileOK
<1> QED BY <1>4, <1>5, <1>6, <1>7, <1>8, <1>9 DEF LInv, JobsOK

LEMMA LInit == Init => LInv
<1> SUFFICES ASSUME Init PROVE LInv
  OBVIOUS
<1>1. inst = <<>> /\ Len(inst) = 0 /\ inst \in Seq(Entry) /\ Ids = {}
  BY DEF Init, Ids
<1>2. \A j \in Job : job[j] = Idle
  BY DEF Init
<1>3. \A c \in Client : client[c] = [at |-> 0, leased |-> FALSE]
  BY DEF Init
<1>4. Types
  <2>1. job \in [Job -> JobRecord]
    BY IdleType DEF Init
  <2>2. live \in [Model -> Load]
    BY DEF Init, NoLoad, Load, Shape
  <2>3. ext \in [Model -> {Absent, NoGpu} \union Gpu]
    BY DEF Init
  <2>4. client \in [Client -> [at : 0 .. MaxInstances, leased : BOOLEAN]]
    BY BoundAssumption DEF Init
  <2>5. Len(inst) <= MaxInstances
    BY <1>1, BoundAssumption
  <2> QED BY <1>1, <2>1, <2>2, <2>3, <2>4, <2>5 DEF Types
<1>5. \A j \in Job : ~Initialising(j) /\ TodoOK(j) /\ InitOK(j)
  BY <1>1, <1>2, IdleType DEF Initialising, TodoOK, InitOK
<1>6. NoSharedEntry
  BY <1>5 DEF NoSharedEntry
<1>7. \A c \in Client : ClientOK(c)
  BY <1>1, <1>3 DEF ClientOK
<1>8. LeasesCounted /\ PortsDistinct
  BY <1>1 DEF LeasesCounted, PortsDistinct
<1>9. FileOK
  <2>1. file.inst = <<>> /\ file.ext = ext /\ ext \in Exts /\ Filed = {}
    BY <1>1 DEF Init, Exts, Filed
  <2>2. FileTypes
    BY <1>1, <2>1, BoundAssumption DEF FileTypes, Init
  <2> QED BY <1>1, <2>1, <2>2 DEF FileOK, FileSame, FilePorts, FileLeases, FileReady
<1> QED BY <1>4, <1>5, <1>6, <1>7, <1>8, <1>9 DEF LInv

(* No step but a restart undoes the removal of an entry or what init has left behind. *)
LEMMA LNext == LInv /\ [Next]_vars => LInv' /\ (RegistryStep \/ Restart)
<1> SUFFICES ASSUME LInv, [Next]_vars PROVE LInv' /\ (RegistryStep \/ Restart)
  OBVIOUS
<1>1. ASSUME NEW j \in Job, Reconcile(j) PROVE RegistryStep /\ LInv'
  BY <1>1, ReconcileKeeps
<1>2. ASSUME NEW j \in Job, JobStep(j) PROVE RegistryStep /\ LInv'
  BY <1>2, PlanKeeps, AbandonKeeps, HealthyKeeps, InitEndsKeeps, StartPlannedKeeps,
     ReloadPlannedKeeps, AllocateStartKeeps DEF JobStep
<1>3. ASSUME NEW j \in Job, NEW m \in Model, Allocate(j, m) PROVE RegistryStep /\ LInv'
  BY <1>3, AllocateKeeps
<1>4. CASE Cleanup \/ SyncRaises \/ ReconcileRaises \/ CleanupRaises
  BY <1>4, StopsKeep
<1>5. ASSUME NEW c \in Client, Choose(c) \/ Lease(c) \/ Release(c) PROVE RegistryStep /\ LInv'
  BY <1>5, ChooseKeeps, LeaseKeeps, ReleaseKeeps
<1>6. ASSUME NEW m \in Model, LoadVanishes(m) \/ UserLoads(m) PROVE RegistryStep /\ LInv'
  BY <1>6, LoadKeeps
<1>7. CASE Restart
  BY <1>7, RestartKeeps
<1>8. CASE UNCHANGED vars
  <2>1. /\ UNCHANGED inst /\ UNCHANGED ext /\ UNCHANGED live /\ UNCHANGED job
        /\ UNCHANGED client /\ Unwritten
    BY <1>8 DEF vars, Unwritten
  <2>2. RegistryStep /\ JobsOK' /\ ClientsOK' /\ FileStep
    BY <2>1, RegistrySame, JobsUnchanged, ClientsKept, IdleStep
  <2> QED BY <2>1, <2>2, LiveSame, Assemble
<1> QED BY <1>1, <1>2, <1>3, <1>4, <1>5, <1>6, <1>7, <1>8 DEF Next

LEMMA LifecycleInvariant == Spec => []LInv
BY LInit, LNext, PTL DEF Spec

(***************************************************************************)
(* The registry, the loads, the jobs and the clients always have their     *)
(* types; a job's entry is one of the registry.                            *)
(***************************************************************************)
THEOREM TypeCorrect == Spec => []TypeOK
<1>1. LInv => TypeOK
  <2> SUFFICES ASSUME LInv PROVE TypeOK
    OBVIOUS
  <2>1. ASSUME NEW j \in Job
        PROVE  /\ job[j].pc \in Phase
               /\ job[j].demand \in [Model -> Demands]
               /\ DOMAIN job[j].todo \subseteq Model
               /\ \A m \in DOMAIN job[j].todo : job[j].todo[m] \in Decision
               /\ job[j].id \in 0 .. Len(inst)
    <3>1. job[j] \in JobRecord /\ InitOK(j)
      BY DEF LInv, Types
    <3>2. PICK D \in SUBSET Model : job[j].todo \in [D -> Decision]
      BY <3>1 DEF JobRecord, Todos
    <3> QED BY <3>1, <3>2 DEF JobRecord, InitOK
  <2> QED BY <2>1 DEF LInv, Types, TypeOK, Phase, FileOK, FileTypes, Exts
<1> QED BY <1>1, LifecycleInvariant, PTL

(***************************************************************************)
(* Whatever the other jobs, cleanup and restarts do, the entry that        *)
(* initialize_instance works on is in the state it was left in and belongs *)
(* to one job only.                                                        *)
(***************************************************************************)
THEOREM InitialisationIsExclusive == Spec => []InitialisingUntouched
<1>1. LInv => InitialisingUntouched
  BY DEF LInv, InitOK, NoSharedEntry, InitialisingUntouched
<1> QED BY <1>1, LifecycleInvariant, PTL

(***************************************************************************)
(* next_host_port never gives a port away that an entry of the registry    *)
(* has, however many jobs start backends at the same time.                 *)
(***************************************************************************)
THEOREM PortsAreDistinct == Spec => []PortsDistinct
<1>1. LInv => PortsDistinct
  BY DEF LInv
<1> QED BY <1>1, LifecycleInvariant, PTL

----------------------------------------------------------------------------
(* A new entry is initialised by a job, unless the write that enters it raises. *)
Registered ==
    \/ faults' > faults
    \/ \A i \in 1 .. Len(inst') :
          i \notin Ids => \E j \in Job : Initialising(j)' /\ job'[j].id = i

(* A job stays with the entry it initialises until that has left the transient states. *)
Attended ==
    \A k \in Job : Initialising(k) =>
        \/ Initialising(k)' /\ job'[k].id = job[k].id
        \/ inst'[job[k].id].state \notin Transient

LEMMA NoOrphan ==
    ASSUME LInv, RegistryStep, Registered, Attended
    PROVE  OrphanedByFailure
<1>0. \A i \in 1 .. Len(inst') : i \in Ids \/ i = Len(inst) + 1
  BY LenFacts DEF LInv, RegistryStep, Ids
<1>1. ASSUME NEW i \in Orphans', i \in Ids PROVE i \in Orphans
  <2>1. inst'[i].state \in Transient /\ \A j \in Job : Initialising(j)' => job'[j].id # i
    BY <1>1 DEF Orphans
  <2>2. inst[i].state \in Transient
    BY <1>1, <2>1 DEF RegistryStep, EntryStep
  <2>3. \A j \in Job : Initialising(j) => job[j].id # i
    BY <2>1 DEF Attended
  <2> QED BY <1>1, <2>2, <2>3 DEF Orphans
<1>2. \A i \in Orphans' : i \in 1 .. Len(inst') /\ \A j \in Job : Initialising(j)' => job'[j].id # i
  BY DEF Orphans, Ids
<1>3. CASE faults' > faults
  BY <1>0, <1>1, <1>2, <1>3 DEF OrphanedByFailure
<1>4. CASE ~(faults' > faults)
  <2>1. \A i \in Orphans' : i \in Ids
    BY <1>2, <1>4 DEF Registered
  <2> QED BY <1>1, <2>1 DEF OrphanedByFailure
<1> QED BY <1>3, <1>4

LEMMA SameLength ==
    ASSUME LInv, RegistryStep, DOMAIN inst' = DOMAIN inst
    PROVE  Registered
<1>1. inst \in Seq(Entry) /\ inst' \in Seq(Entry)
  BY DEF LInv, Types, RegistryStep
<1>2. Len(inst') = Len(inst)
  BY <1>1
<1> QED BY <1>2 DEF Registered, Ids

(* The entry a step adds is the one its job goes on to initialise. *)
LEMMA InitialiseRegisters ==
    ASSUME LInv, RegistryStep, NEW j \in Job, NEW todo, Initialise(j, todo)
    PROVE  Registered
<1>1. Len(inst) \in Nat /\ Len(inst') \in Nat /\ Len(inst') <= Len(inst) + 1
  BY LenFacts DEF LInv, RegistryStep
<1>2. job'[j] = [Idle EXCEPT !.pc = "health", !.todo = todo, !.id = Len(inst')]
  BY DEF Initialise, LInv, Types
<1>3. job'[j].pc = "health" /\ job'[j].id = Len(inst')
  BY <1>2 DEF Idle
<1>4. \A i \in 1 .. Len(inst') : i \notin Ids => i = Len(inst')
  BY <1>1 DEF Ids
<1> QED BY <1>3, <1>4 DEF Registered, Initialising

LEMMA RaisingRegisters ==
    ASSUME LInv, NEW j, NEW f, UpsertRaises(j, f)
    PROVE  Registered
BY FaultTypes DEF UpsertRaises, Registered

LEMMA AttendedBy ==
    ASSUME LInv, NEW j \in Job, ~Initialising(j), NEW r, job' = [job EXCEPT ![j] = r]
    PROVE  Attended
<1>1. \A k \in Job \ {j} : job'[k] = job[k]
  BY DEF LInv, Types
<1> QED BY <1>1 DEF Attended, Initialising

LEMMA OrphanStep ==
    ASSUME LInv, [Next]_vars
    PROVE  OrphanedByFailure
<1>14. CASE Restart
  BY <1>14 DEF OrphanedByFailure, Restarted, Restart, Unwritten
<1> SUFFICES ASSUME ~Restart PROVE OrphanedByFailure
  BY <1>14
<1>0. RegistryStep
  BY LNext
<1> SUFFICES Registered /\ Attended
  BY <1>0, NoOrphan
<1>1. ASSUME UNCHANGED job, DOMAIN inst' = DOMAIN inst PROVE Registered /\ Attended
  BY <1>0, <1>1, SameLength DEF Attended, Initialising
<1>2. IdleStop => DOMAIN inst' = DOMAIN inst
  BY LenFacts DEF IdleStop, Retires, Retired, LInv
<1>3. ASSUME NEW j \in Job, Reconcile(j) PROVE Registered /\ Attended
  <2>1. Registered
    BY <1>0, <1>2, <1>3, ReconcileStops, SameLength
  <2>2. Attended
    BY <1>3, AttendedBy DEF Reconcile, Initialising
  <2> QED BY <2>1, <2>2
<1>4. ASSUME NEW j \in Job, Plan(j) PROVE Registered /\ Attended
  <2>1. Registered
    BY <1>0, <1>4, SameLength DEF Plan
  <2>2. Attended
    BY <1>4, AttendedBy DEF Plan, Initialising
  <2> QED BY <2>1, <2>2
<1>5. ASSUME NEW j \in Job, NEW m \in Model, Abandon(j) \/ Allocate(j, m)
      PROVE  Registered /\ Attended
  <2>1. Registered
    BY <1>0, <1>5, SameLength DEF Abandon, Allocate
  <2>2. Attended
    BY <1>5, AttendedBy DEF Abandon, Allocate, Initialising
  <2> QED BY <2>1, <2>2
<1>6. ASSUME NEW j \in Job, NEW m \in Model, StartPlanned(j, m) \/ AllocateStart(j, m)
      PROVE  Registered /\ Attended
  <2>1. Registered
    BY <1>0, <1>6, InitialiseRegisters, RaisingRegisters DEF StartPlanned, AllocateStart
  <2>3. ~Initialising(j) /\ \E r : job' = [job EXCEPT ![j] = r]
    BY <1>6 DEF StartPlanned, AllocateStart, Initialise, UpsertRaises, Initialising
  <2>2. Attended
    BY <2>3, AttendedBy
  <2> QED BY <2>1, <2>2
<1>7. ASSUME NEW j \in Job, NEW m \in Model, ReloadPlanned(j, m)
      PROVE  Registered /\ Attended
  <2>1. Registered
    <3>1. \/ DOMAIN inst' = DOMAIN inst \/ Initialise(j, Rest(j, m))
          \/ \E f : UpsertRaises(j, f)
      BY <1>7 DEF ReloadPlanned, Stopped, StopRaises
    <3> QED BY <1>0, <3>1, SameLength, InitialiseRegisters, RaisingRegisters
  <2>2. ~Initialising(j) /\ \E r : job' = [job EXCEPT ![j] = r]
    BY <1>7 DEF ReloadPlanned, Initialise, UpsertRaises, Initialising
  <2>3. Attended
    BY <2>2, AttendedBy
  <2> QED BY <2>1, <2>3
<1>8. ASSUME NEW j \in Job, Healthy(j) \/ Warmed(j) \/ InitFails(j)
      PROVE  Registered /\ Attended
  <2>1. Registered
    BY <1>0, <1>8, SameLength DEF Healthy, Warmed, InitFails
  <2>2. \A k \in Job \ {j} : job'[k] = job[k]
    BY <1>8 DEF Healthy, Warmed, InitFails, LInv, Types
  <2>3. CASE Healthy(j)
    <3>1. job[j] \in JobRecord /\ job'[j] = [job[j] EXCEPT !.pc = "warmup"]
      BY <2>3 DEF Healthy, LInv, Types
    <3>2. job'[j].pc = "warmup" /\ job'[j].id = job[j].id
      BY <3>1, JobAt DEF Phase
    <3> QED BY <2>1, <2>2, <3>2 DEF Attended, Initialising
  <2>4. CASE Warmed(j) \/ InitFails(j)
    <3>1. Initialising(j) /\ {"ready", "failed"} \subseteq States
      BY <2>4 DEF Warmed, InitFails, Initialising, States, Active
    <3>2. PICK s \in {"ready", "failed"} : inst' = [inst EXCEPT ![job[j].id].state = s]
      BY <2>4 DEF Warmed, InitFails
    <3>3. inst'[job[j].id].state = s
      BY <3>1, <3>2, OwnMark
    <3> QED BY <2>1, <2>2, <3>3 DEF Attended, Initialising, Transient
  <2> QED BY <1>8, <2>3, <2>4
<1>9. CASE Cleanup \/ SyncRaises \/ ReconcileRaises \/ CleanupRaises
  <2>1. UNCHANGED job
    BY <1>9 DEF Cleanup, SyncRaises, ReconcileRaises, CleanupRaises
  <2>2. IdleStop
    BY <1>9, CleanupStops, SyncRaisesStops, ReconcileRaisesStops, CleanupRaisesStops
  <2> QED BY <1>1, <1>2, <2>1, <2>2
<1>10. ASSUME NEW c \in Client, Choose(c) \/ Lease(c) \/ Release(c) PROVE Registered /\ Attended
  BY <1>1, <1>10 DEF Choose, Lease, Release
<1>11. ASSUME NEW m \in Model, LoadVanishes(m) \/ UserLoads(m) PROVE Registered /\ Attended
  BY <1>1, <1>11 DEF LoadVanishes, UserLoads
<1>12. CASE UNCHANGED vars
  BY <1>1, <1>12 DEF vars
<1>13. ASSUME NEW j \in Job, Abandon(j) PROVE Registered /\ Attended
  <2>1. Registered
    BY <1>0, <1>13, SameLength DEF Abandon
  <2>2. Attended
    BY <1>13, AttendedBy DEF Abandon, Initialising
  <2> QED BY <2>1, <2>2
<1> QED BY <1>3, <1>4, <1>5, <1>6, <1>7, <1>8, <1>9, <1>10, <1>11, <1>12, <1>13
        DEF Next, JobStep

(***************************************************************************)
(* Reconcile, reload, allocate, cleanup and every failure of theirs leave  *)
(* no entry starting or warming without a job, but for two: a restart, and *)
(* the write that enters a new instance when it raises; that one leaves no *)
(* other entry than the new one.                                           *)
(***************************************************************************)
THEOREM OrphansAreExplained == Spec => OrphansHaveCause
<1>1. LInv /\ [Next]_vars => [OrphanedByFailure]_vars
  BY OrphanStep
<1> QED BY <1>1, LifecycleInvariant, PTL DEF Spec, OrphansHaveCause

----------------------------------------------------------------------------
Serving == {"ready", "draining"}

(* The entries that serve requests go on as they are. *)
Calm == \A i \in Ids : inst[i].state \in Serving => inst'[i].state = inst[i].state

(* A reload decision for m is carried out; a busy entry is drained and not stopped. *)
ReloadOf(m) ==
    /\ Reloading(m)
    /\ \E i \in Ids : /\ inst[i].model = m
                      /\ inst[i].active > 0 => inst'[i].state = "draining"
                      /\ \A k \in Ids \ {i} : inst'[k].state = inst[k].state

(* The step takes the decision for m off the list of job j. *)
LEMMA DecisionTaken ==
    ASSUME LInv, NEW j \in Job, NEW m \in Model, ReloadPlanned(j, m)
    PROVE  Reloading(m)
<1>1. m \in DOMAIN job[j].todo /\ job[j].todo[m].act = "reload" /\ job \in [Job -> JobRecord]
  BY DEF ReloadPlanned, LInv, Types
<1>2. Rest(j, m) \in Todos /\ m \notin DOMAIN Rest(j, m)
  BY RestType DEF LInv
<1>3. CASE job' = [job EXCEPT ![j] = Continue(Rest(j, m))]
  <2>1. job'[j] = Continue(Rest(j, m))
    BY <1>1, <1>3
  <2>2. job'[j].todo = Rest(j, m)
    BY <1>2, <2>1, ContinueType
  <2>3. job'[j] # job[j]
    BY <1>1, <1>2, <2>2
  <2> QED BY <1>1, <2>3 DEF Reloading
<1>4. CASE job' = [job EXCEPT ![j] = Idle]
  <2>1. job'[j] = Idle
    BY <1>1, <1>4
  <2>2. job'[j] # job[j]
    BY <1>1, <2>1, IdleType
  <2> QED BY <1>1, <2>2 DEF Reloading
<1>5. CASE Initialise(j, Rest(j, m))
  <2>1. job'[j] = [Idle EXCEPT !.pc = "health", !.todo = Rest(j, m), !.id = Len(inst')]
    BY <1>1, <1>5 DEF Initialise
  <2>2. job'[j].todo = Rest(j, m)
    BY <2>1 DEF Idle
  <2>3. job'[j] # job[j]
    BY <1>1, <1>2, <2>2
  <2> QED BY <1>1, <2>3 DEF Reloading
<1> QED BY <1>3, <1>4, <1>5 DEF ReloadPlanned, UpsertRaises

LEMMA ReloadEffect ==
    ASSUME LInv, NEW j \in Job, NEW m \in Model, ReloadPlanned(j, m)
    PROVE  ReloadOf(m)
<1>0. Reloading(m) /\ m \in DOMAIN job[j].todo /\ job[j].todo[m].act = "reload"
  BY DecisionTaken DEF ReloadPlanned
<1>1. PICK i \in Ids : i = job[j].todo[m].id /\ inst[i].model = m /\ inst[i].state \notin Transient
  BY <1>0, ReloadTarget
<1> DEFINE Effect == /\ inst[i].active > 0 => inst'[i].state = "draining"
                     /\ \A k \in Ids \ {i} : inst'[k].state = inst[k].state
<1> SUFFICES Effect
  BY <1>0, <1>1 DEF ReloadOf
<1>2. inst \in [1 .. Len(inst) -> Entry] /\ Len(inst) \in Nat /\ inst[i].active \in Nat
  BY LenFacts, EntryFields DEF LInv, Ids
<1>3. CASE inst' = [inst EXCEPT ![i].state = "draining"]
  <2>1. "draining" \in States /\ "draining" \notin Transient /\ inst[i].state # "removed"
    BY <1>1 DEF States, Active, Transient, ReloadPlanned
  <2>2. inst'[i].state = "draining" /\ \A k \in Ids \ {i} : inst'[k] = inst[k]
    BY <1>3, <2>1, MarkStep
  <2> QED BY <2>2
<1>4. CASE (inst[i].active = 0 \/ inst[i].state = "draining") /\ UNCHANGED inst
  BY <1>2, <1>4
<1>5. ASSUME inst[i].active = 0, NEW F, NEW left,
             \/ inst' = Stopped(inst, {i}, F)
             \/ inst' = Started(Stopped(inst, {i}, F), m, job[j].todo[m].gpu,
                                job[j].todo[m].shape, Owns(left, m))
      PROVE  Effect
  <2> DEFINE reg == Stopped(inst, {i}, F)
             own == Owns(left, m)
  <2>1. reg \in [1 .. Len(inst) -> Entry] /\ \A k \in Ids \ {i} : reg[k] = inst[k]
    BY <1>2, StoppedType DEF Ids
  <2>2. inst' = reg \/ inst' = Started(reg, m, job[j].todo[m].gpu, job[j].todo[m].shape, own)
    BY <1>5
  <2>4. own \in BOOLEAN /\ job[j].todo[m].gpu \in Gpu /\ job[j].todo[m].shape \in Shape
    BY <1>0, OwnType, TodoType
  <2> HIDE DEF reg, own
  <2>3. reg \in Seq(Entry) /\ Len(reg) = Len(inst)
    BY <1>2, <2>1, Registry
  <2>5. \A k \in Ids : inst'[k] = reg[k]
    BY <2>2, <2>3, <2>4, StartedEntry DEF Ids
  <2> QED BY <1>2, <1>5, <2>1, <2>5
<1>6. CASE inst[i].active = 0 /\ StopRaises(inst, {}, {}, i, FALSE)
  <2>0. inst[i].state # "removed" /\ UNCHANGED <<ext, client>>
    BY <1>1 DEF ReloadPlanned
  <2>1. PICK s \in {"draining", "failed"} : inst' = [inst EXCEPT ![i].state = s]
    BY <1>6, <2>0, ReloadStopRaises
  <2>2. s \in States /\ s \notin Transient
    BY DEF States, Active, Transient
  <2>3. \A k \in Ids \ {i} : inst'[k] = inst[k]
    BY <2>0, <2>1, <2>2, MarkStep
  <2> QED BY <1>2, <1>6, <2>3
<1> HIDE DEF Effect
<1> QED BY <1>1, <1>3, <1>4, <1>5, <1>6 DEF ReloadPlanned

LEMMA MarkCalm ==
    ASSUME LInv, NEW j \in Job, Healthy(j) \/ Warmed(j) \/ InitFails(j)
    PROVE  Calm
<1>1. Initialising(j) /\ {"warming", "ready", "failed"} \subseteq States /\ "warming" \in Transient
  BY DEF Healthy, Warmed, InitFails, Initialising, States, Active, Transient
<1>2. PICK s \in {"warming", "ready", "failed"} : inst' = [inst EXCEPT ![job[j].id].state = s]
  BY DEF Healthy, Warmed, InitFails
<1>3. /\ inst[job[j].id].state \in Transient
      /\ \A k \in Ids \ {job[j].id} : inst'[k] = inst[k]
  BY <1>1, <1>2, OwnMark
<1> QED BY <1>3 DEF Calm, Serving, Transient

LEMMA StartCalm ==
    ASSUME LInv, NEW j \in Job, NEW m \in Model, StartPlanned(j, m) \/ AllocateStart(j, m)
    PROVE  Calm
<1>1. \E g, shape, own : inst' = Started(inst, m, g, shape, own)
  BY DEF StartPlanned, AllocateStart
<1>2. PICK e : inst' = Append(inst, e)
  BY <1>1 DEF Started
<1>3. inst \in Seq(Entry)
  BY DEF LInv, Types
<1>4. \A i \in Ids : inst'[i] = inst[i]
  BY <1>2, <1>3 DEF Ids
<1> QED BY <1>4 DEF Calm

(* A lease and its end change the count of an entry and not its state. *)
LEMMA CountCalm ==
    ASSUME LInv, NEW i \in Ids, NEW n, inst' = [inst EXCEPT ![i].active = n]
    PROVE  Calm
<1>1. inst \in [Ids -> Entry]
  BY LenFacts DEF LInv
<1>2. inst'[i] = [inst[i] EXCEPT !.active = n] /\ \A k \in Ids \ {i} : inst'[k] = inst[k]
  BY <1>1
<1>3. inst'[i].state = inst[i].state
  BY <1>1, <1>2 DEF Entry
<1> QED BY <1>2, <1>3 DEF Calm

LEMMA LeaseCalm ==
    ASSUME LInv, NEW c \in Client, Choose(c) \/ Lease(c) \/ Release(c)
    PROVE  Calm
<1>1. CASE UNCHANGED inst
  BY <1>1 DEF Calm
<1>2. CASE ~UNCHANGED inst
  <2>1. PICK i \in Ids : i = client[c].at
    BY <1>2, LenFacts DEF LInv, ClientOK, Choose, Lease, Release, Ids
  <2>2. inst \in [Ids -> Entry]
    BY LenFacts DEF LInv
  <2>3. \/ inst' = [inst EXCEPT ![i].active = @ + 1]
        \/ inst' = [inst EXCEPT ![i].active = Max({0, @ - 1})]
    BY <1>2, <2>1 DEF Choose, Lease, Release
  <2>4. \/ inst' = [inst EXCEPT ![i].active = inst[i].active + 1]
        \/ inst' = [inst EXCEPT ![i].active = Max({0, inst[i].active - 1})]
    BY <2>2, <2>3
  <2> QED BY <2>4, CountCalm
<1> QED BY <1>1, <1>2

(* What can happen to the entries that serve requests in one step. *)
LEMMA ServingStep ==
    ASSUME LInv, [Next]_vars
    PROVE  Calm \/ IdleStop \/ Restart \/ \E m \in Model : ReloadOf(m)
<1>1. ASSUME UNCHANGED inst PROVE Calm
  BY <1>1 DEF Calm
<1>2. ASSUME NEW j \in Job, Reconcile(j) PROVE IdleStop
  BY <1>2, ReconcileStops
<1>3. CASE Cleanup \/ SyncRaises \/ ReconcileRaises \/ CleanupRaises
  BY <1>3, CleanupStops, SyncRaisesStops, ReconcileRaisesStops, CleanupRaisesStops
<1>4. ASSUME NEW j \in Job, NEW m \in Model, ReloadPlanned(j, m) PROVE ReloadOf(m)
  BY <1>4, ReloadEffect
<1>5. ASSUME NEW j \in Job, Plan(j) PROVE Calm
  BY <1>1, <1>5 DEF Plan
<1>6. ASSUME NEW j \in Job, Abandon(j) PROVE Calm
  BY <1>1, <1>6 DEF Abandon
<1>7. ASSUME NEW j \in Job, NEW m \in Model, Allocate(j, m) PROVE Calm
  BY <1>1, <1>7 DEF Allocate
<1>8. ASSUME NEW m \in Model, LoadVanishes(m) \/ UserLoads(m) PROVE Calm
  BY <1>1, <1>8 DEF LoadVanishes, UserLoads
<1>10. CASE UNCHANGED vars
  BY <1>1, <1>10 DEF vars
<1> QED BY <1>2, <1>3, <1>4, <1>5, <1>6, <1>7, <1>8, <1>10, MarkCalm, StartCalm, LeaseCalm
        DEF Next, JobStep

(* An entry that is leased has active requests. *)
LEMMA LeasedIsBusy ==
    ASSUME LInv, NEW c \in Client, client[c].leased, inst[client[c].at].state # "removed"
    PROVE  client[c].at \in Ids /\ inst[client[c].at].active > 0
<1>1. PICK i \in Ids : i = client[c].at
  BY LenFacts DEF LInv, ClientOK, Ids
<1>2. {c} \in SUBSET LeaseHolders(i)
  BY <1>1 DEF LeaseHolders
<1>3. Cardinality({c}) <= inst[i].active
  BY <1>1, <1>2, FS_Singleton DEF LInv, LeasesCounted
<1>4. Cardinality({c}) = 1 /\ inst[i].active \in Nat
  BY FS_Singleton, LenFacts, EntryFields DEF LInv
<1> QED BY <1>1, <1>3, <1>4

(***************************************************************************)
(* stop_idle_instances, the purge of cleanup and reload_instance never     *)
(* take a ready or draining backend from a proxy that has leased it: the   *)
(* active_requests they look at covers every lease, in any interleaving.   *)
(***************************************************************************)
THEOREM LeasesAreRespected == Spec => LeasedBackendKept
<1>1. LInv /\ [Next]_vars => [KeepsLeased]_vars
  <2> SUFFICES ASSUME LInv, [Next]_vars, NEW c \in Client, client[c].leased,
                      inst[client[c].at].state \in {"ready", "draining"},
                      ~(Restarted /\ inst[client[c].at].state = "draining")
               PROVE  inst'[client[c].at].state \in {"ready", "draining"}
    BY DEF KeepsLeased
  <2>1. PICK i \in Ids : i = client[c].at /\ inst[i].active > 0
    BY LeasedIsBusy
  <2>2. CASE Calm
    BY <2>1, <2>2 DEF Calm, Serving
  <2>3. CASE IdleStop
    <3>1. PICK S : Retires(S)
      BY <2>3 DEF IdleStop
    <3>2. i \notin S
      BY <2>1, <3>1 DEF Retires, Retired
    <3> QED BY <2>1, <3>1, <3>2 DEF Retires, Retired
  <2>4. ASSUME NEW m \in Model, ReloadOf(m)
        PROVE  inst'[i].state \in {"ready", "draining"}
    BY <2>1, <2>4 DEF ReloadOf
  <2>5. CASE Restart
    <3>1. Restarted /\ inst' = LoadedFromFile
      BY <2>5 DEF Restart, Restarted, Unwritten
    <3>2. inst[i].state = "ready"
      BY <2>1, <3>1
    <3> QED BY <2>1, <3>1, <3>2, LoadedEntries
  <2> QED BY <2>1, <2>2, <2>3, <2>4, <2>5, ServingStep
<1> QED BY <1>1, LifecycleInvariant, PTL DEF Spec, LeasedBackendKept

----------------------------------------------------------------------------
LEMMA ReadyFinite ==
    ASSUME LInv, Len(inst') \in Nat, NEW m
    PROVE  /\ IsFiniteSet(Ready(m)) /\ IsFiniteSet(Ready(m)')
           /\ Cardinality(Ready(m)) \in Nat /\ Cardinality(Ready(m)') \in Nat
<1>1. Len(inst) \in Nat /\ Len(inst') \in Nat
  BY LenFacts DEF LInv
<1>2. IsFiniteSet(1 .. Len(inst)) /\ IsFiniteSet(1 .. Len(inst'))
  BY <1>1, FS_Interval
<1>3. Ready(m) \in SUBSET (1 .. Len(inst)) /\ Ready(m)' \in SUBSET (1 .. Len(inst'))
  BY DEF Ready, ForModel, Ids
<1>4. IsFiniteSet(Ready(m)) /\ IsFiniteSet(Ready(m)')
  BY <1>2, <1>3, FS_Subset
<1> QED BY <1>4, FS_CardinalityType

(* Where the ready entries of a model stay ready, they do not become fewer. *)
LEMMA ReadyKept ==
    ASSUME LInv, Len(inst') \in Nat, Len(inst) <= Len(inst'), NEW m,
           \A i \in Ready(m) : inst'[i].state = "ready" /\ inst'[i].model = inst[i].model
    PROVE  ~(Cardinality(Ready(m)') < Cardinality(Ready(m)))
<1>1. Ready(m) \in SUBSET (Ready(m)')
  <2>1. \A i \in Ids : i \in 1 .. Len(inst')
    BY LenFacts DEF LInv, Ids
  <2> QED BY <2>1 DEF Ready, ForModel, Ids
<1>2. Cardinality(Ready(m)) <= Cardinality(Ready(m)')
  BY <1>1, ReadyFinite, FS_Subset
<1> QED BY <1>2, ReadyFinite

(* stop_idle_instances stops at most what is above the minimum. *)
LEMMA StopsKeepMinimum ==
    ASSUME LInv, IdleStop, NEW m \in Model,
           Cardinality(Ready(m)') < Cardinality(Ready(m))
    PROVE  Cardinality(Ready(m)') >= Profile[m].min
<1>1. PICK quiet, S : S \in IdleStops(quiet) /\ Retires(S)
  BY DEF IdleStop
<1> DEFINE stops == {i \in S : inst[i].model = m}
<1>2. S \subseteq Ids /\ \A i \in S : inst[i].state = "ready"
  BY <1>1 DEF IdleStops, IdleCandidates
<1>3. Len(inst') = Len(inst) /\ Len(inst') \in Nat
  BY <1>1, RetiresStep, LenFacts DEF LInv
<1>4. stops \subseteq Ready(m)
  BY <1>2 DEF Ready, ForModel
<1>5. Ready(m)' = Ready(m) \ stops
  BY <1>1, <1>3 DEF Ready, ForModel, Ids, Retires, Retired
<1>6. stops # {} => Cardinality(stops) <= Cardinality(Ready(m)) - Profile[m].min
  BY <1>1 DEF IdleStops, RemovableCount
<1> HIDE DEF stops
<1>7. Cardinality(Ready(m)') = Cardinality(Ready(m)) - Cardinality(Ready(m) \cap stops)
  BY <1>5, <1>3, ReadyFinite, FS_Difference
<1>8. Ready(m) \cap stops = stops /\ stops \in SUBSET Ready(m)
  BY <1>4
<1>9. Cardinality(stops) \in Nat /\ Profile[m].min \in Nat
  BY <1>8, <1>3, ReadyFinite, FS_Subset, FS_CardinalityType, ProfileAssumption
<1>10. stops # {}
  <2>1. stops = {} => Ready(m)' = Ready(m)
    BY <1>5
  <2> QED BY <2>1, <1>3, ReadyFinite
<1>11. PICK a \in Nat, b \in Nat, k \in Nat :
        a = Cardinality(Ready(m)) /\ b = Cardinality(stops) /\ k = Profile[m].min
  BY <1>9, <1>3, ReadyFinite
<1>12. Cardinality(Ready(m)') = a - b /\ b <= a - k
  BY <1>6, <1>7, <1>8, <1>10, <1>11
<1>13. a - b >= k
  BY <1>12
<1> QED BY <1>11, <1>12, <1>13

(***************************************************************************)
(* Whatever is leased, started or reloaded meanwhile, idle stops leave a   *)
(* model with its min_replicas of ready instances; only a step that        *)
(* carries out a decision to reload the model takes it below.              *)
(***************************************************************************)
THEOREM MinimumIsKept == Spec => IdleStopKeepsMinimum
<1>1. LInv /\ [Next]_vars => [KeepsMinimum]_vars
  <2> SUFFICES ASSUME LInv, [Next]_vars, NEW m \in Model,
                      Cardinality(Ready(m)') < Cardinality(Ready(m)), ~Reloading(m)
               PROVE  Cardinality(Ready(m)') >= Profile[m].min
    BY DEF KeepsMinimum
  <2>0. ASSUME RegistryStep
        PROVE  /\ Len(inst') \in Nat /\ Len(inst) <= Len(inst')
               /\ \A i \in Ready(m) : inst'[i].model = inst[i].model
    BY <2>0, LenFacts DEF LInv, RegistryStep, EntryStep, Ready, ForModel
  <2>1. CASE RegistryStep /\ Calm
    <3>1. \A i \in Ready(m) : inst'[i].state = "ready"
      BY <2>1 DEF Calm, Serving, Ready, ForModel
    <3> QED BY <2>0, <2>1, <3>1, ReadyKept
  <2>2. CASE IdleStop
    BY <2>2, StopsKeepMinimum
  <2>3. ASSUME NEW n \in Model, ReloadOf(n), RegistryStep
        PROVE  Cardinality(Ready(m)') >= Profile[m].min
    <3>1. n # m
      BY <2>3 DEF ReloadOf
    <3>2. \A i \in Ready(m) : inst'[i].state = "ready"
      BY <2>3, <3>1 DEF ReloadOf, Ready, ForModel
    <3> QED BY <2>0, <2>3, <3>2, ReadyKept
  <2>4. CASE Restart
    <3>1. inst' = LoadedFromFile
      BY <2>4 DEF Restart
    <3>2. Len(inst') = Len(inst) /\ Len(inst') \in Nat
      BY <3>1, LoadedEntries, LenFacts DEF LInv
    <3>3. \A i \in Ready(m) : inst'[i].state = "ready" /\ inst'[i].model = inst[i].model
      BY <3>1, LoadedEntries DEF Ready, ForModel
    <3> QED BY <3>2, <3>3, ReadyKept
  <2> QED BY <2>1, <2>2, <2>3, <2>4, ServingStep, LNext
<1> QED BY <1>1, LifecycleInvariant, PTL DEF Spec, IdleStopKeepsMinimum
============================================================================
