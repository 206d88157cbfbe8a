---------------------------- MODULE MCLifecycle ----------------------------
(***************************************************************************)
(* Instances of Lifecycle for TLC: one model of LM Studio with room for    *)
(* two replicas, or two models of docker with room for one.                *)
(***************************************************************************)
EXTENDS Lifecycle, TLC

CONSTANTS chat, embed, gpu0

Size(context, parallel) == [context |-> context, parallel |-> parallel]

Replicas(min, max) == [min |-> min, max |-> max, vram |-> 1, bucketOnly |-> FALSE,
                       loads |-> TRUE, port |-> 8000, shape |-> Size(1, 1)]
OneOrTwo  == chat :> Replicas(1, 2)
AtMostOne == chat :> Replicas(0, 1)
OneEach   == [m \in {chat, embed} |-> Replicas(1, 1)]

Room    == gpu0 :> 2
OneRoom == gpu0 :> 1

(***************************************************************************)
(* Nothing queued, or tasks that ask for more parallel slots: for those,   *)
(* depending on the dwell time, a reload is decided on or not, which are   *)
(* all decisions that any other shape or an oversized task leads to.       *)
(***************************************************************************)
NoTasks   == [queued |-> FALSE, oversized |-> FALSE, required |-> 0, shape |-> Size(0, 0)]
ManyTasks == [queued |-> TRUE, oversized |-> FALSE, required |-> 1, shape |-> Size(1, 2)]
Queues    == {NoTasks, ManyTasks}

Jobs == Permutations(Job)

(***************************************************************************)
(* Bound: after a write has raised, one handler goes on at a time; until   *)
(* then they overlap freely.                                               *)
(***************************************************************************)
OneHandlerAfterFault ==
    faults > 0 => Cardinality({j \in Job : job[j].pc # "idle"}) <= 1
============================================================================
