-------------------------- MODULE MCTaskExecutor --------------------------
(* Instances of TaskExecutor for TLC. *)
EXTENDS TaskExecutor, TLC

CONSTANTS a, b   \* two tenants

Sub(tenant, key, group, valid) ==
    [tenant |-> tenant, key |-> key, group |-> group, valid |-> valid]

a1 == Sub(a, "k1", "ga", TRUE)
a2 == Sub(a, "k2", "ga", FALSE)
a3 == Sub(a, "k3", "gc", TRUE)
b1 == Sub(b, "k1", "gb", TRUE)

MCSubmission == {a1, a2, a3, b1}

(* A repeated key within a batch, a batch with an unexecutable task, and    *)
(* the same key of another tenant.                                         *)
MCBatches == {<<a1, a1>>, <<a2, a1>>, <<b1>>}

Processes == Permutations(Exec)
============================================================================
