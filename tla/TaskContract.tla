--------------------------- MODULE TaskContract ---------------------------
(***************************************************************************)
(* What the durable queue promises to the callers that submit and poll     *)
(* tasks, without rows, processes, locks or retries: one outcome per       *)
(* idempotency key, worked on by one execution at a time.                  *)
(***************************************************************************)
EXTENDS Naturals

CONSTANTS Key,     \* a tenant and its idempotency key
          Limit    \* the executions a key may get

VARIABLES status,    \* what a poll for the key answers
          working,   \* whether an execution for the key is under way
          tries      \* the executions begun for the key

contractVars == <<status, working, tries>>

Outcomes == {"succeeded", "failed", "cancelled"}

ContractTypeOK ==
    /\ status \in [Key -> {"unknown", "pending"} \union Outcomes]
    /\ working \in [Key -> BOOLEAN]
    /\ tries \in [Key -> 0 .. Limit]

Init ==
    /\ status = [k \in Key |-> "unknown"]
    /\ working = [k \in Key |-> FALSE]
    /\ tries = [k \in Key |-> 0]

New == {k \in Key : status[k] = "unknown"}

(* One request accepts all of its keys that are new. *)
Accept(K) ==
    /\ status' = [k \in Key |-> IF k \in K THEN "pending" ELSE status[k]]
    /\ UNCHANGED <<working, tries>>

Begin(k) ==
    /\ status[k] = "pending"
    /\ ~working[k]
    /\ tries[k] < Limit
    /\ working' = [working EXCEPT ![k] = TRUE]
    /\ tries' = [tries EXCEPT ![k] = @ + 1]
    /\ UNCHANGED status

(* An execution may end after its key was cancelled; what it ends with counts. *)
Finish(k) ==
    /\ working[k]
    /\ \E o \in {"succeeded", "failed"} : status' = [status EXCEPT ![k] = o]
    /\ working' = [working EXCEPT ![k] = FALSE]
    /\ UNCHANGED tries

GiveBack(k) ==
    /\ working[k]
    /\ tries[k] < Limit
    /\ status' = [status EXCEPT ![k] = "pending"]
    /\ working' = [working EXCEPT ![k] = FALSE]
    /\ UNCHANGED tries

Cancel(k) ==
    /\ status[k] = "pending"
    /\ status' = [status EXCEPT ![k] = "cancelled"]
    /\ UNCHANGED <<working, tries>>

(* The process of the execution stops: its key keeps the status it has. *)
Abandon(k) ==
    /\ working[k]
    /\ working' = [working EXCEPT ![k] = FALSE]
    /\ UNCHANGED <<status, tries>>

Next ==
    \/ \E K \in SUBSET New : Accept(K)
    \/ \E k \in Key : Begin(k) \/ Finish(k) \/ GiveBack(k) \/ Cancel(k) \/ Abandon(k)

Spec == Init /\ [][Next]_contractVars
============================================================================
