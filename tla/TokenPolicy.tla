---------------------------- MODULE TokenPolicy ----------------------------
(***************************************************************************)
(* The limits a synchronous request gets: the model's configured policy,   *)
(* lowered by what the request asks for, and the output budget that        *)
(* apply_token_policy writes into the body before it is forwarded.         *)
(***************************************************************************)
EXTENDS Integers

CONSTANTS Policy,   \* the configured policy of the model
          Null      \* a JSON null

(* The fields a request may lower, and the others. *)
Bounded == {"active", "queued", "defaultOutput", "maxInput", "maxOutput", "maxTotal"}

ASSUME PolicyAssumption ==
    Policy \in [active : Nat \ {0}, queued : Nat, defaultOutput : Nat, maxInput : Nat,
                maxOutput : Nat, maxTotal : Nat, charsPerToken : Nat \ {0}, reject : BOOLEAN]

(***************************************************************************)
(* A request body:                                                         *)
(*   contract   validate_orchestration_contract accepts its orchestration  *)
(*   override   the numbers its orchestration sets, for fields of Bounded  *)
(*   text       length of the text collect_input_text finds                *)
(*   out        its output limits, by the keys it has                      *)
(***************************************************************************)
OutputKeys == {"max_completion_tokens", "max_output_tokens", "max_tokens"}

IsBody(b) ==
    /\ b = [contract |-> b.contract, override |-> b.override, text |-> b.text, out |-> b.out]
    /\ b.contract \in BOOLEAN
    /\ DOMAIN b.override \subseteq Bounded
    /\ \A f \in DOMAIN b.override : b.override[f] \in Int
    /\ b.text \in Nat
    /\ DOMAIN b.out \subseteq OutputKeys
    /\ \A k \in DOMAIN b.out : b.out[k] \in Int \union {Null}

Least(x, y) == IF x <= y THEN x ELSE y
Greatest(x, y) == IF x <= y THEN y ELSE x

----------------------------------------------------------------------------
(* Mutant: a request may raise the number of slots above the policy's. *)
EffectiveUnbounded(o) ==
    [f \in DOMAIN Policy |->
        IF f \notin DOMAIN o THEN Policy[f]
        ELSE IF f = "active" THEN Greatest(1, o[f]) ELSE Least(Greatest(1, o[f]), Policy[f])]

(* apply_orchestration_overrides: what a request asks for, within 1 and the policy. *)
Effective(o) ==
    [f \in DOMAIN Policy |->
        IF f \in DOMAIN o THEN Least(Greatest(1, o[f]), Policy[f]) ELSE Policy[f]]

(* round(n / d): to the nearest, a half to the even neighbour. *)
RoundHalfEven(n, d) ==
    LET q == n \div d
        r == 2 * (n % d)
    IN IF r > d \/ (r = d /\ q % 2 = 1) THEN q + 1 ELSE q

InputTokens(b) ==
    IF b.text = 0 THEN 0 ELSE Greatest(1, RoundHalfEven(b.text, Policy.charsPerToken))

(* Of the output limits out, the one that is read and bounded. *)
OutputTokenKey(out) ==
    IF "max_completion_tokens" \in DOMAIN out THEN "max_completion_tokens"
    ELSE IF "max_output_tokens" \in DOMAIN out THEN "max_output_tokens"
    ELSE "max_tokens"

RequestedOutput(b) ==
    LET key == OutputTokenKey(b.out)
    IN IF key \notin DOMAIN b.out THEN Effective(b.override).defaultOutput
       ELSE IF b.out[key] = Null THEN Effective(b.override).defaultOutput
       ELSE b.out[key]

Remaining(b) == Effective(b.override).maxTotal - InputTokens(b)

(* prepare answers with an error: the contract is broken or the budget is exceeded. *)
Refused(b) ==
    LET p == Effective(b.override) IN
    \/ ~b.contract
    \/ InputTokens(b) > p.maxInput
    \/ p.reject /\ RequestedOutput(b) > p.maxOutput
    \/ Remaining(b) < 1

(* Mutant: the output is bounded by its own limit only. *)
OutputTokensIgnoringTotal(b) == Least(RequestedOutput(b), Effective(b.override).maxOutput)

(* effective_output_tokens *)
OutputTokens(b) ==
    Least(Least(RequestedOutput(b), Effective(b.override).maxOutput), Remaining(b))

(* The output limits of the body apply_token_policy returns: one of them is bounded. *)
Forwarded(b) ==
    LET key == OutputTokenKey(b.out)
    IN [k \in DOMAIN b.out \union {key} |-> IF k = key THEN OutputTokens(b) ELSE b.out[k]]
============================================================================
