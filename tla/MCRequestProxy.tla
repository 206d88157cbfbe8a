-------------------------- MODULE MCRequestProxy --------------------------
(* Instances of RequestProxy for TLC. *)
EXTENDS RequestProxy, TLC

TwoSlots == [active |-> 2, queued |-> 2, defaultOutput |-> 3, maxInput |-> 6,
             maxOutput |-> 4, maxTotal |-> 8, charsPerToken |-> 4, reject |-> FALSE]

Body(override, text, out) ==
    [contract |-> TRUE, override |-> override, text |-> text, out |-> out]

Unset == [f \in {} |-> 0]

(***************************************************************************)
(* One request lowers its limits, as far as zero, leaves hardly any room   *)
(* beside its input and carries two output limits; one asks for more than  *)
(* the policy allows; one sets nothing, its input rounded down to the      *)
(* limit.  Three bodies are refused: one character more, no room for any   *)
(* output, a broken contract.                                              *)
(***************************************************************************)
Varied == {Body([active |-> 0, queued |-> 1, maxTotal |-> 7], 22,
                [max_tokens |-> 9, max_completion_tokens |-> 9]),
           Body([active |-> 3, queued |-> 3, maxOutput |-> 9, maxTotal |-> 20], 4,
                [max_output_tokens |-> Null]),
           Body(Unset, 26, Unset),
           Body(Unset, 27, Unset),
           Body([maxTotal |-> 1], 6, Unset),
           [Body(Unset, 0, Unset) EXCEPT !.contract = FALSE]}
============================================================================
