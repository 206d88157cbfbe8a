--------------------------- MODULE TaskAdmission ---------------------------
(***************************************************************************)
(* What POST /tasks/queue makes of a task before it is stored (the parsing *)
(* half of task_queue.py) and the context plan the proxy derives from the  *)
(* stored tasks of a model.  Everything here is a function of its          *)
(* arguments; the numbers are the code's.                                  *)
(***************************************************************************)
EXTENDS Integers, Sequences, FiniteSetsExt

CONSTANTS None,        \* a field that is missing, null or ""
          Malformed    \* a field int() cannot read

ASSUME FieldAssumption == None \notin Int /\ Malformed \notin Int /\ None # Malformed

DefaultMaxOutputTokens == 1024

ContextBuckets == {2048, 4096, 8192, 16384, 32768, 65536, 131072}

(***************************************************************************)
(* One task of a request body with the fields its batch shares:            *)
(*   endpoint   the kind of OpenAI endpoint it is for                      *)
(*   inputs     the fields of its payload that hold something to work on   *)
(*   refs, vars the variables its payload template names, none when the    *)
(*              payload itself is given, and those it can name             *)
(*   text       length of the text collect_input_text finds in the payload *)
(*   estimate   tokens.estimated_input_tokens                              *)
(*   outputs    the places that may set the output limit, in order: tokens,*)
(*              payload (max_tokens, max_output_tokens,                    *)
(*              max_completion_tokens), orchestration                      *)
(*   parallel   orchestration.lms_parallel                                 *)
(*   maxParallel, cap  orchestration.max_parallel, .lms_context_length     *)
(*   complete   every required string is there and the schema version and  *)
(*              the priority are known ones                                *)
(***************************************************************************)
Inputs == {"messages", "input", "prompt"}

InputsOf == [chat |-> {"messages"}, responses |-> {"input", "messages"},
             completions |-> {"prompt"}, embeddings |-> {"input"}, other |-> Inputs]

Endpoint == DOMAIN InputsOf

Number == Nat \union {None, Malformed}

RawTask == [model : STRING, complete : BOOLEAN, endpoint : Endpoint, inputs : SUBSET Inputs,
            refs : SUBSET STRING, vars : SUBSET STRING, text : Nat,
            estimate : Number, outputs : [1 .. 5 -> Number],
            parallel : Number, maxParallel : Number, cap : Number]

OptionalPositiveInt(v) == IF v = None THEN None
                          ELSE IF v = Malformed THEN Malformed
                          ELSE IF v < 1 THEN Malformed ELSE v

(* v1 or v2 or ...: the first that is neither missing nor 0, else the last. *)
FirstTruthy(vs) ==
    LET truthy == {i \in DOMAIN vs : vs[i] # None /\ vs[i] # 0}
    IN vs[IF truthy = {} THEN Len(vs) ELSE Min(truthy)]

(* round(chars / 4): to the nearest, a half to the even neighbour. *)
RoundQuarter(chars) ==
    chars \div 4 + (IF chars % 4 = 3 \/ chars % 8 = 6 THEN 1 ELSE 0)

EstimateInputTokens(chars) == IF chars = 0 THEN 0 ELSE Max({1, RoundQuarter(chars)})

(* task_tokens *)
EstimatedInput(raw) ==
    LET given == OptionalPositiveInt(raw.estimate)
    IN IF given = None THEN EstimateInputTokens(raw.text) ELSE given

MaxOutput(raw) ==
    LET given == OptionalPositiveInt(FirstTruthy(raw.outputs))
    IN IF given = None THEN DefaultMaxOutputTokens ELSE given

RequiredContext(raw) == Max({1, EstimatedInput(raw) + MaxOutput(raw)})

RequestedParallel(raw) ==
    LET first  == OptionalPositiveInt(raw.parallel)
        second == OptionalPositiveInt(raw.maxParallel)
    IN IF first # None THEN first ELSE IF second # None THEN second ELSE 1

(* render_payload_template *)
Renders(raw) == raw.refs \subseteq raw.vars

(* validate_common_orchestration and task_tokens accept the task. *)
ParsesTask(raw) ==
    /\ raw.complete
    /\ Renders(raw)
    /\ Malformed \notin {EstimatedInput(raw), MaxOutput(raw), OptionalPositiveInt(raw.cap),
                         OptionalPositiveInt(raw.parallel),
                         OptionalPositiveInt(raw.maxParallel)}

(* parse_task_queue_payload stores all tasks of a body or, if one is refused, none. *)
ParsesAll(raws) == Len(raws) > 0 /\ \A i \in DOMAIN raws : ParsesTask(raws[i])

(* validate_executable_task_payload, at the task's execution *)
Executable(raw) == raw.inputs \intersect InputsOf[raw.endpoint] # {}

----------------------------------------------------------------------------
(* Mutant: the largest bucket is the largest context there is. *)
ContextBucketSaturated(required) ==
    LET fits == {b \in ContextBuckets : required <= b}
    IN IF fits = {} THEN Max(ContextBuckets) ELSE Min(fits)

ContextBucket(required) ==
    LET fits == {b \in ContextBuckets : Max({1, required}) <= b}
    IN IF fits = {} THEN Max({1, required}) ELSE Min(fits)

(* The caps the tasks of S set, raw being what each of them asked for. *)
Caps(S, raw) == {raw[t].cap : t \in S} \ {None}

(* context_plan_for_model, of a non-empty set S of tasks *)
ContextPlan(S, raw) ==
    LET bucket == ContextBucket(Max({RequiredContext(raw[t]) : t \in S}))
        wanted == Max({RequestedParallel(raw[t]) : t \in S})
        caps   == Caps(S, raw)
    IN [context   |-> IF caps = {} THEN bucket ELSE Min({bucket, Min(caps)}),
        parallel  |-> Max({1, Min({Cardinality(S), wanted})}),
        oversized |-> IF caps = {} THEN {}
                      ELSE {t \in S : RequiredContext(raw[t]) > Min(caps)}]
============================================================================
