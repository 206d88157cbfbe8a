-------------------------- MODULE MCFileTaskStore --------------------------
(* An instance of FileTaskStore for TLC. *)
EXTENDS FileTaskStore, TLC

Sub(key, group, valid) == [tenant |-> "a", key |-> key, group |-> group, valid |-> valid]

g1 == Sub("k1", "g", TRUE)
g2 == Sub("k2", "g", FALSE)
h1 == Sub("k3", "h", TRUE)
h2 == Sub("k4", "h", TRUE)
h3 == Sub("k5", "h", TRUE)

MCSubmission == {g1, g2, h1, h2, h3}

Ask == [model |-> "m", complete |-> TRUE, endpoint |-> "chat", inputs |-> {"messages"},
        refs |-> {"job_id"}, vars |-> {"job_id", "model"}, text |-> 0, estimate |-> None,
        outputs |-> <<None, None, None, None, None>>,
        parallel |-> None, maxParallel |-> None, cap |-> None]

(***************************************************************************)
(* A task that fills the smallest bucket, one that sets a cap and has no   *)
(* messages for its chat endpoint, one that is larger than every bucket,   *)
(* one whose output limit is not a number, and one whose template names a  *)
(* variable nobody defines.                                                *)
(***************************************************************************)
MCRaw == (g1 :> [Ask EXCEPT !.estimate = 1024, !.parallel = 4])
      @@ (g2 :> [Ask EXCEPT !.text = 6, !.outputs[1] = 0, !.outputs[2] = 512, !.cap = 4096,
                           !.inputs = {"prompt"}])
      @@ (h1 :> [Ask EXCEPT !.estimate = 140000, !.maxParallel = 2])
      @@ (h2 :> [Ask EXCEPT !.outputs[5] = Malformed])
      @@ (h3 :> [Ask EXCEPT !.refs = {"page"}])

(***************************************************************************)
(* Two tasks of one group and one of another, which may have come before   *)
(* them and is then repeated, and two bodies that are refused.             *)
(***************************************************************************)
MCBatches == {<<g1, g2, h1>>, <<h1>>, <<h1, h2>>, <<h3>>}
============================================================================
