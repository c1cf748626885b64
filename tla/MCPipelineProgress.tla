------------------------- MODULE MCPipelineProgress -------------------------
(* Small pipelines for PipelineProgress.                                   *)
EXTENDS PipelineInvariant, TLC

CONSTANTS clone, a, b, c, d

\* clone -> a, clone -> b
Fork == (a :> {}) @@ (b :> {})
\* clone -> a, b; b -> c; a, c -> d
Diamond == (a :> {}) @@ (b :> {}) @@ (c :> {b}) @@ (d :> {a, c})

AllAlways == [j \in Job |-> Always]

\* d only runs when what it depends on has failed
OnFailure == [kind |-> "include", patterns |-> {{"failure"}}]
DOnFailure == [j \in Job |-> IF j = d THEN OnFailure ELSE Always]
=============================================================================
