-------------------------- MODULE MCPipelineCancel --------------------------
(* Small pipelines for PipelineCancel.                                     *)
EXTENDS PipelineCancel, TLC

CONSTANTS clone, a, b

\* clone -> a -> b
Chain == (a :> {}) @@ (b :> {a})

AllAlways == [j \in Job |-> Always]
=============================================================================
