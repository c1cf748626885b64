----------------------------- MODULE MCJobWatch -----------------------------
(* Outputs of up to two frames with payloads of one or two parts, and long *)
(* ones; those of one or two frames of one part each are watched.          *)
EXTENDS JobWatch

Frame == [stream : Stream, parts : 1..2]
Short == UNION {[1..n -> Frame] : n \in 0..2}
Long(n) == [f \in 1..n |-> [stream |-> IF f % 3 = 0 THEN "stderr" ELSE "stdout", parts |-> 1]]
ShortOrLong == Short \cup {Long(3), Long(8), Long(9)}

Lines == {[f \in 1..n |-> [stream |-> "stdout", parts |-> 1]] : n \in 1..2}
=============================================================================
