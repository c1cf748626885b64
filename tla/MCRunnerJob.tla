---------------------------- MODULE MCRunnerJob ----------------------------
(* A clone job and another job of its pipeline, for RunnerJob.             *)
EXTENDS RunnerJob

CONSTANTS clone, a
=============================================================================
