---------------------------- MODULE MCSourceRuns ----------------------------
(* Instances of SourceRuns: jobs and workers are interchangeable.          *)
EXTENDS SourceRuns, TLC

JobSymmetry == Permutations(Job)
=============================================================================
