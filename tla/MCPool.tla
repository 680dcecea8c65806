------------------------------- MODULE MCPool -------------------------------
(* Small instances of Pool for TLC. *)
EXTENDS PoolRefinement, PoolInvariant, TLC

CONSTANTS j1, j2, j3, w1, w2

TwoJobs == {j1, j2}
ThreeJobs == {j1, j2, j3}
OneWorker == {w1}
TwoWorkers == {w1, w2}
NoStuckJob == {}
FirstJobStuck == {j1}

\* Without stuck jobs, jobs are interchangeable, and so are workers.
Symmetry == Permutations(ThreeJobs) \cup Permutations(TwoWorkers)
=============================================================================
