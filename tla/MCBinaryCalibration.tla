------------------------ MODULE MCBinaryCalibration ------------------------
(***************************************************************************)
(* Model values, symmetry and the refinement instance for TLC.             *)
(***************************************************************************)
EXTENDS BinaryCalibrationLedger, TLC

CONSTANTS r1, r2, v1, v2, w1, w2, i1, i2

OneRun      == {r1}
TwoRuns     == {r1, r2}
OneVersion  == {v1}
TwoVersions == {v1, v2}
OneWorker   == {w1}
TwoWorkers  == {w1, w2}
OneItem     == {i1}
TwoItems    == {i1, i2}

\* Nothing tells runs, versions, workers or items apart.
Symmetry ==
    Permutations(Runs) \cup Permutations(Versions) \cup Permutations(Workers) \cup Permutations(Items)
=============================================================================
