------------------------------ MODULE MCAIJobs ------------------------------
(* Small instances of AIJobs for TLC.                                      *)
EXTENDS AIJobs, TLC

CONSTANTS j1, j2, w1, w2

OneJob == {j1}
TwoJobs == {j1, j2}
TwoWorkers == {w1, w2}

\* Workers are interchangeable, and so are jobs; used in safety runs only.
Symmetry == Permutations(TwoJobs) \cup Permutations(TwoWorkers)
=============================================================================
