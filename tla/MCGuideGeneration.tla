------------------------ MODULE MCGuideGeneration ------------------------
(* GuideGeneration on small instances: a few executions of one job.        *)
EXTENDS GuideGeneration, TLC

CONSTANTS g1, g2, g3

Interchangeable == Permutations(Runs)
=============================================================================
