--------------------------- MODULE MCCutPipeline ---------------------------
(* CutPipeline on small instances: two texts and two visual directions, one *)
(* cleared and one uncleared asset, a few jobs and executions.              *)
EXTENDS CutPipeline, TLC

CONSTANTS j1, j2, j3, j4, j5, x1, x2, x3, x4, x5, t1, t2, d1, d2

(* Jobs, executions, texts and directions are only ever compared.           *)
Interchangeable == Permutations(Jobs) \cup Permutations(Runs)
                     \cup Permutations(Texts) \cup Permutations(Directions)
=============================================================================
