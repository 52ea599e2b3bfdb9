--------------------------- MODULE MCReelPipeline ---------------------------
(* Instances of ReelPipeline: the resume budgets are the code's.           *)
EXTENDS ReelPipeline, TLC

CONSTANTS r1, r2, r3

Resumes == [enrich |-> 2, generate |-> 1]
=============================================================================
