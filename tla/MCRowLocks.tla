------------------------------ MODULE MCRowLocks ------------------------------
(* A worker for the reel's two jobs and one for the cut's.                 *)
EXTENDS RowLocks, TLC

CONSTANTS e1, g1, r1

MCWorkers == {e1, g1, r1}
MCJobOf == (e1 :> "enrich") @@ (g1 :> "generate") @@ (r1 :> "render")

(* Generate is claimed again after a retry or a resume; of a render, which *)
(* takes the same locks as before, that is left out.                       *)
MCMaxClaims == [j \in Jobs |-> IF j = "generate" THEN 2 ELSE 1]
=============================================================================
