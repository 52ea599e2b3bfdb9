----------------------------- MODULE MCJobTask -----------------------------
(***************************************************************************)
(* Instances of JobTask for TLC. The budgets are the code's: generate and  *)
(* render retry twice, enrich and publish never; the reaper resumes enrich *)
(* and render twice, generate once, publish never.                         *)
(***************************************************************************)
EXTENDS JobTask, TLC

CONSTANTS r1, r2, r3, r4

AllTypes == {"enrich", "generate", "render", "publish"}

Retries ==
  [t \in Types |-> IF t \in {"generate", "render"} THEN 2 ELSE 0]

Resumes ==
  [t \in Types |-> CASE t = "publish" -> 0 [] t = "generate" -> 1 [] OTHER -> 2]

AfterCommits == [t \in Types |-> t = "enrich"]

RunSymmetry == Permutations(Runs)
=============================================================================
