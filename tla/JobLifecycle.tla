--------------------------- MODULE JobLifecycle ---------------------------
(***************************************************************************)
(* What a job promises the rest of the system, whatever happens to the     *)
(* workers, messages and reaper passes behind it: it holds its reel or cut *)
(* from its creation to the very commit that makes it terminal, it         *)
(* succeeds at most once, and a failed job stays failed (every retry the   *)
(* operator asks for is another job).                                      *)
(***************************************************************************)
VARIABLES
  phase,  \* pending, running, done or failed
  held    \* is the reel or cut in flight on behalf of this job?

Init == phase = "pending" /\ held = TRUE

(* A worker takes the job.                                                 *)
Start == phase = "pending" /\ phase' = "running" /\ UNCHANGED held

(* It is handed back, for a retry or by the reaper.                        *)
HandBack == phase = "running" /\ phase' = "pending" /\ UNCHANGED held

(* Its result lands together with the owner's next state.                  *)
Succeed == phase = "running" /\ phase' = "done" /\ held' = FALSE

(* It fails, and its owner is freed in the same commit.                    *)
Fail == phase \in {"pending", "running"} /\ phase' = "failed" /\ held' = FALSE

(* A success is withdrawn: what had to follow the commit could not be done. *)
Withdraw == phase = "done" /\ phase' = "failed" /\ UNCHANGED held

Next == Start \/ HandBack \/ Succeed \/ Fail \/ Withdraw

Spec == Init /\ [][Next]_<<phase, held>>
=============================================================================
