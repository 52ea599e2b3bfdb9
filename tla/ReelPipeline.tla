---------------------------- MODULE ReelPipeline ----------------------------
(***************************************************************************)
(* One reel from its creation to its guide: the enrich job, the hand-off   *)
(* to the generate job, and the generate job, over ONE owner that both     *)
(* drive in turn (worker/tasks/enrich_context.py, generate.py, reels.py).  *)
(* The hand-off is two steps of one process, the commit that creates the   *)
(* generate job and the call that posts its message, and either may fail,  *)
(* lie or never happen. What JobTask shows of a single job in detail is    *)
(* coarser here: a claim, its capture and its heartbeat thread are what    *)
(* Holds, Claim and Beat say, and a failed attempt settles in one step.    *)
(***************************************************************************)
EXTENDS Naturals

CONSTANTS
  Runs,        \* message deliveries of either job
  MaxResumes   \* [Jobs -> Nat]: budgets of _RESUMABLE_TASKS

Jobs == {"enrich", "generate"}

ASSUME ReelAssumption == MaxResumes \in [Jobs -> Nat]

VARIABLES
  reel,      \* Reel.status
  thin,      \* is the context unstructured and below ENRICH_THRESHOLD?
  enriched,  \* Reel.enriched_context: the token of the run that wrote it, or 0
  meta,      \* what the enrich job's meta says was done with the context
  status,    \* Job.status of each job, "absent" before it is created
  token,     \* Job.claim_token
  resumes,   \* Job.reaper_resumes
  stale,     \* is the row older than the reaper's threshold for its status?
  router,    \* enqueue_job: "sending", "failing" or "done"
  reaper,    \* the job whose resume is committed and not yet enqueued, or "idle"
  kind,      \* the job each delivery is for
  pc,        \* where each delivery is
  tok,       \* its Claim.token, 0 before it owns the job
  expired,   \* has it run longer than max_runtime_s?
  failedBy   \* history: the job whose failure made the reel fail

content == <<reel, thin, enriched, meta, failedBy>>
rows    == <<status, token, resumes, stale>>
control == <<router, reaper>>
run     == <<kind, pc, tok, expired>>
vars    == <<content, rows, control, run>>

ReelStatus == {"enriching", "generating", "guide_ready", "failed"}
PC == {"unused", "queued", "prepare", "evaluate", "calling", "saving",
       "handover", "enqueue", "hookfailed", "body", "over"}

TypeOK ==
  /\ reel \in ReelStatus /\ thin \in BOOLEAN
  /\ enriched \in Nat
  /\ meta \in {"none", "enriched", "failed", "skipped"}
  /\ failedBy \in Jobs \cup {"none"}
  /\ status \in [Jobs -> {"absent", "pending", "running", "done", "failed"}]
  /\ token \in [Jobs -> Nat] /\ resumes \in [Jobs -> Nat]
  /\ stale \in [Jobs -> BOOLEAN]
  /\ router \in {"sending", "failing", "done"}
  /\ reaper \in Jobs \cup {"idle"}
  /\ kind \in [Runs -> Jobs] /\ pc \in [Runs -> PC]
  /\ tok \in [Runs -> Nat] /\ expired \in [Runs -> BOOLEAN]

(* create_reel has committed the reel, its cuts and the enrich job.        *)
Init ==
  /\ reel = "enriching" /\ thin \in BOOLEAN
  /\ enriched = 0 /\ meta = "none" /\ failedBy = "none"
  /\ status = [j \in Jobs |-> IF j = "enrich" THEN "pending" ELSE "absent"]
  /\ token = [j \in Jobs |-> 0] /\ resumes = [j \in Jobs |-> 0]
  /\ stale = [j \in Jobs |-> FALSE]
  /\ router = "sending" /\ reaper = "idle"
  /\ kind = [r \in Runs |-> "enrich"] /\ pc = [r \in Runs |-> "unused"]
  /\ tok = [r \in Runs |-> 0] /\ expired = [r \in Runs |-> FALSE]

-----------------------------------------------------------------------------
(* Shared pieces.                                                          *)

(* JOB_IN_FLIGHT: the state of the reel that each job drives.              *)
InFlight == [enrich |-> "enriching", generate |-> "generating"]

Live(j) == status[j] \in {"pending", "running"}
Executing(r) == pc[r] \notin {"unused", "queued", "over"}

(* Mutant: the token is left out of the compare-and-set.                   *)
HoldsUnfenced(r) == tok[r] # 0 /\ status[kind[r]] = "running"

(* Claim.advance matches the row from running.                             *)
Holds(r) ==
  tok[r] # 0 /\ status[kind[r]] = "running" /\ token[kind[r]] = tok[r]

Goto(r, p) == pc' = [pc EXCEPT ![r] = p]
Stamp(j, s) ==
  /\ status' = [status EXCEPT ![j] = s]
  /\ stale' = [stale EXCEPT ![j] = FALSE]

(* Mutant: a failed job keeps its reel.                                    *)
FailJobOnly(j) == Stamp(j, "failed") /\ UNCHANGED <<content, token, resumes>>

(* Job j fails and rollback_owner frees the reel if j still drives it.     *)
FailJob(j) ==
  /\ Stamp(j, "failed")
  /\ IF reel = InFlight[j]
       THEN reel' = "failed" /\ failedBy' = j
       ELSE UNCHANGED <<reel, failedBy>>
  /\ UNCHANGED <<thin, enriched, meta, token, resumes>>

(* A message for job j is posted on top of the control states p; the       *)
(* broker may lose it.                                                     *)
Post(j, p) ==
  \/ \E m \in Runs :
       /\ p[m] = "unused"
       /\ pc' = [p EXCEPT ![m] = "queued"]
       /\ kind' = [kind EXCEPT ![m] = j]
  \/ pc' = p /\ UNCHANGED kind

-----------------------------------------------------------------------------
(* The router.                                                             *)

Enqueue ==
  /\ router = "sending"
  /\ Post("enrich", pc)
  /\ router' \in {"done", "failing"}   \* delay() may raise after the broker took it
  /\ UNCHANGED <<content, rows, reaper, tok, expired>>

FailUnenqueued ==
  /\ router = "failing" /\ router' = "done"
  /\ IF status["enrich"] = "pending" THEN FailJob("enrich") ELSE UNCHANGED <<content, rows>>
  /\ UNCHANGED <<reaper, run>>

-----------------------------------------------------------------------------
(* Deliveries of either job.                                               *)

(* Only a pending job is claimed; anything else is a redelivery's no-op.   *)
Claim(r) ==
  /\ pc[r] = "queued"
  /\ LET j == kind[r] IN
       IF status[j] = "pending"
         THEN /\ Stamp(j, "running")
              /\ token' = [token EXCEPT ![j] = @ + 1]
              /\ tok' = [tok EXCEPT ![r] = token'[j]]
              /\ Goto(r, "prepare")
         ELSE Goto(r, "over") /\ UNCHANGED <<status, stale, token, tok>>
  /\ UNCHANGED <<content, resumes, control, kind, expired>>

(* A run that cannot even claim, and has no retry left.                    *)
FailUnclaimed(r) ==
  /\ pc[r] = "queued"
  /\ IF status[kind[r]] = "pending" THEN FailJob(kind[r]) ELSE UNCHANGED <<content, rows>>
  /\ Goto(r, "over")
  /\ UNCHANGED <<control, kind, tok, expired>>

(* _prepare_generate refuses a reel that is no longer generating.          *)
Prepare(r) ==
  /\ pc[r] = "prepare"
  /\ kind[r] = "generate" => reel = "generating"
  /\ Goto(r, IF kind[r] = "enrich" THEN "evaluate" ELSE "body")
  /\ UNCHANGED <<content, rows, control, kind, tok, expired>>

(* A body that raises, times out or is shut down: failed and freed, if the *)
(* run still holds the job.                                                *)
FailOwned(r) ==
  /\ pc[r] \in {"prepare", "evaluate", "calling", "saving", "handover", "body"}
  /\ IF Holds(r) THEN FailJob(kind[r]) ELSE UNCHANGED <<content, rows>>
  /\ Goto(r, "over")
  /\ UNCHANGED <<control, kind, tok, expired>>

(* generate's transient errors go back to pending, and a message follows.  *)
Retry(r) ==
  /\ kind[r] = "generate" /\ pc[r] \in {"prepare", "body"} /\ Holds(r)
  /\ Stamp("generate", "pending")
  /\ Post("generate", [pc EXCEPT ![r] = "over"])
  /\ UNCHANGED <<content, token, resumes, control, tok, expired>>

Beat(r) ==
  /\ Executing(r) /\ ~expired[r] /\ Holds(r)
  /\ stale' = [stale EXCEPT ![kind[r]] = FALSE]
  /\ UNCHANGED <<content, status, token, resumes, control, run>>

(* max_runtime_s passes: the heartbeat thread stops (a body that swallows  *)
(* the soft limit may still go on).                                        *)
Expire(r) ==
  /\ Executing(r) /\ ~expired[r]
  /\ expired' = [expired EXCEPT ![r] = TRUE]
  /\ UNCHANGED <<content, rows, control, kind, pc, tok>>

(* The process dies; with late acknowledgement its message may come back.  *)
Kill(r) ==
  /\ Executing(r)
  /\ Post(kind[r], [pc EXCEPT ![r] = "over"])
  /\ UNCHANGED <<content, rows, control, tok, expired>>

-----------------------------------------------------------------------------
(* The body of enrich_context.                                             *)

(* One heartbeat of the body on its way to next: JobLost ends the run.     *)
HeartbeatTo(r, next) ==
  IF Holds(r)
    THEN Goto(r, next) /\ stale' = [stale EXCEPT !["enrich"] = FALSE]
    ELSE Goto(r, "over") /\ UNCHANGED stale

(* The score, heartbeat(30), and heartbeat(40) before a paid call.         *)
Evaluate(r) ==
  /\ pc[r] = "evaluate"
  /\ HeartbeatTo(r, IF thin THEN "calling" ELSE "saving")
  /\ UNCHANGED <<content, status, token, resumes, control, kind, tok, expired>>

(* Mutant: the reply is committed before the heartbeat that fences it.     *)
SaveUnfenced(r) ==
  /\ pc[r] = "calling"
  /\ \E replied \in BOOLEAN :
       /\ enriched' = IF replied THEN tok[r] ELSE enriched
       /\ meta' = IF replied THEN "enriched" ELSE "failed"
  /\ HeartbeatTo(r, "handover")
  /\ UNCHANGED <<reel, thin, failedBy, status, token, resumes, control, kind, tok, expired>>

(* Mutant: the meta does not look at what the call returned.               *)
SaveClaiming(r) ==
  /\ pc[r] = "calling"
  /\ IF Holds(r)
       THEN (enriched' = tok[r] \/ UNCHANGED enriched) /\ meta' = "enriched"
       ELSE UNCHANGED <<enriched, meta>>
  /\ HeartbeatTo(r, "handover")
  /\ UNCHANGED <<reel, thin, failedBy, status, token, resumes, control, kind, tok, expired>>

(* llm_enrich answers, or returns None and leaves the column as it was;    *)
(* heartbeat(80) commits the column and the meta together.                 *)
Save(r) ==
  /\ pc[r] = "calling"
  /\ \E replied \in BOOLEAN :
       IF Holds(r)
         THEN /\ enriched' = IF replied THEN tok[r] ELSE enriched
              /\ meta' = IF replied THEN "enriched" ELSE "failed"
         ELSE UNCHANGED <<enriched, meta>>
  /\ HeartbeatTo(r, "handover")
  /\ UNCHANGED <<reel, thin, failedBy, status, token, resumes, control, kind, tok, expired>>

Skip(r) ==
  /\ pc[r] = "saving"
  /\ meta' = IF Holds(r) THEN "skipped" ELSE meta
  /\ HeartbeatTo(r, "handover")
  /\ UNCHANGED <<reel, thin, enriched, failedBy, status, token, resumes, control, kind, tok, expired>>

(* lock_job, the reel's transition, the generate job and the done-stamp    *)
(* are one transaction. Its commit can land and still raise: then nothing  *)
(* posts the message.                                                      *)
HandOver(r) ==
  /\ pc[r] = "handover"
  /\ IF Holds(r)
       THEN /\ status' = [status EXCEPT !["enrich"] = "done", !["generate"] = "pending"]
            /\ stale' = [j \in Jobs |-> FALSE]
            /\ reel' = "generating"
            /\ \E next \in {"enqueue", "over"} : Goto(r, next)
       ELSE Goto(r, "over") /\ UNCHANGED <<status, stale, reel>>
  /\ UNCHANGED <<thin, enriched, meta, failedBy, token, resumes, control, kind, tok, expired>>

(* after_commit: generate_guide.delay; it may raise though a worker gets   *)
(* the message.                                                            *)
EnqueueGenerate(r) ==
  /\ pc[r] = "enqueue"
  /\ \E next \in {"over", "hookfailed"} : Post("generate", [pc EXCEPT ![r] = next])
  /\ UNCHANGED <<content, rows, control, tok, expired>>

(* Mutant: the follow-up is failed whatever it is doing.                   *)
AbandonRunning ==
  /\ status' = [status EXCEPT !["enrich"] = "failed", !["generate"] = "failed"]
  /\ stale' = [j \in Jobs |-> FALSE]
  /\ IF status["generate"] = "pending" /\ reel = "generating"
       THEN reel' = "failed" /\ failedBy' = "generate"
       ELSE UNCHANGED <<reel, failedBy>>

(* _abandon_generate: a generate job that is still pending fails with the  *)
(* reel; one that a worker has taken owns the reel now and is left alone.  *)
AbandonGenerate ==
  IF status["generate"] = "pending"
    THEN /\ status' = [status EXCEPT !["enrich"] = "failed", !["generate"] = "failed"]
         /\ stale' = [j \in Jobs |-> FALSE]
         /\ IF reel = "generating"
              THEN reel' = "failed" /\ failedBy' = "generate"
              ELSE UNCHANGED <<reel, failedBy>>
    ELSE Stamp("enrich", "failed") /\ UNCHANGED <<reel, failedBy>>

(* The cleanup: the hook runs in a savepoint, so it may be undone alone;   *)
(* a connection that is gone loses the stamp as well.                      *)
CleanUp(r) ==
  /\ pc[r] = "hookfailed" /\ status["enrich"] = "done"
  /\ \/ AbandonGenerate
     \/ Stamp("enrich", "failed") /\ UNCHANGED <<reel, failedBy>>
     \/ UNCHANGED <<reel, failedBy, status, stale>>
  /\ Goto(r, "over")
  /\ UNCHANGED <<thin, enriched, meta, token, resumes, control, kind, tok, expired>>

-----------------------------------------------------------------------------
(* generate_guide persists its guide with the done-stamp.                  *)
Finish(r) ==
  /\ pc[r] = "body" /\ kind[r] = "generate"
  /\ IF Holds(r)
       THEN Stamp("generate", "done") /\ reel' = "guide_ready"
       ELSE UNCHANGED <<status, stale, reel>>
  /\ Goto(r, "over")
  /\ UNCHANGED <<thin, enriched, meta, failedBy, token, resumes, control, kind, tok, expired>>

-----------------------------------------------------------------------------
(* The reaper, and time.                                                   *)

ReapResume(j) ==
  /\ reaper = "idle" /\ status[j] = "running" /\ stale[j]
  /\ resumes[j] < MaxResumes[j]
  /\ Stamp(j, "pending")
  /\ resumes' = [resumes EXCEPT ![j] = @ + 1]
  /\ reaper' = j
  /\ UNCHANGED <<content, token, router, run>>

ReapEnqueue ==
  /\ reaper # "idle" /\ reaper' = "idle"
  /\ Post(reaper, pc)
  /\ UNCHANGED <<content, rows, router, tok, expired>>

(* Mutant: the sweep of lost messages is missing.                          *)
ReapFailRunning(j) ==
  /\ reaper = "idle" /\ stale[j]
  /\ status[j] = "running" /\ resumes[j] = MaxResumes[j]
  /\ FailJob(j)
  /\ UNCHANGED <<control, run>>

ReapFail(j) ==
  /\ reaper = "idle" /\ stale[j]
  /\ status[j] = "pending" \/ (status[j] = "running" /\ resumes[j] = MaxResumes[j])
  /\ FailJob(j)
  /\ UNCHANGED <<control, run>>

TimePasses(j) ==
  /\ Live(j) /\ ~stale[j]
  /\ stale' = [stale EXCEPT ![j] = TRUE]
  /\ UNCHANGED <<content, status, token, resumes, control, run>>

-----------------------------------------------------------------------------
Enrich(r) ==
  \/ Evaluate(r) \/ Save(r) \/ Skip(r)
  \/ HandOver(r) \/ EnqueueGenerate(r) \/ CleanUp(r)

Worker(r) ==
  \/ Claim(r) \/ FailUnclaimed(r) \/ Prepare(r) \/ FailOwned(r) \/ Retry(r)
  \/ Beat(r) \/ Expire(r) \/ Kill(r) \/ Enrich(r) \/ Finish(r)

Reaper == ReapEnqueue \/ \E j \in Jobs : ReapResume(j) \/ ReapFail(j)

Next ==
  \/ Enqueue \/ FailUnenqueued
  \/ \E r \in Runs : Worker(r)
  \/ Reaper
  \/ \E j \in Jobs : TimePasses(j)

(* As in JobTask: time, the end of max_runtime_s and the reaper.           *)
Fairness ==
  /\ WF_vars(ReapEnqueue)
  /\ \A r \in Runs : WF_vars(Expire(r))
  /\ \A j \in Jobs :
       WF_vars(TimePasses(j)) /\ WF_vars(ReapResume(j)) /\ WF_vars(ReapFail(j))

Spec == Init /\ [][Next]_vars
FairSpec == Spec /\ Fairness

-----------------------------------------------------------------------------
(* The reel is in a job's in-flight state exactly while that job is live:  *)
(* between the two jobs there is no instant at which the reel is driven by *)
(* none of them or by both, whatever becomes of the hand-off.              *)
ReelHasItsJob == \A j \in Jobs : reel = InFlight[j] <=> Live(j)

(* What the page of a failed reel shows: the newest failed job of the reel *)
(* (latest_failed_job_for_reel in api/routers/reels.py).                   *)
OldestFailed ==
  IF status["enrich"] = "failed" THEN "enrich"
  ELSE IF status["generate"] = "failed" THEN "generate" ELSE "none"

LatestFailed ==
  IF status["generate"] = "failed" THEN "generate"
  ELSE IF status["enrich"] = "failed" THEN "enrich" ELSE "none"

(* The error shown is that of the job whose failure made the reel fail, as *)
(* the docstring of latest_failed_job_for_reel claims, also when enrich    *)
(* itself was withdrawn after its hand-off.                                *)
FailurePageExplains == reel = "failed" => LatestFailed = failedBy

(* Once the generate job exists, no enrich run (a superseded one waking up *)
(* with its reply included) changes the context it is generating from, nor *)
(* what the enrich job says was done with it.                              *)
ContextFixedAtHandOver ==
  [][status["generate"] # "absent" => UNCHANGED <<enriched, meta>>]_vars

(* The enrich job says "enriched" only of a reel that has the text. The    *)
(* converse is not true: a resumed run whose call fails says the original  *)
(* is used while the column keeps what the run before it had committed.    *)
MetaTellsContext == meta = "enriched" => enriched # 0

(* Both jobs keep the promises of JobLifecycle over the one reel; the      *)
(* generate job holds it, in the sense of that module, from the start.     *)
EnrichLife == INSTANCE JobLifecycle WITH
  phase <- status["enrich"], held <- reel = "enriching"
GenerateLife == INSTANCE JobLifecycle WITH
  phase <- IF status["generate"] = "absent" THEN "pending" ELSE status["generate"],
  held  <- status["generate"] = "absent" \/ reel = "generating"
BothLifecycles == EnrichLife!Spec /\ GenerateLife!Spec

(* Whatever happens to messages, processes and the cleanup hook, the reel  *)
(* ends with a guide or failed. In particular the gap that job_task's own  *)
(* docstring describes (a hook and its stamp both lost) closes itself.     *)
ReelSettles == <>(reel \in {"guide_ready", "failed"})
=============================================================================
