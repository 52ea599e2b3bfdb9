------------------------------ MODULE JobTask ------------------------------
(***************************************************************************)
(* The life of ONE Job row and of the reel or cut that owns it: the router *)
(* that enqueues it (api/enqueue.py), every delivery of its Celery message *)
(* to a worker (job_task in worker/tasks/common.py), and the periodic      *)
(* reaper (worker/tasks/maintenance.py).                                   *)
(*                                                                         *)
(* A member of Runs is one delivery of a message: it is posted to the      *)
(* broker ("queued"), executed by a worker process and ended ("over").     *)
(* A retry, a redelivery and a reaper resume are deliveries of their own,  *)
(* so several deliveries of the same job can be executing at once.         *)
(* Commits are the atomic steps: what the code writes between two commits  *)
(* of one session is one action.                                           *)
(***************************************************************************)
EXTENDS Naturals

CONSTANTS
  Runs,            \* message deliveries of this job; bounds retries, resumes, redeliveries
  Types,           \* the JobType values considered
  MaxRetries,      \* [Types -> Nat]: max_retries of the Celery task
  MaxResumes,      \* [Types -> Nat]: budget in _RESUMABLE_TASKS, 0 when absent
  HasAfterCommit,  \* [Types -> BOOLEAN]: does the task pass after_commit?
  PreclaimRetries, \* PRECLAIM_MAX_RETRIES
  CaptureStalls    \* can a process stop for STALE_MINUTES between the claim's
                   \* commit and the refresh that captures its token?

ASSUME JobTaskAssumption ==
  /\ MaxRetries \in [Types -> Nat]
  /\ MaxResumes \in [Types -> Nat]
  /\ HasAfterCommit \in [Types -> BOOLEAN]
  /\ PreclaimRetries \in Nat
  /\ CaptureStalls \in BOOLEAN

VARIABLES
  type,     \* Job.type
  status,   \* Job.status
  token,    \* Job.claim_token
  resumes,  \* Job.reaper_resumes
  stale,    \* is the row older than the reaper's threshold for its status?
  owner,    \* the reel or cut: "inflight" for this job, "other" when it is in the
            \* same in-flight state on behalf of a later job, "settled" or "failed"
  router,   \* enqueue_job: "sending", "failing" (delay raised) or "done"
  reaper,   \* reap_stuck_jobs between two of its transactions on this job
  pc,       \* where each delivery is
  tok,      \* Claim.token of each delivery; 0 before it owns the job
  retries,  \* self.request.retries of each delivery
  expired   \* has the delivery run longer than max_runtime_s?

job     == <<type, status, token, resumes, stale, owner>>
control == <<router, reaper>>
run     == <<pc, tok, retries, expired>>
vars    == <<job, control, run>>

Status == {"pending", "running", "done", "failed"}
Owner  == {"inflight", "other", "settled", "failed"}
PC == {"unused", "queued", "loaded", "claimed", "prepare", "body", "after",
       "transient", "permanent", "interrupted", "hookfailed",
       "retrying", "rejected", "over"}

TypeOK ==
  /\ type \in Types
  /\ status \in Status
  /\ token \in Nat
  /\ resumes \in Nat
  /\ stale \in BOOLEAN
  /\ owner \in Owner
  /\ router \in {"sending", "failing", "done"}
  /\ reaper \in {"idle", "resumed", "orphan"}
  /\ pc \in [Runs -> PC]
  /\ tok \in [Runs -> Nat]
  /\ retries \in [Runs -> Nat]
  /\ expired \in [Runs -> BOOLEAN]

(* The router has committed the Job and its owner's transition together.   *)
Init ==
  /\ type \in Types
  /\ status = "pending" /\ token = 0 /\ resumes = 0 /\ stale = FALSE
  /\ owner = "inflight"
  /\ router = "sending" /\ reaper = "idle"
  /\ pc = [r \in Runs |-> "unused"]
  /\ tok = [r \in Runs |-> 0]
  /\ retries = [r \in Runs |-> 0]
  /\ expired = [r \in Runs |-> FALSE]

-----------------------------------------------------------------------------
(* Shared pieces of the handlers.                                          *)

(* A worker process is executing the delivery.                             *)
Executing(r) == pc[r] \notin {"unused", "queued", "over"}

(* Mutant: the compare-and-set filters on status alone.                    *)
HoldsUnfenced(r) == tok[r] # 0 /\ status = "running"

(* The rows a fenced compare-and-set from `running` matches.               *)
Holds(r) == tok[r] # 0 /\ status = "running" /\ token = tok[r]

(* Mutant: the owner goes back to where it started instead of failing.      *)
RolledBackToDraft(o) == IF o \in {"inflight", "other"} THEN "draft" ELSE o

(* rollback_owner: it can only see the owner's state, not whose it is.     *)
RolledBack(o) == IF o \in {"inflight", "other"} THEN "failed" ELSE o

(* Mutant: a failure that forgets the owner.                               *)
FailJobOnly ==
  /\ status' = "failed"
  /\ stale' = FALSE
  /\ UNCHANGED <<type, token, resumes, owner>>

(* Job -> failed and its owner freed, in one commit.                       *)
FailJob ==
  /\ status' = "failed"
  /\ stale' = FALSE
  /\ owner' = RolledBack(owner)
  /\ UNCHANGED <<type, token, resumes>>

(* A writer that never claimed the job fails it only while it is pending.  *)
FailUnclaimed == IF status = "pending" THEN FailJob ELSE UNCHANGED job

(* Moves delivery r to control state p.                                    *)
Goto(r, p) == pc' = [pc EXCEPT ![r] = p]

(* Posts a message carrying retry count n, on top of the control states p. *)
(* The broker may lose it, now or before any worker takes it.              *)
Post(p, n) ==
  \/ \E m \in Runs :
       /\ p[m] = "unused"
       /\ pc' = [p EXCEPT ![m] = "queued"]
       /\ retries' = [retries EXCEPT ![m] = n]
  \/ pc' = p /\ UNCHANGED retries

-----------------------------------------------------------------------------
(* The router: enqueue_job.                                                *)

Enqueue ==
  /\ router = "sending"
  /\ router' = "done"
  /\ Post(pc, 0)
  /\ UNCHANGED <<job, reaper, tok, expired>>

(* delay() raises; the broker may have accepted the message all the same.  *)
EnqueueRaises ==
  /\ router = "sending"
  /\ router' = "failing"
  /\ Post(pc, 0)
  /\ UNCHANGED <<job, reaper, tok, expired>>

FailUnenqueued ==
  /\ router = "failing"
  /\ router' = "done"
  /\ FailUnclaimed
  /\ UNCHANGED <<reaper, run>>

-----------------------------------------------------------------------------
(* A delivery: run() inside job_task.                                      *)

(* A worker takes the message and loads the Job; only pending ones run.    *)
Receive(r) ==
  /\ pc[r] = "queued"
  /\ Goto(r, IF status = "pending" THEN "loaded" ELSE "over")
  /\ UNCHANGED <<job, control, tok, retries, expired>>

(* Mutant: the claim trusts the status it loaded.                          *)
ClaimAsLoaded(r) ==
  /\ pc[r] = "loaded"
  /\ status' = "running" /\ token' = token + 1 /\ stale' = FALSE
  /\ Goto(r, "claimed")
  /\ UNCHANGED <<type, resumes, owner, control, tok, retries, expired>>

(* The claim: a compare-and-set from pending that bumps the token.         *)
Claim(r) ==
  /\ pc[r] = "loaded"
  /\ IF status = "pending"
       THEN /\ status' = "running" /\ token' = token + 1 /\ stale' = FALSE
            /\ Goto(r, "claimed")
            /\ UNCHANGED <<type, resumes, owner>>
       ELSE /\ Goto(r, "over")
            /\ UNCHANGED job
  /\ UNCHANGED <<control, tok, retries, expired>>

(* A later transaction refreshes the row and captures whatever token it    *)
(* holds by then; from here on the heartbeat thread runs.                  *)
Capture(r) ==
  /\ pc[r] = "claimed"
  /\ tok' = [tok EXCEPT ![r] = token]
  /\ Goto(r, "prepare")
  /\ UNCHANGED <<job, control, retries, expired>>

(* prepare() succeeded; started_at, attempts and progress are plain writes *)
(* that touch updated_at but not heartbeat_at.                             *)
StartBody(r) ==
  /\ pc[r] = "prepare"
  /\ Goto(r, "body")
  /\ stale' = (stale /\ status = "running")
  /\ UNCHANGED <<type, status, token, resumes, owner, control, tok, retries, expired>>

(* heartbeat() from the body; losing the job raises JobLost, which is not  *)
(* transient. Past max_runtime_s the soft time limit has ended the body.   *)
Heartbeat(r) ==
  /\ pc[r] = "body" /\ ~expired[r]
  /\ IF Holds(r)
       THEN stale' = FALSE /\ UNCHANGED pc
       ELSE Goto(r, "permanent") /\ UNCHANGED stale
  /\ UNCHANGED <<type, status, token, resumes, owner, control, tok, retries, expired>>

(* _heartbeat_loop: one beat of the background thread.                     *)
ThreadBeat(r) ==
  /\ Executing(r) /\ ~expired[r] /\ Holds(r)
  /\ stale' = FALSE
  /\ UNCHANGED <<type, status, token, resumes, owner, control, run>>

(* max_runtime_s passes: the thread stops beating.                         *)
Expire(r) ==
  /\ Executing(r) /\ tok[r] # 0 /\ ~expired[r]
  /\ expired' = [expired EXCEPT ![r] = TRUE]
  /\ UNCHANGED <<job, control, pc, tok, retries>>

(* The body ends with its owner transition and the fenced done-stamp, one  *)
(* commit. transition() refuses an owner it sees no longer in flight. The  *)
(* commit can land and still raise (the connection died on the reply).     *)
DoneStamp(r) ==
  /\ pc[r] = "body"
  /\ \/ /\ owner \notin {"inflight", "other"}
        /\ Goto(r, "permanent")
        /\ UNCHANGED job
     \/ /\ Holds(r)
        /\ status' = "done" /\ owner' = "settled" /\ stale' = FALSE
        /\ \E next \in {IF HasAfterCommit[type] THEN "after" ELSE "over", "transient"} :
             Goto(r, next)
        /\ UNCHANGED <<type, token, resumes>>
     \/ /\ ~Holds(r)
        /\ Goto(r, "over")
        /\ UNCHANGED job
  /\ UNCHANGED <<control, tok, retries, expired>>

(* after_commit(result) returns, raises or is shut down.                   *)
AfterCommit(r) ==
  /\ pc[r] = "after"
  /\ \E next \in {"over", "hookfailed"} : Goto(r, next)
  /\ UNCHANGED <<job, control, tok, retries, expired>>

(* _stamp_failed_and_run_cleanup: done -> failed, then the hook in its own *)
(* savepoint may or may not get to roll the owner back. A connection that  *)
(* is gone loses both.                                                     *)
CleanUpCommitted(r) ==
  /\ pc[r] = "hookfailed"
  /\ Goto(r, "over")
  /\ \/ UNCHANGED job
     \/ /\ status = "done"
        /\ status' = "failed" /\ stale' = FALSE
        /\ owner' \in {owner, IF owner = "settled" THEN "failed" ELSE owner}
        /\ UNCHANGED <<type, token, resumes>>
  /\ UNCHANGED <<control, tok, retries, expired>>

-----------------------------------------------------------------------------
(* A delivery that raises: _settle_failure and what follows it.            *)

(* Any step before the done-stamp commit can raise; tok tells whether the  *)
(* run had already captured its claim.                                     *)
Raise(r) ==
  /\ pc[r] \in {"queued", "loaded", "claimed", "prepare", "body"}
  /\ \E kind \in {"transient", "permanent"} : Goto(r, kind)
  /\ UNCHANGED <<job, control, tok, retries, expired>>

(* SystemExit or KeyboardInterrupt in a run that owns its job.             *)
Interrupt(r) ==
  /\ pc[r] \in {"prepare", "body"}
  /\ Goto(r, "interrupted")
  /\ UNCHANGED <<job, control, tok, retries, expired>>

(* Mutant: the budget of an unclaimed run is given to every run.           *)
RetryBudgetUnclaimed(r) ==
  IF MaxRetries[type] > PreclaimRetries THEN MaxRetries[type] ELSE PreclaimRetries

(* _retry_budget: a run that has not claimed anything may always retry.    *)
RetryBudget(r) ==
  IF tok[r] # 0 \/ MaxRetries[type] > PreclaimRetries
    THEN MaxRetries[type]
    ELSE PreclaimRetries

Retriable(r) == pc[r] = "transient" /\ retries[r] < RetryBudget(r)

(* A run that never owned the job retries it as it is, or fails it.        *)
SettleUnclaimed(r) ==
  /\ pc[r] \in {"transient", "permanent"} /\ tok[r] = 0
  /\ IF Retriable(r)
       THEN Goto(r, "retrying") /\ UNCHANGED job
       ELSE Goto(r, "over") /\ FailUnclaimed
  /\ UNCHANGED <<control, tok, retries, expired>>

(* A transient failure with retries left: running -> pending, fenced.      *)
ResetForRetry(r) ==
  /\ tok[r] # 0 /\ Retriable(r)
  /\ IF Holds(r)
       THEN /\ status' = "pending" /\ stale' = FALSE
            /\ Goto(r, "retrying")
            /\ UNCHANGED <<type, token, resumes, owner>>
       ELSE /\ Goto(r, "over")
            /\ UNCHANGED job
  /\ UNCHANGED <<control, tok, retries, expired>>

(* Any other failure of an owner, a shutdown included: failed, fenced.     *)
FailOwned(r) ==
  /\ pc[r] \in {"transient", "permanent", "interrupted"}
  /\ tok[r] # 0 /\ ~Retriable(r)
  /\ Goto(r, "over")
  /\ IF Holds(r) THEN FailJob ELSE UNCHANGED job
  /\ UNCHANGED <<control, tok, retries, expired>>

(* self.retry() posts the next message.                                    *)
SendRetry(r) ==
  /\ pc[r] = "retrying"
  /\ Post([pc EXCEPT ![r] = "over"], retries[r] + 1)
  /\ UNCHANGED <<job, control, tok, expired>>

(* The broker refuses it (Reject).                                         *)
RetryRefused(r) ==
  /\ pc[r] = "retrying"
  /\ Goto(r, "rejected")
  /\ UNCHANGED <<job, control, tok, retries, expired>>

(* _fail_rejected_retry: from pending, fenced when the run owned the job.  *)
FailRejectedRetry(r) ==
  /\ pc[r] = "rejected"
  /\ Goto(r, "over")
  /\ IF status = "pending" /\ tok[r] \in {0, token} THEN FailJob ELSE UNCHANGED job
  /\ UNCHANGED <<control, tok, retries, expired>>

(* The process dies where it stands (SIGKILL, or a shutdown outside the    *)
(* owned part, or a failure while recording a failure). With acks_late and *)
(* reject_on_worker_lost the same message may come back.                   *)
Kill(r) ==
  /\ Executing(r)
  /\ Post([pc EXCEPT ![r] = "over"], retries[r])
  /\ UNCHANGED <<job, control, tok, expired>>

(* The broker's visibility timeout passes: the message of a run that is    *)
(* still executing is delivered again.                                     *)
Redeliver(r) ==
  /\ Executing(r)
  /\ Post(pc, retries[r])
  /\ UNCHANGED <<job, control, tok, expired>>

-----------------------------------------------------------------------------
(* The reaper: reap_stuck_jobs.                                            *)

Resumable == resumes < MaxResumes[type]

(* A running job whose heartbeat is stale goes back to pending ...         *)
ReapResume ==
  /\ reaper = "idle" /\ status = "running" /\ stale /\ Resumable
  /\ status' = "pending" /\ resumes' = resumes + 1 /\ stale' = FALSE
  /\ reaper' = "resumed"
  /\ UNCHANGED <<type, token, owner, router, run>>

(* ... and, once that is durable, gets a fresh message.                    *)
ReapEnqueue ==
  /\ reaper = "resumed"
  /\ reaper' = "idle"
  /\ Post(pc, 0)
  /\ UNCHANGED <<job, router, tok, expired>>

(* Mutant: the pending sweep is missing.                                   *)
ReapFailRunningOnly ==
  /\ reaper = "idle" /\ stale /\ status = "running" /\ ~Resumable
  /\ FailJob
  /\ UNCHANGED <<control, run>>

(* A stale pending job, or a stale running one with no resume left, fails. *)
ReapFail ==
  /\ reaper = "idle" /\ stale
  /\ status = "pending" \/ (status = "running" /\ ~Resumable)
  /\ FailJob
  /\ UNCHANGED <<control, run>>

(* _done_orphan_candidates: an old done job whose owner's STATE is the one *)
(* its type drives ...                                                     *)
SeeDoneOrphan ==
  /\ reaper = "idle" /\ status = "done" /\ stale
  /\ owner \in {"inflight", "other"}
  /\ reaper' = "orphan"
  /\ UNCHANGED <<job, router, run>>

(* ... is failed, re-checking the job's own columns but not the owner.     *)
ReapDoneOrphan ==
  /\ reaper = "orphan"
  /\ reaper' = "idle"
  /\ IF status = "done" /\ stale THEN FailJob ELSE UNCHANGED job
  /\ UNCHANGED <<router, run>>

-----------------------------------------------------------------------------
(* The environment.                                                        *)

(* The row crosses the age the reaper looks for: 5 min without a heartbeat *)
(* when running, 4 h untouched when pending, 15 min untouched when done.   *)
TimePasses ==
  /\ status # "failed" /\ ~stale
  /\ CaptureStalls \/ \A r \in Runs : pc[r] # "claimed"
  /\ stale' = TRUE
  /\ UNCHANGED <<type, status, token, resumes, owner, control, run>>

(* The operator renders or publishes a cut again: another Job of the same  *)
(* type puts it in flight, and later resolves it. A cut in review or       *)
(* failed may be rendered, a failed one published; no route does so for a  *)
(* reel, nor for a published cut.                                          *)
OwnerReused ==
  /\ \/ type = "render"  /\ owner \in {"settled", "failed"}
     \/ type = "publish" /\ owner = "failed"
  /\ owner' = "other"
  /\ UNCHANGED <<type, status, token, resumes, stale, control, run>>

OwnerReleased ==
  /\ owner = "other"
  /\ owner' \in {"settled", "failed"}
  /\ UNCHANGED <<type, status, token, resumes, stale, control, run>>

-----------------------------------------------------------------------------
Router == Enqueue \/ EnqueueRaises \/ FailUnenqueued

Worker(r) ==
  \/ Receive(r) \/ Claim(r) \/ Capture(r) \/ StartBody(r)
  \/ Heartbeat(r) \/ ThreadBeat(r) \/ Expire(r)
  \/ DoneStamp(r) \/ AfterCommit(r) \/ CleanUpCommitted(r)
  \/ Raise(r) \/ Interrupt(r)
  \/ SettleUnclaimed(r) \/ ResetForRetry(r) \/ FailOwned(r)
  \/ SendRetry(r) \/ RetryRefused(r) \/ FailRejectedRetry(r)
  \/ Kill(r) \/ Redeliver(r)

Reaper == ReapResume \/ ReapEnqueue \/ ReapFail \/ SeeDoneOrphan \/ ReapDoneOrphan

Environment == TimePasses \/ OwnerReused \/ OwnerReleased

Next == Router \/ (\E r \in Runs : Worker(r)) \/ Reaper \/ Environment

Spec == Init /\ [][Next]_vars

(* Only time, the end of max_runtime_s and the reaper's periodic passes are *)
(* assumed to happen; nothing is assumed of the workers, the router or the  *)
(* broker. When processes do not stall between the claim and its refresh,   *)
(* the capture follows the claim.                                           *)
Fairness ==
  /\ WF_vars(TimePasses)
  /\ \A r \in Runs : WF_vars(Expire(r)) /\ WF_vars(Capture(r))
  /\ WF_vars(ReapResume) /\ WF_vars(ReapEnqueue)
  /\ WF_vars(ReapFail) /\ WF_vars(ReapDoneOrphan)

FairSpec == Spec /\ Fairness

-----------------------------------------------------------------------------
(* Safety.                                                                 *)

(* The job and its reel or cut never disagree: the owner is in flight for  *)
(* this job exactly while the job is pending or running, so an owner is    *)
(* never stuck behind a finished job and never freed under a live one.     *)
OwnerFollowsJob == owner = "inflight" <=> status \in {"pending", "running"}

(* Fencing: a run whose token has been superseded, however far it had got  *)
(* and whatever it does next (finish, fail, retry, be shut down), changes  *)
(* neither the job nor its owner.                                          *)
SupersededRunIsInert ==
  [][\A r \in Runs : tok[r] # 0 /\ tok[r] < token /\ pc'[r] # pc[r]
        => UNCHANGED <<status, token, resumes, owner>>]_vars

(* Two executing runs never hold the same claim token, so at most one of   *)
(* them passes the fence.                                                  *)
OneHolderPerToken ==
  \A r, s \in Runs :
    r # s /\ Executing(r) /\ Executing(s) /\ tok[r] # 0 => tok[r] # tok[s]

(* A task that never retries (publish, enrich) starts its body at most     *)
(* once more than the reaper resumed it, whatever is redelivered; for      *)
(* publish that is once: nothing posts twice behind the operator's back.   *)
StartsBounded ==
  /\ resumes <= MaxResumes[type]
  /\ MaxRetries[type] = 0 => token <= 1 + resumes

(* Inductive strengthenings: where a delivery can hold a token, what a     *)
(* claim not yet captured relies on, and what the start bound rests on.    *)
TokensInv ==
  /\ \A r \in Runs : tok[r] <= token
  /\ \A r \in Runs : pc[r] \in {"unused", "queued", "loaded", "claimed"} => tok[r] = 0
  /\ \A r \in Runs : pc[r] \in {"after", "hookfailed"} =>
       tok[r] = token /\ status \in {"done", "failed"}

CaptureInv ==
  /\ \A r, s \in Runs : r # s /\ tok[r] # 0 => tok[r] # tok[s]
  /\ \A r \in Runs : pc[r] = "claimed" =>
       /\ status = "running" /\ ~stale
       /\ \A s \in Runs : tok[s] < token /\ (pc[s] = "claimed" => s = r)

StartsInv ==
  /\ StartsBounded
  /\ MaxRetries[type] = 0 /\ status = "pending" => token <= resumes

Lifecycle == INSTANCE JobLifecycle WITH phase <- status, held <- (owner = "inflight")

(* The job implements the abstract lifecycle.                              *)
ImplementsLifecycle == Lifecycle!Spec

(* A job that is over never touches an owner that a later job has put in   *)
(* flight ("a stale job must never flip an owner that has moved on").      *)
StaleJobNeverFlipsOwner ==
  [][owner = "other" /\ status' # status => owner' = owner]_vars

-----------------------------------------------------------------------------
(* Liveness.                                                               *)

(* Whatever is lost, killed or wedged, the reel or cut comes out of the    *)
(* in-flight state in the end: the operator is never locked out.           *)
OwnerReleasedEventually == owner = "inflight" ~> owner # "inflight"
=============================================================================
