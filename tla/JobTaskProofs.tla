--------------------------- MODULE JobTaskProofs ---------------------------
(***************************************************************************)
(* Proofs about JobTask, for any set of deliveries, any budgets and any    *)
(* number of reaper passes.                                                *)
(***************************************************************************)
EXTENDS JobTask, TLAPS

-----------------------------------------------------------------------------
(* Lemmas about the shared pieces.                                         *)

(* Posting a message changes the control state of at most one delivery,    *)
(* one that was unused.                                                    *)
LEMMA PostEffect ==
  ASSUME TypeOK, NEW p \in [Runs -> PC], NEW n \in Nat, Post(p, n)
  PROVE  /\ pc' \in [Runs -> PC]
         /\ retries' \in [Runs -> Nat]
         /\ \A r \in Runs : pc'[r] = p[r] \/ (p[r] = "unused" /\ pc'[r] = "queued")
<1>1. CASE pc' = p /\ UNCHANGED retries
  BY <1>1 DEF TypeOK
<1>2. ASSUME NEW m \in Runs, p[m] = "unused",
             pc' = [p EXCEPT ![m] = "queued"], retries' = [retries EXCEPT ![m] = n]
      PROVE  /\ pc' \in [Runs -> PC]
             /\ retries' \in [Runs -> Nat]
             /\ \A r \in Runs : pc'[r] = p[r] \/ (p[r] = "unused" /\ pc'[r] = "queued")
  BY <1>2 DEF TypeOK, PC
<1>3. QED
  BY <1>1, <1>2 DEF Post

(* Failing the job keeps the types of the row and of its owner.            *)
LEMMA FailJobType ==
  ASSUME TypeOK, FailJob
  PROVE  /\ status' = "failed" /\ stale' = FALSE
         /\ owner' \in Owner /\ owner' # "inflight" /\ UNCHANGED <<type, token, resumes>>
BY DEF TypeOK, FailJob, RolledBack, Owner

(* What the job's row and owner may do in one step of the type invariant.  *)
JobTypeOK ==
  /\ type \in Types /\ status \in Status /\ token \in Nat /\ resumes \in Nat
  /\ stale \in BOOLEAN /\ owner \in Owner

LEMMA JobUnchangedType ==
  ASSUME TypeOK, UNCHANGED job \/ FailJob
  PROVE  JobTypeOK'
<1>1. CASE UNCHANGED job
  BY <1>1 DEF TypeOK, JobTypeOK, job
<1>2. CASE FailJob
  BY <1>2, FailJobType DEF TypeOK, JobTypeOK, Status
<1>3. QED
  BY <1>1, <1>2

LEMMA GotoType ==
  ASSUME TypeOK, NEW r \in Runs, NEW q \in PC, Goto(r, q)
  PROVE  pc' \in [Runs -> PC]
BY DEF TypeOK, Goto

-----------------------------------------------------------------------------
(* The router, the workers, the reaper and the environment keep every      *)
(* variable in its type.                                                   *)
LEMMA TypeStep == TypeOK /\ [Next]_vars => TypeOK'
<1> SUFFICES ASSUME TypeOK, [Next]_vars PROVE TypeOK'
  OBVIOUS
<1> USE DEF job, control, run
<1>1. CASE Enqueue
  BY <1>1, PostEffect, JobUnchangedType DEF Enqueue, TypeOK
<1>2. CASE EnqueueRaises
  BY <1>2, PostEffect DEF EnqueueRaises, TypeOK
<1>3. CASE FailUnenqueued
  BY <1>3, JobUnchangedType DEF FailUnenqueued, FailUnclaimed, TypeOK, JobTypeOK
<1>4. ASSUME NEW r \in Runs, Receive(r) PROVE TypeOK'
  BY <1>4 DEF Receive, Goto, TypeOK, PC
<1>5. ASSUME NEW r \in Runs, Claim(r) PROVE TypeOK'
  <2>1. CASE status = "pending"
    <3>1. token' \in Nat
      BY <1>5, <2>1 DEF Claim, TypeOK
    <3>2. pc' \in [Runs -> PC] /\ status' \in Status /\ stale' \in BOOLEAN
      BY <1>5, <2>1 DEF Claim, Goto, TypeOK, PC, Status
    <3>3. QED
      BY <1>5, <2>1, <3>1, <3>2 DEF Claim, TypeOK
  <2>2. CASE status # "pending"
    BY <1>5, <2>2 DEF Claim, Goto, TypeOK, PC
  <2>3. QED
    BY <2>1, <2>2
<1>6. ASSUME NEW r \in Runs, Capture(r) PROVE TypeOK'
  BY <1>6 DEF Capture, Goto, TypeOK, PC
<1>7. ASSUME NEW r \in Runs, StartBody(r) PROVE TypeOK'
  BY <1>7 DEF StartBody, Goto, TypeOK, PC
<1>8. ASSUME NEW r \in Runs, Heartbeat(r) PROVE TypeOK'
  BY <1>8 DEF Heartbeat, Goto, TypeOK, PC
<1>9. ASSUME NEW r \in Runs, ThreadBeat(r) PROVE TypeOK'
  BY <1>9 DEF ThreadBeat, TypeOK
<1>10. ASSUME NEW r \in Runs, Expire(r) PROVE TypeOK'
  BY <1>10 DEF Expire, TypeOK
<1>11. ASSUME NEW r \in Runs, DoneStamp(r) PROVE TypeOK'
  BY <1>11 DEF DoneStamp, Goto, TypeOK, PC, Status, Owner
<1>12. ASSUME NEW r \in Runs, AfterCommit(r) PROVE TypeOK'
  BY <1>12 DEF AfterCommit, Goto, TypeOK, PC
<1>13. ASSUME NEW r \in Runs, CleanUpCommitted(r) PROVE TypeOK'
  BY <1>13 DEF CleanUpCommitted, Goto, TypeOK, PC, Status, Owner
<1>14. ASSUME NEW r \in Runs, Raise(r) PROVE TypeOK'
  BY <1>14 DEF Raise, Goto, TypeOK, PC
<1>15. ASSUME NEW r \in Runs, Interrupt(r) PROVE TypeOK'
  BY <1>15 DEF Interrupt, Goto, TypeOK, PC
<1>16. ASSUME NEW r \in Runs, SettleUnclaimed(r) PROVE TypeOK'
  <2>1. pc' \in [Runs -> PC]
    BY <1>16 DEF SettleUnclaimed, Goto, TypeOK, PC
  <2>2. JobTypeOK'
    BY <1>16, JobUnchangedType DEF SettleUnclaimed, FailUnclaimed
  <2>3. QED
    BY <1>16, <2>1, <2>2 DEF SettleUnclaimed, TypeOK, JobTypeOK
<1>17. ASSUME NEW r \in Runs, ResetForRetry(r) PROVE TypeOK'
  <2>1. CASE Holds(r)
    BY <1>17, <2>1 DEF ResetForRetry, Goto, TypeOK, PC, Status
  <2>2. CASE ~Holds(r)
    BY <1>17, <2>2 DEF ResetForRetry, Goto, TypeOK, PC
  <2>3. QED
    BY <2>1, <2>2
<1>18. ASSUME NEW r \in Runs, FailOwned(r) PROVE TypeOK'
  <2>1. pc' \in [Runs -> PC]
    BY <1>18 DEF FailOwned, Goto, TypeOK, PC
  <2>2. JobTypeOK'
    BY <1>18, JobUnchangedType DEF FailOwned
  <2>3. QED
    BY <1>18, <2>1, <2>2 DEF FailOwned, TypeOK, JobTypeOK
<1>19. ASSUME NEW r \in Runs, SendRetry(r) PROVE TypeOK'
  <2>1. [pc EXCEPT ![r] = "over"] \in [Runs -> PC] /\ retries[r] + 1 \in Nat
    BY DEF TypeOK, PC
  <2>2. QED
    BY <1>19, <2>1, PostEffect DEF SendRetry, TypeOK
<1>20. ASSUME NEW r \in Runs, RetryRefused(r) PROVE TypeOK'
  BY <1>20 DEF RetryRefused, Goto, TypeOK, PC
<1>21. ASSUME NEW r \in Runs, FailRejectedRetry(r) PROVE TypeOK'
  <2>1. pc' \in [Runs -> PC]
    BY <1>21 DEF FailRejectedRetry, Goto, TypeOK, PC
  <2>2. JobTypeOK'
    BY <1>21, JobUnchangedType DEF FailRejectedRetry
  <2>3. QED
    BY <1>21, <2>1, <2>2 DEF FailRejectedRetry, TypeOK, JobTypeOK
<1>22. ASSUME NEW r \in Runs, Kill(r) PROVE TypeOK'
  <2>1. [pc EXCEPT ![r] = "over"] \in [Runs -> PC] /\ retries[r] \in Nat
    BY DEF TypeOK, PC
  <2>2. QED
    BY <1>22, <2>1, PostEffect DEF Kill, TypeOK
<1>23. ASSUME NEW r \in Runs, Redeliver(r) PROVE TypeOK'
  <2>1. pc \in [Runs -> PC] /\ retries[r] \in Nat
    BY DEF TypeOK
  <2>2. QED
    BY <1>23, <2>1, PostEffect DEF Redeliver, TypeOK
<1>24. CASE ReapResume
  <2>1. resumes' \in Nat
    BY <1>24 DEF ReapResume, TypeOK
  <2>2. status' \in Status /\ stale' \in BOOLEAN /\ reaper' \in {"idle", "resumed", "orphan"}
    BY <1>24 DEF ReapResume, Status
  <2>3. QED
    BY <1>24, <2>1, <2>2 DEF ReapResume, TypeOK
<1>25. CASE ReapEnqueue
  BY <1>25, PostEffect DEF ReapEnqueue, TypeOK
<1>26. CASE ReapFail
  BY <1>26, JobUnchangedType DEF ReapFail, TypeOK, JobTypeOK
<1>27. CASE SeeDoneOrphan
  BY <1>27 DEF SeeDoneOrphan, TypeOK
<1>28. CASE ReapDoneOrphan
  BY <1>28, JobUnchangedType DEF ReapDoneOrphan, TypeOK, JobTypeOK
<1>29. CASE Environment
  <2>1. CASE TimePasses
    BY <2>1, Zenon DEF TimePasses, TypeOK
  <2>2. CASE OwnerReused \/ OwnerReleased
    BY <2>2 DEF OwnerReused, OwnerReleased, TypeOK, Owner
  <2>3. QED
    BY <1>29, <2>1, <2>2 DEF Environment
<1>30. CASE UNCHANGED vars
  BY <1>30 DEF vars, TypeOK
<1>31. QED
  BY <1>1, <1>2, <1>3, <1>4, <1>5, <1>6, <1>7, <1>8, <1>9, <1>10, <1>11, <1>12, <1>13,
     <1>14, <1>15, <1>16, <1>17, <1>18, <1>19, <1>20, <1>21, <1>22, <1>23, <1>24, <1>25,
     <1>26, <1>27, <1>28, <1>29, <1>30
  DEF Next, Router, Worker, Reaper

(* Type correctness of the job lifecycle, whatever its constants.          *)
THEOREM JobTypeCorrect == Spec => []TypeOK
<1>1. Init => TypeOK
  <2> SUFFICES ASSUME Init PROVE TypeOK
    OBVIOUS
  <2>1. expired \in [Runs -> BOOLEAN]
    BY Zenon DEF Init
  <2>2. QED
    BY <2>1 DEF Init, TypeOK, Status, Owner, PC
<1>2. QED
  BY <1>1, TypeStep, PTL DEF Spec

-----------------------------------------------------------------------------
(* What any step may do to the Job row and to its owner, whoever takes it. *)
JobStep ==
  /\ type' = type
  /\ \/ /\ UNCHANGED <<status, token, resumes>>
        /\ owner' = owner \/ (owner # "inflight" /\ owner' # "inflight")
     \/ /\ status = "pending" /\ status' = "running"
        /\ token' = token + 1 /\ UNCHANGED <<resumes, owner>>
     \/ /\ status = "running" /\ status' = "pending" /\ UNCHANGED <<token, owner>>
        /\ \/ resumes' = resumes /\ MaxRetries[type] # 0
           \/ resumes' = resumes + 1 /\ resumes < MaxResumes[type]
     \/ /\ status = "running" /\ status' = "done"
        /\ owner' = "settled" /\ UNCHANGED <<token, resumes>>
     \/ /\ status \in {"pending", "running"} /\ status' = "failed"
        /\ owner' # "inflight" /\ UNCHANGED <<token, resumes>>
     \/ /\ status = "done" /\ status' = "failed"
        /\ owner' \in {owner, "failed"} /\ UNCHANGED <<token, resumes>>

LEMMA IdleIsJobStep ==
  ASSUME UNCHANGED <<type, status, token, resumes, owner>> PROVE JobStep
BY DEF JobStep

LEMMA FailIsJobStep ==
  ASSUME FailJob, status \in {"pending", "running", "done"} PROVE JobStep
BY DEF JobStep, FailJob, RolledBack

(* Every step of the specification is such a step.                         *)
LEMMA EveryStepIsJobStep == TypeOK /\ [Next]_vars => JobStep
<1> SUFFICES ASSUME TypeOK, [Next]_vars PROVE JobStep
  OBVIOUS
<1> USE DEF job
<1>1. CASE Router
  BY <1>1, IdleIsJobStep, FailIsJobStep
  DEF Router, Enqueue, EnqueueRaises, FailUnenqueued, FailUnclaimed
<1>2. ASSUME NEW r \in Runs, Worker(r) PROVE JobStep
  <2>1. CASE Receive(r) \/ Capture(r) \/ StartBody(r) \/ Heartbeat(r) \/ ThreadBeat(r)
             \/ Expire(r) \/ AfterCommit(r) \/ Raise(r) \/ Interrupt(r) \/ SendRetry(r)
             \/ RetryRefused(r) \/ Kill(r) \/ Redeliver(r)
    BY <2>1, IdleIsJobStep
    DEF Receive, Capture, StartBody, Heartbeat, ThreadBeat, Expire, AfterCommit, Raise,
        Interrupt, SendRetry, RetryRefused, Kill, Redeliver
  <2>2. CASE Claim(r)
    BY <2>2 DEF Claim, JobStep
  <2>3. CASE DoneStamp(r)
    BY <2>3 DEF DoneStamp, Holds, JobStep
  <2>4. CASE CleanUpCommitted(r)
    BY <2>4 DEF CleanUpCommitted, JobStep
  <2>5. CASE SettleUnclaimed(r)
    BY <2>5, IdleIsJobStep, FailIsJobStep DEF SettleUnclaimed, FailUnclaimed
  <2>6. CASE ResetForRetry(r)
    <3>1. retries[r] \in Nat /\ (tok[r] # 0 => retries[r] < MaxRetries[type])
      BY <2>6 DEF ResetForRetry, Retriable, RetryBudget, TypeOK
    <3>2. MaxRetries[type] # 0
      BY <2>6, <3>1, JobTaskAssumption DEF ResetForRetry, TypeOK
    <3>3. QED
      BY <2>6, <3>2 DEF ResetForRetry, Holds, JobStep
  <2>7. CASE FailOwned(r)
    BY <2>7, IdleIsJobStep, FailIsJobStep DEF FailOwned, Holds
  <2>8. CASE FailRejectedRetry(r)
    BY <2>8, IdleIsJobStep, FailIsJobStep DEF FailRejectedRetry
  <2>9. QED
    BY <1>2, <2>1, <2>2, <2>3, <2>4, <2>5, <2>6, <2>7, <2>8 DEF Worker
<1>3. CASE Reaper
  <2>1. CASE ReapResume
    BY <2>1 DEF ReapResume, Resumable, JobStep
  <2>2. CASE ReapEnqueue \/ ReapFail \/ SeeDoneOrphan \/ ReapDoneOrphan
    BY <2>2, IdleIsJobStep, FailIsJobStep
    DEF ReapEnqueue, ReapFail, SeeDoneOrphan, ReapDoneOrphan
  <2>3. QED
    BY <1>3, <2>1, <2>2 DEF Reaper
<1>4. CASE Environment
  BY <1>4 DEF Environment, TimePasses, OwnerReused, OwnerReleased, JobStep
<1>5. CASE UNCHANGED vars
  BY <1>5, IdleIsJobStep DEF vars
<1>6. QED
  BY <1>1, <1>2, <1>3, <1>4, <1>5 DEF Next

-----------------------------------------------------------------------------
(* The owner is in flight for the job exactly while the job is pending or  *)
(* running: no reel or cut is stuck behind a finished job, or freed under  *)
(* a live one.                                                             *)
THEOREM OwnerAndJobAgree == Spec => []OwnerFollowsJob
<1>1. Init => OwnerFollowsJob
  BY DEF Init, OwnerFollowsJob
<1>2. TypeOK /\ OwnerFollowsJob /\ [Next]_vars => OwnerFollowsJob'
  BY EveryStepIsJobStep DEF JobStep, OwnerFollowsJob
<1>3. QED
  BY <1>1, <1>2, JobTypeCorrect, PTL DEF Spec

(* A task without retries starts its body at most once more than it was    *)
(* resumed; publish, which is never resumed, starts at most once.          *)
THEOREM StartsAreBounded == Spec => []StartsBounded
<1>1. Init => StartsInv
  BY JobTaskAssumption DEF Init, StartsInv, StartsBounded
<1>2. TypeOK /\ StartsInv /\ [Next]_vars => StartsInv'
  <2> SUFFICES ASSUME TypeOK, StartsInv, JobStep PROVE StartsInv'
    BY EveryStepIsJobStep
  <2>1. /\ token \in Nat /\ resumes \in Nat /\ type' = type
        /\ MaxRetries[type] \in Nat /\ MaxResumes[type] \in Nat
    BY JobTaskAssumption DEF TypeOK, JobStep
  <2>2. QED
    BY <2>1 DEF JobStep, StartsInv, StartsBounded
<1>3. StartsInv => StartsBounded
  BY DEF StartsInv
<1>4. QED
  BY <1>1, <1>2, <1>3, JobTypeCorrect, PTL DEF Spec

(* The whole machinery implements the abstract job lifecycle.              *)
THEOREM JobImplementsLifecycle == Spec => ImplementsLifecycle
<1>1. Init => Lifecycle!Init
  BY DEF Init, Lifecycle!Init
<1>2. TypeOK /\ OwnerFollowsJob /\ [Next]_vars
        => [Lifecycle!Next]_<<status, (owner = "inflight")>>
  <2> SUFFICES ASSUME TypeOK, OwnerFollowsJob, JobStep
               PROVE  [Lifecycle!Next]_<<status, (owner = "inflight")>>
    BY EveryStepIsJobStep
  <2>1. QED
    BY DEF JobStep, OwnerFollowsJob, Lifecycle!Next, Lifecycle!Start, Lifecycle!HandBack,
           Lifecycle!Succeed, Lifecycle!Fail, Lifecycle!Withdraw
<1>3. QED
  BY <1>1, <1>2, JobTypeCorrect, OwnerAndJobAgree, PTL
  DEF Spec, ImplementsLifecycle, Lifecycle!Spec

-----------------------------------------------------------------------------
(* How one step moves the control states and tokens of the deliveries.     *)

(* Steps that keep the tokens and the job's token, and move the deliveries *)
(* only towards control states where nothing is required of them.          *)
Quiet(r) ==
  \/ pc'[r] = pc[r]
  \/ pc[r] = "unused" /\ pc'[r] = "queued"
  \/ pc'[r] \notin {"unused", "queued", "loaded", "claimed", "after", "hookfailed"}
  \/ pc[r] = "queued" /\ pc'[r] = "loaded"

(* A step that leaves the tokens alone and starts no holder keeps          *)
(* TokensInv.                                                              *)
LEMMA QuietStep ==
  ASSUME TypeOK, TokensInv, JobStep, UNCHANGED <<token, tok>>,
         \A r \in Runs : Quiet(r)
  PROVE  TokensInv'
BY DEF TokensInv, JobStep, Quiet

LEMMA PostIsQuiet ==
  ASSUME TypeOK, NEW p \in [Runs -> PC], NEW n \in Nat, Post(p, n),
         \A r \in Runs : p[r] = pc[r] \/ p[r] = "over"
  PROVE  \A r \in Runs : Quiet(r)
BY PostEffect DEF Quiet

LEMMA GotoIsQuiet ==
  ASSUME TypeOK, NEW r \in Runs, NEW q \in PC, Goto(r, q),
         q \notin {"unused", "queued", "loaded", "claimed", "after", "hookfailed"}
  PROVE  \A s \in Runs : Quiet(s)
BY DEF TypeOK, Goto, Quiet

LEMMA SamePcIsQuiet ==
  ASSUME UNCHANGED pc PROVE \A r \in Runs : Quiet(r)
BY DEF Quiet

(* TokensInv is inductive.                                                 *)
LEMMA TokensStep == TypeOK /\ TokensInv /\ [Next]_vars => TokensInv'
<1> SUFFICES ASSUME TypeOK, TokensInv, [Next]_vars PROVE TokensInv'
  OBVIOUS
<1>0. JobStep
  BY EveryStepIsJobStep
<1> USE DEF job, control, run
<1>1. CASE Router
  <2>1. CASE Enqueue \/ EnqueueRaises
    <3>1. Post(pc, 0) /\ pc \in [Runs -> PC] /\ UNCHANGED <<token, tok>>
      BY <2>1 DEF Enqueue, EnqueueRaises, TypeOK
    <3>2. QED
      BY <3>1, <1>0, PostIsQuiet, QuietStep
  <2>2. CASE FailUnenqueued
    <3>1. UNCHANGED <<token, tok, pc>>
      BY <2>2 DEF FailUnenqueued, FailUnclaimed, FailJob
    <3>2. QED
      BY <3>1, <1>0, SamePcIsQuiet, QuietStep
  <2>3. QED
    BY <1>1, <2>1, <2>2 DEF Router
<1>2. ASSUME NEW r \in Runs, Worker(r) PROVE TokensInv'
  <2>1. CASE Receive(r)
    <3>1. \A s \in Runs : Quiet(s)
      BY <2>1 DEF Receive, Goto, TypeOK, Quiet
    <3>2. QED
      BY <2>1, <3>1, <1>0, QuietStep DEF Receive
  <2>2. CASE Claim(r)
    <3>1. CASE status = "pending"
      <4>1. token' = token + 1 /\ tok' = tok /\ pc' = [pc EXCEPT ![r] = "claimed"]
        BY <2>2, <3>1 DEF Claim, Goto
      <4>2. tok[r] = 0 /\ \A s \in Runs : pc[s] \notin {"after", "hookfailed"}
        BY <2>2, <3>1 DEF Claim, TokensInv
      <4>3. token \in Nat /\ \A s \in Runs : tok[s] \in Nat
        BY DEF TypeOK
      <4>4. QED
        BY <4>1, <4>2, <4>3 DEF TokensInv, TypeOK
    <3>2. CASE status # "pending"
      <4>1. Goto(r, "over") /\ UNCHANGED <<token, tok>>
        BY <2>2, <3>2 DEF Claim
      <4>2. QED
        BY <4>1, <1>0, GotoIsQuiet, QuietStep DEF PC
    <3>3. QED
      BY <3>1, <3>2
  <2>3. CASE Capture(r)
    <3>1. /\ pc' = [pc EXCEPT ![r] = "prepare"] /\ tok' = [tok EXCEPT ![r] = token]
          /\ UNCHANGED <<token, status>> /\ token \in Nat
      BY <2>3 DEF Capture, Goto, TypeOK
    <3>2. QED
      BY <3>1 DEF TokensInv, TypeOK
  <2>4. CASE DoneStamp(r)
    <3>1. CASE ~Holds(r) \/ pc'[r] \notin {"after", "over"}
      <4>1. UNCHANGED <<token, tok>> /\ \A s \in Runs : Quiet(s)
        BY <2>4, <3>1 DEF DoneStamp, Goto, TypeOK, Quiet, PC
      <4>2. QED
        BY <4>1, <1>0, QuietStep
    <3>2. CASE Holds(r) /\ pc'[r] \in {"after", "over"}
      <4>1. /\ status' \in {"done", "failed"} /\ UNCHANGED <<token, tok>>
            /\ tok[r] = token /\ \A s \in Runs \ {r} : pc'[s] = pc[s]
        BY <2>4, <3>2 DEF DoneStamp, Goto, TypeOK, Holds
      <4>2. QED
        BY <4>1, <3>2 DEF TokensInv
    <3>3. QED
      BY <3>1, <3>2 DEF Holds
  <2>5. CASE AfterCommit(r)
    <3>1. /\ pc[r] = "after" /\ UNCHANGED <<token, status, tok>>
          /\ pc'[r] \in {"over", "hookfailed"} /\ \A s \in Runs \ {r} : pc'[s] = pc[s]
      BY <2>5 DEF AfterCommit, Goto, TypeOK
    <3>2. QED
      BY <3>1 DEF TokensInv
  <2>6. CASE StartBody(r) \/ Raise(r) \/ Interrupt(r) \/ RetryRefused(r) \/ CleanUpCommitted(r)
    <3>1. UNCHANGED <<token, tok>> /\ \A s \in Runs : Quiet(s)
      BY <2>6 DEF StartBody, Raise, Interrupt, RetryRefused, CleanUpCommitted, Goto, TypeOK,
                  Quiet
    <3>2. QED
      BY <3>1, <1>0, QuietStep
  <2>7. CASE SettleUnclaimed(r) \/ ResetForRetry(r) \/ FailOwned(r) \/ FailRejectedRetry(r)
    <3>1. UNCHANGED <<token, tok>> /\ \A s \in Runs : Quiet(s)
      BY <2>7 DEF SettleUnclaimed, ResetForRetry, FailOwned, FailRejectedRetry, FailUnclaimed,
                  FailJob, Goto, TypeOK, Quiet
    <3>2. QED
      BY <3>1, <1>0, QuietStep
  <2>8. CASE Heartbeat(r)
    <3>1. UNCHANGED <<token, tok>> /\ \A s \in Runs : Quiet(s)
      BY <2>8 DEF Heartbeat, Goto, TypeOK, Quiet
    <3>2. QED
      BY <3>1, <1>0, QuietStep
  <2>9. CASE ThreadBeat(r) \/ Expire(r)
    <3>1. UNCHANGED <<token, tok, pc>>
      BY <2>9 DEF ThreadBeat, Expire
    <3>2. QED
      BY <3>1, <1>0, SamePcIsQuiet, QuietStep
  <2>10. CASE SendRetry(r) \/ Kill(r)
    <3>1. /\ [pc EXCEPT ![r] = "over"] \in [Runs -> PC] /\ retries[r] \in Nat
          /\ retries[r] + 1 \in Nat
          /\ \A s \in Runs : [pc EXCEPT ![r] = "over"][s] \in {pc[s], "over"}
      BY DEF TypeOK, PC
    <3>2. UNCHANGED <<token, tok>> /\ \A s \in Runs : Quiet(s)
      BY <2>10, <3>1, PostIsQuiet DEF SendRetry, Kill
    <3>3. QED
      BY <3>2, <1>0, QuietStep
  <2>11. CASE Redeliver(r)
    <3>1. pc \in [Runs -> PC] /\ retries[r] \in Nat
      BY DEF TypeOK
    <3>2. UNCHANGED <<token, tok>> /\ \A s \in Runs : Quiet(s)
      BY <2>11, <3>1, PostIsQuiet DEF Redeliver
    <3>3. QED
      BY <3>2, <1>0, QuietStep
  <2>12. QED
    BY <1>2, <2>1, <2>2, <2>3, <2>4, <2>5, <2>6, <2>7, <2>8, <2>9, <2>10, <2>11 DEF Worker
<1>3. CASE Reaper
  <2>1. CASE ReapEnqueue
    <3>1. Post(pc, 0) /\ pc \in [Runs -> PC] /\ UNCHANGED <<token, tok>>
      BY <2>1 DEF ReapEnqueue, TypeOK
    <3>2. QED
      BY <3>1, <1>0, PostIsQuiet, QuietStep
  <2>2. CASE ReapResume \/ ReapFail \/ SeeDoneOrphan \/ ReapDoneOrphan
    <3>1. UNCHANGED <<token, tok, pc>>
      BY <2>2 DEF ReapResume, ReapFail, SeeDoneOrphan, ReapDoneOrphan, FailJob
    <3>2. QED
      BY <3>1, <1>0, SamePcIsQuiet, QuietStep
  <2>3. QED
    BY <1>3, <2>1, <2>2 DEF Reaper
<1>4. CASE Environment \/ UNCHANGED vars
  <2>1. UNCHANGED <<token, tok, pc>>
    BY <1>4 DEF Environment, TimePasses, OwnerReused, OwnerReleased, vars
  <2>2. QED
    BY <2>1, <1>0, SamePcIsQuiet, QuietStep
<1>5. QED
  BY <1>1, <1>2, <1>3, <1>4 DEF Next

(* Tokens are handed out in order, and only to runs past their claim.      *)
THEOREM TokensCorrect == Spec => []TokensInv
<1>1. Init => TokensInv
  BY DEF Init, TokensInv
<1>2. QED
  BY <1>1, TokensStep, JobTypeCorrect, PTL DEF Spec

-----------------------------------------------------------------------------
(* Fencing: no step of a superseded run touches the job or its owner.      *)
LEMMA SupersededStep ==
  ASSUME TypeOK, TokensInv, Next, NEW r \in Runs,
         tok[r] # 0, tok[r] < token, pc'[r] # pc[r]
  PROVE  UNCHANGED <<status, token, resumes, owner>>
<1> USE DEF job, control, run
<1>0. /\ tok[r] # token
      /\ pc[r] \notin {"unused", "queued", "loaded", "claimed", "after", "hookfailed"}
  BY DEF TokensInv, TypeOK
<1>1. CASE Router
  <2>1. CASE Enqueue \/ EnqueueRaises
    BY <2>1 DEF Enqueue, EnqueueRaises
  <2>2. CASE FailUnenqueued
    BY <2>2 DEF FailUnenqueued
  <2>3. QED
    BY <1>1, <2>1, <2>2 DEF Router
<1>2. ASSUME NEW s \in Runs, Worker(s) PROVE UNCHANGED <<status, token, resumes, owner>>
  <2>1. CASE Receive(s) \/ Capture(s) \/ StartBody(s) \/ Heartbeat(s) \/ ThreadBeat(s)
             \/ Expire(s) \/ AfterCommit(s) \/ Raise(s) \/ Interrupt(s) \/ SendRetry(s)
             \/ RetryRefused(s) \/ Kill(s) \/ Redeliver(s)
    BY <2>1
    DEF Receive, Capture, StartBody, Heartbeat, ThreadBeat, Expire, AfterCommit, Raise,
        Interrupt, SendRetry, RetryRefused, Kill, Redeliver
  <2>2. CASE Claim(s) \/ DoneStamp(s) \/ CleanUpCommitted(s) \/ SettleUnclaimed(s)
             \/ ResetForRetry(s) \/ FailOwned(s) \/ FailRejectedRetry(s)
    <3>1. s = r
      BY <2>2 DEF Claim, DoneStamp, CleanUpCommitted, SettleUnclaimed, ResetForRetry,
                  FailOwned, FailRejectedRetry, Goto, TypeOK
    <3>2. QED
      BY <2>2, <3>1, <1>0 DEF Claim, DoneStamp, CleanUpCommitted, SettleUnclaimed,
         ResetForRetry, FailOwned, FailRejectedRetry, Holds
  <2>3. QED
    BY <1>2, <2>1, <2>2 DEF Worker
<1>3. CASE Reaper
  <2>1. CASE ReapEnqueue
    BY <2>1 DEF ReapEnqueue
  <2>2. CASE ReapResume \/ ReapFail \/ SeeDoneOrphan \/ ReapDoneOrphan
    BY <2>2 DEF ReapResume, ReapFail, SeeDoneOrphan, ReapDoneOrphan
  <2>3. QED
    BY <1>3, <2>1, <2>2 DEF Reaper
<1>4. CASE Environment
  BY <1>4 DEF Environment, TimePasses, OwnerReused, OwnerReleased
<1>5. QED
  BY <1>1, <1>2, <1>3, <1>4 DEF Next

(* A superseded run changes neither the job nor its owner, ever.           *)
THEOREM Fencing == Spec => SupersededRunIsInert
<1>1. TypeOK /\ TokensInv /\ [Next]_vars =>
        [\A r \in Runs : tok[r] # 0 /\ tok[r] < token /\ pc'[r] # pc[r]
           => UNCHANGED <<status, token, resumes, owner>>]_vars
  BY SupersededStep
<1>2. QED
  BY <1>1, JobTypeCorrect, TokensCorrect, PTL DEF Spec, SupersededRunIsInert

-----------------------------------------------------------------------------
(* Exclusion, when no process stalls for minutes between its claim and the *)
(* refresh that captures its token.                                        *)
LEMMA CaptureQuiet ==
  ASSUME TypeOK, TokensInv, CaptureInv, UNCHANGED tok,
         \A r \in Runs : pc'[r] = "claimed" => pc[r] = "claimed",
         \/ UNCHANGED <<status, token>> /\ (stale' => stale)
         \/ token' = token /\ \A r \in Runs : pc'[r] # "claimed"
  PROVE  CaptureInv'
BY DEF CaptureInv

(* Between a claim and its capture nobody holds the job.                   *)
LEMMA NothingElseWhileClaimed ==
  ASSUME TypeOK, TokensInv, CaptureInv, NEW r \in Runs, pc[r] = "claimed"
  PROVE  status = "running" /\ stale = FALSE /\ \A s \in Runs : ~Holds(s)
BY DEF CaptureInv, TypeOK, Holds

(* If that interval cannot be reaped, every step keeps CaptureInv.         *)
LEMMA CaptureStep ==
  ASSUME CaptureStalls = FALSE, TypeOK, TokensInv, CaptureInv, [Next]_vars
  PROVE  CaptureInv'
<1> USE DEF job, control, run
<1>1. CASE Router
  <2>1. CASE Enqueue \/ EnqueueRaises
    <3>1. Post(pc, 0) /\ pc \in [Runs -> PC] /\ UNCHANGED <<token, tok, status, stale>>
      BY <2>1 DEF Enqueue, EnqueueRaises, TypeOK
    <3>2. \A r \in Runs : pc'[r] = "claimed" => pc[r] = "claimed"
      BY <3>1, PostEffect
    <3>3. QED
      BY <3>1, <3>2, CaptureQuiet
  <2>2. CASE FailUnenqueued
    <3>1. UNCHANGED <<token, tok, pc>>
      BY <2>2 DEF FailUnenqueued, FailUnclaimed, FailJob
    <3>2. (\E r \in Runs : pc[r] = "claimed") => UNCHANGED <<status, stale>>
      BY <2>2, NothingElseWhileClaimed DEF FailUnenqueued, FailUnclaimed
    <3>3. QED
      BY <3>1, <3>2, CaptureQuiet
  <2>3. QED
    BY <1>1, <2>1, <2>2 DEF Router
<1>2. ASSUME NEW r \in Runs, Worker(r) PROVE CaptureInv'
  <2>1. CASE Claim(r)
    <3>1. CASE status = "pending"
      <4>1. /\ token' = token + 1 /\ tok' = tok /\ pc' = [pc EXCEPT ![r] = "claimed"]
            /\ status' = "running" /\ stale' = FALSE
        BY <2>1, <3>1 DEF Claim, Goto
      <4>2. \A s \in Runs : pc[s] # "claimed"
        BY <3>1 DEF CaptureInv
      <4>3. token \in Nat /\ \A s \in Runs : tok[s] \in Nat /\ tok[s] <= token
        BY DEF TypeOK, TokensInv
      <4>4. QED
        BY <4>1, <4>2, <4>3 DEF CaptureInv, TypeOK
    <3>2. CASE status # "pending"
      BY <2>1, <3>2, CaptureQuiet DEF Claim, Goto, TypeOK
    <3>3. QED
      BY <3>1, <3>2
  <2>2. CASE Capture(r)
    <3>1. /\ pc[r] = "claimed" /\ pc' = [pc EXCEPT ![r] = "prepare"]
          /\ tok' = [tok EXCEPT ![r] = token] /\ UNCHANGED <<token, status, stale>>
      BY <2>2 DEF Capture, Goto
    <3>2. /\ \A s \in Runs : tok[s] < token /\ (pc[s] = "claimed" => s = r)
          /\ token \in Nat /\ \A s \in Runs : tok[s] \in Nat
      BY <3>1 DEF CaptureInv, TypeOK
    <3>3. \A s \in Runs : pc'[s] # "claimed"
      BY <3>1, <3>2 DEF TypeOK
    <3>4. \A s, t \in Runs : s # t /\ tok'[s] # 0 => tok'[s] # tok'[t]
      BY <3>1, <3>2 DEF CaptureInv, TypeOK
    <3>5. QED
      BY <3>3, <3>4 DEF CaptureInv
  <2>3. CASE Receive(r) \/ AfterCommit(r) \/ Raise(r) \/ Interrupt(r) \/ RetryRefused(r)
    <3>1. /\ UNCHANGED <<status, token, stale, tok>>
          /\ \A s \in Runs : pc'[s] = "claimed" => pc[s] = "claimed"
      BY <2>3 DEF Receive, AfterCommit, Raise, Interrupt, RetryRefused, Goto, TypeOK
    <3>2. QED
      BY <3>1, CaptureQuiet
  <2>4. CASE StartBody(r) \/ Heartbeat(r) \/ ThreadBeat(r) \/ Expire(r)
    <3>1. /\ UNCHANGED <<status, token, tok>> /\ (stale' => stale)
          /\ \A s \in Runs : pc'[s] = "claimed" => pc[s] = "claimed"
      BY <2>4 DEF StartBody, Heartbeat, ThreadBeat, Expire, Goto, TypeOK
    <3>2. QED
      BY <3>1, CaptureQuiet
  <2>5. CASE DoneStamp(r) \/ CleanUpCommitted(r) \/ SettleUnclaimed(r) \/ ResetForRetry(r)
             \/ FailOwned(r) \/ FailRejectedRetry(r)
    <3>1. /\ UNCHANGED <<token, tok>>
          /\ \A s \in Runs : pc'[s] = "claimed" => pc[s] = "claimed"
      BY <2>5 DEF DoneStamp, CleanUpCommitted, SettleUnclaimed, ResetForRetry, FailOwned,
                  FailRejectedRetry, FailUnclaimed, FailJob, Goto, TypeOK
    <3>2. ASSUME NEW s \in Runs, pc[s] = "claimed" PROVE UNCHANGED <<status, stale>>
      BY <2>5, <3>2, NothingElseWhileClaimed
      DEF DoneStamp, CleanUpCommitted, SettleUnclaimed, ResetForRetry, FailOwned,
          FailRejectedRetry, FailUnclaimed
    <3>3. QED
      BY <3>1, <3>2, CaptureQuiet
  <2>6. CASE SendRetry(r) \/ Kill(r)
    <3>1. /\ [pc EXCEPT ![r] = "over"] \in [Runs -> PC] /\ retries[r] \in Nat
          /\ retries[r] + 1 \in Nat
          /\ \A s \in Runs : [pc EXCEPT ![r] = "over"][s] \in {pc[s], "over"}
      BY DEF TypeOK, PC
    <3>2. /\ UNCHANGED <<token, tok, status, stale>>
          /\ \A s \in Runs : pc'[s] = "claimed" => pc[s] = "claimed"
      BY <2>6, <3>1, PostEffect DEF SendRetry, Kill
    <3>3. QED
      BY <3>2, CaptureQuiet
  <2>7. CASE Redeliver(r)
    <3>1. pc \in [Runs -> PC] /\ retries[r] \in Nat
      BY DEF TypeOK
    <3>2. /\ UNCHANGED <<token, tok, status, stale>>
          /\ \A s \in Runs : pc'[s] = "claimed" => pc[s] = "claimed"
      BY <2>7, <3>1, PostEffect DEF Redeliver
    <3>3. QED
      BY <3>2, CaptureQuiet
  <2>8. QED
    BY <1>2, <2>1, <2>2, <2>3, <2>4, <2>5, <2>6, <2>7 DEF Worker
<1>3. CASE Reaper
  <2>1. CASE ReapEnqueue
    <3>1. Post(pc, 0) /\ pc \in [Runs -> PC] /\ UNCHANGED <<token, tok, status, stale>>
      BY <2>1 DEF ReapEnqueue, TypeOK
    <3>2. \A r \in Runs : pc'[r] = "claimed" => pc[r] = "claimed"
      BY <3>1, PostEffect
    <3>3. QED
      BY <3>1, <3>2, CaptureQuiet
  <2>2. CASE ReapResume \/ ReapFail \/ SeeDoneOrphan \/ ReapDoneOrphan
    <3>1. UNCHANGED <<token, tok, pc>>
      BY <2>2 DEF ReapResume, ReapFail, SeeDoneOrphan, ReapDoneOrphan, FailJob
    <3>2. ASSUME NEW s \in Runs, pc[s] = "claimed" PROVE UNCHANGED <<status, stale>>
      BY <2>2, <3>2, NothingElseWhileClaimed
      DEF ReapResume, ReapFail, SeeDoneOrphan, ReapDoneOrphan
    <3>3. QED
      BY <3>1, <3>2, CaptureQuiet
  <2>3. QED
    BY <1>3, <2>1, <2>2 DEF Reaper
<1>4. CASE Environment
  <2>1. CASE TimePasses
    <3>1. \A r \in Runs : pc[r] # "claimed"
      BY <2>1 DEF TimePasses
    <3>2. QED
      BY <2>1, <3>1, CaptureQuiet DEF TimePasses
  <2>2. CASE OwnerReused \/ OwnerReleased
    BY <2>2, CaptureQuiet DEF OwnerReused, OwnerReleased
  <2>3. QED
    BY <1>4, <2>1, <2>2 DEF Environment
<1>5. CASE UNCHANGED vars
  BY <1>5, CaptureQuiet DEF vars
<1>6. QED
  BY <1>1, <1>2, <1>3, <1>4, <1>5 DEF Next

(* At most one executing run holds each claim token.                       *)
THEOREM Exclusion ==
  ASSUME CaptureStalls = FALSE
  PROVE  Spec => []OneHolderPerToken
<1>1. Init => CaptureInv
  BY DEF Init, CaptureInv
<1>2. TypeOK /\ TokensInv /\ CaptureInv /\ [Next]_vars => CaptureInv'
  BY CaptureStep
<1>3. CaptureInv => OneHolderPerToken
  BY DEF CaptureInv, OneHolderPerToken
<1>4. QED
  BY <1>1, <1>2, <1>3, JobTypeCorrect, TokensCorrect, PTL DEF Spec
=============================================================================
