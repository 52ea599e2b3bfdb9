------------------------- MODULE ReelPipelineProofs -------------------------
(***************************************************************************)
(* Proofs about ReelPipeline, for any deliveries and any resume budgets.   *)
(***************************************************************************)
EXTENDS ReelPipeline, TLAPS

-----------------------------------------------------------------------------
(* Types.                                                                  *)

(* A posted message takes at most one delivery, one that was unused.       *)
LEMMA PostEffect ==
  ASSUME TypeOK, NEW j \in Jobs, NEW p \in [Runs -> PC], Post(j, p)
  PROVE  /\ pc' \in [Runs -> PC] /\ kind' \in [Runs -> Jobs]
         /\ \A m \in Runs : \/ pc'[m] = p[m] /\ kind'[m] = kind[m]
                            \/ pc'[m] = "queued"
<1>1. CASE pc' = p /\ UNCHANGED kind
  BY <1>1 DEF TypeOK
<1>2. ASSUME NEW m \in Runs, pc' = [p EXCEPT ![m] = "queued"], kind' = [kind EXCEPT ![m] = j]
      PROVE  /\ pc' \in [Runs -> PC] /\ kind' \in [Runs -> Jobs]
             /\ \A n \in Runs : \/ pc'[n] = p[n] /\ kind'[n] = kind[n]
                                \/ pc'[n] = "queued"
  BY <1>2 DEF TypeOK, PC
<1>3. QED
  BY <1>1, <1>2 DEF Post

LEMMA FailJobType ==
  ASSUME TypeOK, NEW j \in Jobs, FailJob(j)
  PROVE  /\ status' \in [Jobs -> {"absent", "pending", "running", "done", "failed"}]
         /\ stale' \in [Jobs -> BOOLEAN]
         /\ reel' \in ReelStatus /\ failedBy' \in Jobs \cup {"none"}
         /\ UNCHANGED <<thin, enriched, meta, token, resumes>>
BY DEF TypeOK, FailJob, Stamp, ReelStatus

LEMMA GotoType ==
  ASSUME TypeOK, NEW r \in Runs, NEW q \in PC, Goto(r, q)
  PROVE  pc' \in [Runs -> PC]
BY DEF TypeOK, Goto

(* The router, the workers and the reaper keep every variable in its type. *)
LEMMA TypeStep == TypeOK /\ [Next]_vars => TypeOK'
<1> SUFFICES ASSUME TypeOK, [Next]_vars PROVE TypeOK'
  OBVIOUS
<1> USE DEF content, rows, control, run
<1>1. CASE Enqueue
  BY <1>1, PostEffect DEF Enqueue, TypeOK, Jobs
<1>2. CASE FailUnenqueued
  BY <1>2, FailJobType DEF FailUnenqueued, TypeOK, Jobs
<1>3. ASSUME NEW r \in Runs, Claim(r) PROVE TypeOK'
  <2>1. CASE status[kind[r]] = "pending"
    <3>1. /\ status' = [status EXCEPT ![kind[r]] = "running"]
          /\ stale' = [stale EXCEPT ![kind[r]] = FALSE]
          /\ token' = [token EXCEPT ![kind[r]] = @ + 1]
          /\ tok' = [tok EXCEPT ![r] = token'[kind[r]]]
          /\ pc' = [pc EXCEPT ![r] = "prepare"]
      BY <1>3, <2>1 DEF Claim, Stamp, Goto
    <3>2. token' \in [Jobs -> Nat]
      BY <3>1 DEF TypeOK
    <3>3. tok' \in [Runs -> Nat]
      BY <3>1, <3>2 DEF TypeOK
    <3>4. /\ status' \in [Jobs -> {"absent", "pending", "running", "done", "failed"}]
          /\ stale' \in [Jobs -> BOOLEAN] /\ pc' \in [Runs -> PC]
      BY <3>1 DEF TypeOK, PC
    <3>5. QED
      BY <1>3, <3>2, <3>3, <3>4 DEF Claim, TypeOK
  <2>2. CASE status[kind[r]] # "pending"
    BY <1>3, <2>2 DEF Claim, TypeOK, Goto, PC
  <2>3. QED
    BY <2>1, <2>2
<1>4. ASSUME NEW r \in Runs, FailUnclaimed(r) \/ FailOwned(r) PROVE TypeOK'
  <2>1. kind[r] \in Jobs
    BY DEF TypeOK
  <2>2. pc' \in [Runs -> PC]
    BY <1>4, GotoType DEF FailUnclaimed, FailOwned, PC
  <2>3. CASE FailJob(kind[r])
    BY <1>4, <2>1, <2>2, <2>3, FailJobType DEF FailUnclaimed, FailOwned, TypeOK
  <2>4. CASE UNCHANGED <<content, rows>>
    BY <1>4, <2>2, <2>4 DEF FailUnclaimed, FailOwned, TypeOK
  <2>5. QED
    BY <1>4, <2>3, <2>4 DEF FailUnclaimed, FailOwned
<1>5. ASSUME NEW r \in Runs, Prepare(r) PROVE TypeOK'
  BY <1>5 DEF Prepare, TypeOK, Goto, PC
<1>6. ASSUME NEW r \in Runs, Retry(r) PROVE TypeOK'
  <2>1. [pc EXCEPT ![r] = "over"] \in [Runs -> PC]
    BY DEF TypeOK, PC
  <2>2. pc' \in [Runs -> PC] /\ kind' \in [Runs -> Jobs]
    BY <1>6, <2>1, PostEffect DEF Retry, Jobs
  <2>3. QED
    BY <1>6, <2>2 DEF Retry, Stamp, TypeOK
<1>7. ASSUME NEW r \in Runs, Beat(r) \/ Expire(r) PROVE TypeOK'
  BY <1>7 DEF Beat, Expire, TypeOK
<1>8. ASSUME NEW r \in Runs, Kill(r) PROVE TypeOK'
  <2>1. [pc EXCEPT ![r] = "over"] \in [Runs -> PC] /\ kind[r] \in Jobs
    BY DEF TypeOK, PC
  <2>2. pc' \in [Runs -> PC] /\ kind' \in [Runs -> Jobs]
    BY <1>8, <2>1, PostEffect DEF Kill
  <2>3. QED
    BY <1>8, <2>2 DEF Kill, TypeOK
<1>9. ASSUME NEW r \in Runs, Evaluate(r) \/ Save(r) \/ Skip(r) PROVE TypeOK'
  <2>1. pc' \in [Runs -> PC] /\ stale' \in [Jobs -> BOOLEAN]
    BY <1>9, GotoType DEF Evaluate, Save, Skip, HeartbeatTo, Goto, TypeOK, PC
  <2>2. enriched' \in Nat /\ meta' \in {"none", "enriched", "failed", "skipped"}
    BY <1>9 DEF Evaluate, Save, Skip, TypeOK
  <2>3. QED
    BY <1>9, <2>1, <2>2 DEF Evaluate, Save, Skip, TypeOK
<1>10. ASSUME NEW r \in Runs, HandOver(r) PROVE TypeOK'
  <2>1. pc' \in [Runs -> PC]
    BY <1>10, GotoType DEF HandOver, PC
  <2>2. QED
    BY <1>10, <2>1 DEF HandOver, TypeOK, ReelStatus
<1>11. ASSUME NEW r \in Runs, EnqueueGenerate(r) PROVE TypeOK'
  <2>1. \A next \in {"over", "hookfailed"} : [pc EXCEPT ![r] = next] \in [Runs -> PC]
    BY DEF TypeOK, PC
  <2>2. pc' \in [Runs -> PC] /\ kind' \in [Runs -> Jobs]
    BY <1>11, <2>1, PostEffect DEF EnqueueGenerate, Jobs
  <2>3. QED
    BY <1>11, <2>2 DEF EnqueueGenerate, TypeOK
<1>12. ASSUME NEW r \in Runs, CleanUp(r) PROVE TypeOK'
  <2>1. pc' \in [Runs -> PC]
    BY <1>12, GotoType DEF CleanUp, PC
  <2>2. /\ status' \in [Jobs -> {"absent", "pending", "running", "done", "failed"}]
        /\ stale' \in [Jobs -> BOOLEAN]
        /\ reel' \in ReelStatus /\ failedBy' \in Jobs \cup {"none"}
    <3>1. CASE AbandonGenerate /\ status["generate"] = "pending"
      <4>1. /\ status' = [status EXCEPT !["enrich"] = "failed", !["generate"] = "failed"]
            /\ stale' = [j \in Jobs |-> FALSE]
            /\ \/ reel' = "failed" /\ failedBy' = "generate"
               \/ UNCHANGED <<reel, failedBy>>
        BY <3>1 DEF AbandonGenerate
      <4>2. QED
        BY <4>1 DEF TypeOK, ReelStatus, Jobs
    <3>2. CASE Stamp("enrich", "failed") /\ UNCHANGED <<reel, failedBy>>
      BY <3>2 DEF Stamp, TypeOK
    <3>3. CASE UNCHANGED <<reel, failedBy, status, stale>>
      BY <3>3 DEF TypeOK
    <3>4. QED
      BY <1>12, <3>1, <3>2, <3>3 DEF CleanUp, AbandonGenerate
  <2>3. QED
    BY <1>12, <2>1, <2>2 DEF CleanUp, TypeOK
<1>13. ASSUME NEW r \in Runs, Finish(r) PROVE TypeOK'
  <2>1. pc' \in [Runs -> PC]
    BY <1>13, GotoType DEF Finish, PC
  <2>2. QED
    BY <1>13, <2>1 DEF Finish, Stamp, TypeOK, ReelStatus
<1>14. ASSUME NEW j \in Jobs, ReapResume(j) PROVE TypeOK'
  BY <1>14 DEF ReapResume, Stamp, TypeOK
<1>15. ASSUME NEW j \in Jobs, ReapFail(j) PROVE TypeOK'
  BY <1>15, FailJobType DEF ReapFail, TypeOK
<1>16. CASE ReapEnqueue
  BY <1>16, PostEffect DEF ReapEnqueue, TypeOK, Jobs
<1>17. ASSUME NEW j \in Jobs, TimePasses(j) PROVE TypeOK'
  BY <1>17 DEF TimePasses, TypeOK
<1>18. CASE UNCHANGED vars
  BY <1>18 DEF vars, TypeOK
<1>19. QED
  BY <1>1, <1>2, <1>3, <1>4, <1>5, <1>6, <1>7, <1>8, <1>9, <1>10, <1>11, <1>12, <1>13,
     <1>14, <1>15, <1>16, <1>17, <1>18
  DEF Next, Worker, Enrich, Reaper

(* Every variable of the reel and its two jobs keeps its type.             *)
THEOREM ReelTypeCorrect == Spec => []TypeOK
<1>1. Init => TypeOK
  BY DEF Init, TypeOK, Jobs, ReelStatus, PC
<1>2. QED
  BY <1>1, TypeStep, PTL DEF Spec

-----------------------------------------------------------------------------
(* The steps of the whole system, as the reel and the two rows see them.   *)

EnrichPC == {"evaluate", "calling", "saving", "handover", "enqueue", "hookfailed"}

(* Only an enrich delivery runs the enrich body.                           *)
EnrichBodies == \A r \in Runs : pc[r] \in EnrichPC => kind[r] = "enrich"

said  == <<enriched, meta>>
blame == <<reel, failedBy>>

Still      == UNCHANGED <<status, said, blame>>
Taken(j)   == /\ status[j] = "pending" /\ status' = [status EXCEPT ![j] = "running"]
              /\ UNCHANGED <<said, blame>>
Back(j)    == /\ status[j] = "running" /\ status' = [status EXCEPT ![j] = "pending"]
              /\ UNCHANGED <<said, blame>>
Failed(j)  == /\ Live(j) /\ status' = [status EXCEPT ![j] = "failed"]
              /\ \/ reel = InFlight[j] /\ reel' = "failed" /\ failedBy' = j
                 \/ reel # InFlight[j] /\ UNCHANGED blame
              /\ UNCHANGED said
Said       == /\ status["enrich"] = "running" /\ UNCHANGED <<status, blame>>
              /\ meta' = "enriched" => enriched' # 0
Handed     == /\ status["enrich"] = "running"
              /\ status' = [status EXCEPT !["enrich"] = "done", !["generate"] = "pending"]
              /\ reel' = "generating" /\ UNCHANGED <<said, failedBy>>
Abandoned  == /\ status["enrich"] = "done" /\ status["generate"] = "pending"
              /\ status' = [status EXCEPT !["enrich"] = "failed", !["generate"] = "failed"]
              /\ \/ reel = "generating" /\ reel' = "failed" /\ failedBy' = "generate"
                 \/ reel # "generating" /\ UNCHANGED blame
              /\ UNCHANGED said
Withdrawn  == /\ status["enrich"] = "done"
              /\ status' = [status EXCEPT !["enrich"] = "failed"] /\ UNCHANGED <<said, blame>>
Finished   == /\ status["generate"] = "running"
              /\ status' = [status EXCEPT !["generate"] = "done"]
              /\ reel' = "guide_ready" /\ UNCHANGED <<said, failedBy>>

ReelStep ==
  \/ Still \/ Said \/ Handed \/ Abandoned \/ Withdrawn \/ Finished
  \/ \E j \in Jobs : Taken(j) \/ Back(j) \/ Failed(j)

LEMMA FailJobFails ==
  ASSUME TypeOK, NEW j \in Jobs, Live(j), FailJob(j)
  PROVE  Failed(j)
BY DEF FailJob, Stamp, Failed, said, blame

(* Every step is one of these.                                             *)
LEMMA EveryStepIsReelStep == TypeOK /\ EnrichBodies /\ [Next]_vars => ReelStep
<1> SUFFICES ASSUME TypeOK, EnrichBodies, [Next]_vars PROVE ReelStep
  OBVIOUS
<1> USE DEF content, rows, said, blame
<1>1. CASE Enqueue \/ ReapEnqueue
  BY <1>1 DEF Enqueue, ReapEnqueue, ReelStep, Still
<1>2. CASE FailUnenqueued
  BY <1>2, FailJobFails DEF FailUnenqueued, Live, ReelStep, Still, Jobs
<1>3. ASSUME NEW r \in Runs, Claim(r) PROVE ReelStep
  <2>1. kind[r] \in Jobs
    BY DEF TypeOK
  <2>2. QED
    BY <1>3, <2>1 DEF Claim, Stamp, ReelStep, Still, Taken
<1>4. ASSUME NEW r \in Runs, FailUnclaimed(r) \/ FailOwned(r) PROVE ReelStep
  <2>1. kind[r] \in Jobs
    BY DEF TypeOK
  <2>2. CASE FailJob(kind[r]) /\ Live(kind[r])
    BY <2>1, <2>2, FailJobFails DEF ReelStep
  <2>3. CASE UNCHANGED <<content, rows>>
    BY <2>3 DEF ReelStep, Still
  <2>4. QED
    BY <1>4, <2>2, <2>3 DEF FailUnclaimed, FailOwned, Holds, Live
<1>5. ASSUME NEW r \in Runs,
             Prepare(r) \/ Beat(r) \/ Expire(r) \/ Kill(r) \/ Evaluate(r) \/ EnqueueGenerate(r)
      PROVE  ReelStep
  BY <1>5 DEF Prepare, Beat, Expire, Kill, Evaluate, EnqueueGenerate, ReelStep, Still
<1>6. ASSUME NEW r \in Runs, Retry(r) PROVE ReelStep
  BY <1>6 DEF Retry, Holds, Stamp, ReelStep, Back, Jobs
<1>7. ASSUME NEW r \in Runs, Save(r) \/ Skip(r) PROVE ReelStep
  <2>1. kind[r] = "enrich"
    BY <1>7 DEF Save, Skip, EnrichBodies, EnrichPC
  <2>2. CASE Holds(r)
    BY <1>7, <2>1, <2>2 DEF Save, Skip, Holds, ReelStep, Said
  <2>3. CASE ~Holds(r)
    BY <1>7, <2>3 DEF Save, Skip, ReelStep, Still
  <2>4. QED
    BY <2>2, <2>3
<1>8. ASSUME NEW r \in Runs, HandOver(r) PROVE ReelStep
  <2>1. kind[r] = "enrich"
    BY <1>8 DEF HandOver, EnrichBodies, EnrichPC
  <2>2. QED
    BY <1>8, <2>1 DEF HandOver, Holds, ReelStep, Handed, Still
<1>9. ASSUME NEW r \in Runs, CleanUp(r) PROVE ReelStep
  <2>1. status["enrich"] = "done" /\ UNCHANGED said
    BY <1>9 DEF CleanUp
  <2>2. CASE AbandonGenerate /\ status["generate"] = "pending"
    BY <2>1, <2>2 DEF AbandonGenerate, ReelStep, Abandoned
  <2>3. CASE Stamp("enrich", "failed") /\ UNCHANGED <<reel, failedBy>>
    BY <2>1, <2>3 DEF Stamp, ReelStep, Withdrawn
  <2>4. CASE UNCHANGED <<reel, failedBy, status, stale>>
    BY <2>1, <2>4 DEF ReelStep, Still
  <2>5. QED
    BY <1>9, <2>2, <2>3, <2>4 DEF CleanUp, AbandonGenerate
<1>10. ASSUME NEW r \in Runs, Finish(r) PROVE ReelStep
  BY <1>10 DEF Finish, Holds, Stamp, ReelStep, Finished, Still
<1>11. ASSUME NEW j \in Jobs, ReapResume(j) PROVE ReelStep
  BY <1>11 DEF ReapResume, Stamp, ReelStep, Back
<1>12. ASSUME NEW j \in Jobs, ReapFail(j) PROVE ReelStep
  BY <1>12, FailJobFails DEF ReapFail, Live, ReelStep
<1>13. ASSUME NEW j \in Jobs, TimePasses(j) PROVE ReelStep
  BY <1>13 DEF TimePasses, ReelStep, Still
<1>14. CASE UNCHANGED vars
  BY <1>14 DEF vars, ReelStep, Still
<1>15. QED
  BY <1>1, <1>2, <1>3, <1>4, <1>5, <1>6, <1>7, <1>8, <1>9, <1>10, <1>11, <1>12, <1>13, <1>14
  DEF Next, Worker, Enrich, Reaper

(* A delivery becomes part of the enrich body by being the enrich job's,   *)
(* and keeps its job until it is over.                                     *)
LEMMA BodiesStep == TypeOK /\ EnrichBodies /\ [Next]_vars => EnrichBodies'
<1> SUFFICES ASSUME TypeOK, EnrichBodies, [Next]_vars PROVE EnrichBodies'
  OBVIOUS
<1> USE DEF run, EnrichBodies, EnrichPC
<1>1. ASSUME NEW j \in Jobs, NEW p \in [Runs -> PC], Post(j, p),
             \A m \in Runs : p[m] \in EnrichPC => kind[m] = "enrich"
      PROVE  EnrichBodies'
  BY <1>1, PostEffect
<1>2. CASE Enqueue \/ ReapEnqueue
  BY <1>2, <1>1 DEF Enqueue, ReapEnqueue, TypeOK, Jobs
<1>3. CASE FailUnenqueued
  BY <1>3 DEF FailUnenqueued
<1>4. ASSUME NEW r \in Runs, NEW q \in PC, Goto(r, q), UNCHANGED kind,
             q \in EnrichPC => kind[r] = "enrich"
      PROVE  EnrichBodies'
  BY <1>4 DEF Goto, TypeOK
<1>5. ASSUME NEW r \in Runs, Claim(r) \/ FailUnclaimed(r) \/ Prepare(r) \/ FailOwned(r)
      PROVE  EnrichBodies'
  BY <1>5, <1>4 DEF Claim, FailUnclaimed, Prepare, FailOwned, PC
<1>6. ASSUME NEW r \in Runs, Retry(r) \/ Kill(r) PROVE EnrichBodies'
  <2>1. [pc EXCEPT ![r] = "over"] \in [Runs -> PC] /\ kind[r] \in Jobs
    BY DEF TypeOK, PC
  <2>2. QED
    BY <1>6, <2>1, <1>1 DEF Retry, Kill, Jobs, TypeOK
<1>7. ASSUME NEW r \in Runs, Beat(r) \/ Expire(r) PROVE EnrichBodies'
  BY <1>7 DEF Beat, Expire
<1>8. ASSUME NEW r \in Runs, Evaluate(r) \/ Save(r) \/ Skip(r) \/ HandOver(r) \/ CleanUp(r)
      PROVE  EnrichBodies'
  <2>1. kind[r] = "enrich" /\ UNCHANGED kind
    BY <1>8 DEF Evaluate, Save, Skip, HandOver, CleanUp
  <2>2. \E q \in PC : Goto(r, q)
    BY <1>8 DEF Evaluate, Save, Skip, HandOver, CleanUp, HeartbeatTo, PC
  <2>3. QED
    BY <2>1, <2>2, <1>4
<1>9. ASSUME NEW r \in Runs, EnqueueGenerate(r) PROVE EnrichBodies'
  <2>1. PICK next \in {"over", "hookfailed"} : Post("generate", [pc EXCEPT ![r] = next])
    BY <1>9 DEF EnqueueGenerate
  <2>2. [pc EXCEPT ![r] = next] \in [Runs -> PC] /\ kind[r] = "enrich"
    BY <1>9 DEF EnqueueGenerate, TypeOK, PC
  <2>3. QED
    BY <2>1, <2>2, <1>1 DEF Jobs, TypeOK
<1>10. ASSUME NEW r \in Runs, Finish(r) PROVE EnrichBodies'
  BY <1>10, <1>4 DEF Finish, PC
<1>11. ASSUME NEW j \in Jobs, ReapResume(j) \/ ReapFail(j) \/ TimePasses(j) PROVE EnrichBodies'
  BY <1>11 DEF ReapResume, ReapFail, TimePasses
<1>12. CASE UNCHANGED vars
  BY <1>12 DEF vars
<1>13. QED
  BY <1>2, <1>3, <1>5, <1>6, <1>7, <1>8, <1>9, <1>10, <1>11, <1>12
  DEF Next, Worker, Enrich, Reaper

-----------------------------------------------------------------------------
(* The reel and its jobs.                                                  *)

(* The generate job exists only once the enrich job is over ...            *)
OneAfterTheOther ==
  status["generate"] # "absent" => status["enrich"] \in {"done", "failed"}

(* ... and a failed reel has the failed job that failed it.                *)
FailedByOne ==
  reel = "failed" =>
    \/ failedBy = "enrich" /\ status["enrich"] = "failed" /\ status["generate"] = "absent"
    \/ failedBy = "generate" /\ status["generate"] = "failed"

ReelInv == ReelHasItsJob /\ OneAfterTheOther /\ FailedByOne /\ MetaTellsContext

IInv == TypeOK /\ EnrichBodies /\ ReelInv

(* Every way the reel and its jobs change together keeps ReelInv.          *)
LEMMA ReelInvStep == TypeOK /\ ReelInv /\ ReelStep => ReelInv'
<1> SUFFICES ASSUME TypeOK, ReelInv, ReelStep PROVE ReelInv'
  OBVIOUS
<1> USE DEF ReelInv, ReelHasItsJob, OneAfterTheOther, FailedByOne, MetaTellsContext, Live,
            InFlight, Jobs, said, blame, TypeOK
<1>1. CASE Still \/ Said
  BY <1>1 DEF Still, Said
<1>2. CASE Handed
  BY <1>2 DEF Handed
<1>3. CASE Abandoned
  BY <1>3 DEF Abandoned
<1>4. CASE Withdrawn
  BY <1>4 DEF Withdrawn
<1>5. CASE Finished
  BY <1>5 DEF Finished
<1>6. ASSUME NEW j \in Jobs, Taken(j) \/ Back(j) PROVE ReelInv'
  BY <1>6 DEF Taken, Back
<1>7. ASSUME NEW j \in Jobs, Failed(j) PROVE ReelInv'
  BY <1>7 DEF Failed
<1>8. QED
  BY <1>1, <1>2, <1>3, <1>4, <1>5, <1>6, <1>7 DEF ReelStep

LEMMA IInvInductive == IInv /\ [Next]_vars => IInv'
BY TypeStep, BodiesStep, EveryStepIsReelStep, ReelInvStep DEF IInv

(* The reel, its two jobs and who runs which body agree in every state.    *)
THEOREM IInvHolds == Spec => []IInv
<1>1. Init => IInv
  BY DEF Init, IInv, TypeOK, Jobs, ReelStatus, PC, EnrichBodies, EnrichPC, ReelInv,
         ReelHasItsJob, OneAfterTheOther, FailedByOne, MetaTellsContext, Live, InFlight
<1>2. QED
  BY <1>1, IInvInductive, PTL DEF Spec

(* Whatever happens to the hand-over, the reel is driven by exactly the    *)
(* job that is live.                                                       *)
THEOREM ReelAndJobsAgree == Spec => []ReelHasItsJob
<1>1. IInv => ReelHasItsJob
  BY DEF IInv, ReelInv
<1>2. QED
  BY <1>1, IInvHolds, PTL

(* The newest failed job is the one whose failure made the reel fail.      *)
THEOREM FailuresAreExplained == Spec => []FailurePageExplains
<1>1. IInv => FailurePageExplains
  BY DEF IInv, ReelInv, FailedByOne, FailurePageExplains, LatestFailed
<1>2. QED
  BY <1>1, IInvHolds, PTL

(* A job that says it enriched the context has left a text.                *)
THEOREM MetaIsTrue == Spec => []MetaTellsContext
<1>1. IInv => MetaTellsContext
  BY DEF IInv, ReelInv
<1>2. QED
  BY <1>1, IInvHolds, PTL

(* No enrich run changes what an existing generate job works from: the     *)
(* heartbeat that would commit its reply no longer finds the job running.  *)
THEOREM ContextIsFixed == Spec => ContextFixedAtHandOver
<1>1. IInv /\ [Next]_vars => [status["generate"] # "absent" => UNCHANGED <<enriched, meta>>]_vars
  <2> SUFFICES ASSUME IInv, ReelStep, status["generate"] # "absent"
               PROVE  UNCHANGED <<enriched, meta>>
    BY EveryStepIsReelStep DEF IInv
  <2>1. status["enrich"] # "running"
    BY DEF IInv, ReelInv, OneAfterTheOther
  <2>2. QED
    BY <2>1 DEF ReelStep, Still, Said, Handed, Abandoned, Withdrawn, Finished, Taken, Back,
                Failed, said
<1>2. QED
  BY <1>1, IInvHolds, PTL DEF Spec, ContextFixedAtHandOver

-----------------------------------------------------------------------------
(* Each of the two jobs is a job in the sense of JobLifecycle: the enrich  *)
(* job holds the reel until the commit that hands it over, the generate    *)
(* job from then on.                                                       *)

(* Each of them is a step of JobLifecycle, or none, for the enrich job.    *)
LEMMA EnrichRefines ==
  ASSUME TypeOK, ReelInv, ReelStep
  PROVE  [EnrichLife!Next]_<<status["enrich"], reel = "enriching">>
<1> USE DEF ReelInv, ReelHasItsJob, OneAfterTheOther, Live, InFlight, Jobs, said, blame, TypeOK,
            EnrichLife!Next, EnrichLife!Start, EnrichLife!HandBack, EnrichLife!Succeed,
            EnrichLife!Fail, EnrichLife!Withdraw
<1>1. CASE Still \/ Said
  BY <1>1 DEF Still, Said
<1>2. CASE Handed
  BY <1>2 DEF Handed
<1>3. CASE Abandoned
  BY <1>3 DEF Abandoned
<1>4. CASE Withdrawn
  BY <1>4 DEF Withdrawn
<1>5. CASE Finished
  BY <1>5 DEF Finished
<1>6. ASSUME NEW j \in Jobs, Taken(j) \/ Back(j)
      PROVE  [EnrichLife!Next]_<<status["enrich"], reel = "enriching">>
  BY <1>6 DEF Taken, Back
<1>7. ASSUME NEW j \in Jobs, Failed(j)
      PROVE  [EnrichLife!Next]_<<status["enrich"], reel = "enriching">>
  BY <1>7 DEF Failed
<1>8. QED
  BY <1>1, <1>2, <1>3, <1>4, <1>5, <1>6, <1>7 DEF ReelStep

GeneratePhase == IF status["generate"] = "absent" THEN "pending" ELSE status["generate"]
GenerateHeld  == status["generate"] = "absent" \/ reel = "generating"

(* The same for the generate job.                                          *)
LEMMA GenerateRefines ==
  ASSUME TypeOK, ReelInv, ReelStep
  PROVE  [GenerateLife!Next]_<<GeneratePhase, GenerateHeld>>
<1> USE DEF ReelInv, ReelHasItsJob, OneAfterTheOther, Live, InFlight, Jobs, said, blame, TypeOK,
            GeneratePhase, GenerateHeld,
            GenerateLife!Next, GenerateLife!Start, GenerateLife!HandBack, GenerateLife!Succeed,
            GenerateLife!Fail, GenerateLife!Withdraw
<1>1. CASE Still \/ Said
  BY <1>1 DEF Still, Said
<1>2. CASE Handed
  BY <1>2 DEF Handed
<1>3. CASE Abandoned
  BY <1>3 DEF Abandoned
<1>4. CASE Withdrawn
  BY <1>4 DEF Withdrawn
<1>5. CASE Finished
  BY <1>5 DEF Finished
<1>6. ASSUME NEW j \in Jobs, Taken(j) \/ Back(j)
      PROVE  [GenerateLife!Next]_<<GeneratePhase, GenerateHeld>>
  BY <1>6 DEF Taken, Back
<1>7. ASSUME NEW j \in Jobs, Failed(j)
      PROVE  [GenerateLife!Next]_<<GeneratePhase, GenerateHeld>>
  BY <1>7 DEF Failed
<1>8. QED
  BY <1>1, <1>2, <1>3, <1>4, <1>5, <1>6, <1>7 DEF ReelStep

(* The enrich job and the generate job, each seen through its status and   *)
(* the reel they share, behave as JobLifecycle promises of any job.        *)
THEOREM BothJobsAreJobs == Spec => BothLifecycles
<1>1. Init => EnrichLife!Init /\ GenerateLife!Init
  BY DEF Init, Jobs, EnrichLife!Init, GenerateLife!Init
<1>2. IInv /\ [Next]_vars
        => [EnrichLife!Next]_<<status["enrich"], reel = "enriching">>
  BY EveryStepIsReelStep, EnrichRefines DEF IInv
<1>3. IInv /\ [Next]_vars
        => [GenerateLife!Next]_<<IF status["generate"] = "absent" THEN "pending"
                                 ELSE status["generate"],
                                 status["generate"] = "absent" \/ reel = "generating">>
  BY EveryStepIsReelStep, GenerateRefines DEF IInv, GeneratePhase, GenerateHeld
<1>4. QED
  BY <1>1, <1>2, <1>3, IInvHolds, PTL
  DEF Spec, BothLifecycles, EnrichLife!Spec, GenerateLife!Spec
=============================================================================
