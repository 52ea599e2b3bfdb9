------------------------- MODULE CutPipelineProofs -------------------------
(***************************************************************************)
(* Proofs about CutPipeline, for any number of jobs, executions, guides    *)
(* and assets and any concurrency of the rendering queue.                  *)
(***************************************************************************)
EXTENDS CutPipeline, FiniteSetTheorems, TLAPS

-----------------------------------------------------------------------------
(* Types: what a run record holds while it is executing.                   *)

Ending == {"transient", "permanent"}

RenderRun  == [pc : RenderPC \cup Ending, job : Jobs, guide : Guides, pins : SUBSET Pins,
               status : CutStatus]
PublishRun == [pc : PublishPC \cup Ending, job : Jobs, guide : Guides, row : SUBSET Content,
               post : SUBSET Content, sends : SUBSET Content, status : CutStatus]

JobRecords == [kind : {"none", "render", "publish"},
               status : {"none", "pending", "running", "done", "failed"},
               misreaped : BOOLEAN, posted : BOOLEAN]

CutOK ==
  /\ status \in CutStatus /\ guide \in Guides /\ pins \in SUBSET Pins
  /\ file \in SUBSET Content /\ row \in SUBSET Content /\ post \in SUBSET Content

JobsOK ==
  /\ job \in [Jobs -> JobRecords]
  /\ \A j \in Jobs : job[j].status # "none" => job[j].kind # "none"

RunsOK ==
  /\ run \in [Runs -> {Unused, Over} \cup RenderRun \cup PublishRun]
  /\ \A r \in Runs : run[r].pc \in RenderPC \cup PublishPC \cup Ending =>
       \/ run[r] \in RenderRun /\ job[run[r].job].kind = "render"
       \/ run[r] \in PublishRun /\ job[run[r].job].kind = "publish"

Types == CutOK /\ JobsOK /\ RunsOK

(* What kind of body an execution runs, from where it is.                  *)
LEMMA Execution ==
  ASSUME RunsOK, NEW r \in Runs
  PROVE  /\ Executing(r) <=> run[r].pc \in RenderPC \cup PublishPC \cup Ending
         /\ Executing(r) => run[r].job \in Jobs
         /\ run[r].pc \in RenderPC =>
              run[r] \in RenderRun /\ job[run[r].job].kind = "render"
         /\ run[r].pc \in PublishPC =>
              run[r] \in PublishRun /\ job[run[r].job].kind = "publish"
<1> DEFINE going == run[r].pc \in RenderPC \cup PublishPC \cup Ending
<1>1. Executing(r) <=> going
  <2>1. CASE run[r] = Unused \/ run[r] = Over
    BY <2>1 DEF Executing, Unused, Over, RenderPC, PublishPC, Ending
  <2>2. CASE run[r] \in RenderRun \cup PublishRun
    <3>1. going
      BY <2>2 DEF RenderRun, PublishRun
    <3>2. QED
      BY <3>1 DEF Executing, RenderPC, PublishPC, Ending
  <2>3. QED
    BY <2>1, <2>2 DEF RunsOK
<1>2. CASE run[r] \in RenderRun /\ job[run[r].job].kind = "render"
  <2>1. run[r].pc \in RenderPC \cup Ending /\ run[r].job \in Jobs
    BY <1>2 DEF RenderRun
  <2>2. run[r].pc \notin PublishPC
    BY <2>1 DEF RenderPC, PublishPC, Ending
  <2>3. QED
    BY <1>1, <1>2, <2>1, <2>2
<1>3. CASE run[r] \in PublishRun /\ job[run[r].job].kind = "publish"
  <2>1. run[r].pc \in PublishPC \cup Ending /\ run[r].job \in Jobs
    BY <1>3 DEF PublishRun
  <2>2. run[r].pc \notin RenderPC
    BY <2>1 DEF RenderPC, PublishPC, Ending
  <2>3. QED
    BY <1>1, <1>3, <2>1, <2>2
<1>4. CASE ~going
  BY <1>1, <1>4
<1>5. QED
  BY <1>2, <1>3, <1>4 DEF RunsOK

-----------------------------------------------------------------------------
(* How the status of the cut and the jobs change together.                 *)

Flying(j)  == job[j].status \in {"pending", "running"}
Kinds      == {"render", "publish"}

Quiet      == UNCHANGED <<status, job>>
Approved   == status = "in_review" /\ status' = "approved" /\ UNCHANGED job
Created(j, k) ==
  /\ job[j] = NoJob
  /\ job' = [job EXCEPT ![j] =
       [kind |-> k, status |-> "pending", misreaped |-> FALSE, posted |-> post # {}]]
  /\ status' = InFlight[k]
  /\ status \in IF k = "render" THEN {"draft", "in_review", "failed"} ELSE {"approved", "failed"}
  /\ k = "publish" => row # {}
  /\ k = "render" => post = {}
Moved(j, s) ==
  /\ Flying(j) /\ job' = [job EXCEPT ![j].status = s] /\ UNCHANGED status
  /\ s = "running" \/ (s = "pending" /\ job[j].kind = "render")
Failed(j) ==
  /\ Flying(j) /\ job' = [job EXCEPT ![j].status = "failed"]
  /\ status' = RolledBack(job[j].kind)
Completed(j) ==
  /\ job[j].status = "running" /\ job' = [job EXCEPT ![j].status = "done"]
  /\ status' = IF job[j].kind = "render" THEN "in_review" ELSE "published"
Orphaned(j) ==
  /\ job[j].status = "done"
  /\ job' = [job EXCEPT ![j].status = "failed", ![j].misreaped = TRUE]
  /\ status' = "failed"

JobChange ==
  \/ Quiet \/ Approved
  \/ \E j \in Jobs : \/ \E k \in Kinds : Created(j, k)
                     \/ \E s \in {"pending", "running"} : Moved(j, s)
                     \/ Failed(j) \/ Completed(j) \/ Orphaned(j)

(* A run that holds its job has it in flight.                              *)
LEMMA LiveFlies ==
  ASSUME Types, NEW r \in Runs, Executing(r), Live(r)
  PROVE  run[r].job \in Jobs /\ job[run[r].job].status = "running" /\ Flying(run[r].job)
BY Execution DEF Types, Live, Flying

LEMMA EveryStepIsJobChange == Types /\ [Next]_vars => JobChange
<1> SUFFICES ASSUME Types, [Next]_vars PROVE JobChange
  OBVIOUS
<1> USE DEF cut
<1>1. CASE UpdateCut \/ ApproveCut
  BY <1>1 DEF UpdateCut, ApproveCut, JobChange, Quiet, Approved
<1>2. ASSUME NEW j \in Jobs, Operator(j) PROVE JobChange
  <2>1. CASE TriggerRender(j)
    BY <2>1 DEF TriggerRender, NewJob, Created, Kinds, JobChange
  <2>2. CASE TriggerPublish(j)
    BY <2>2 DEF TriggerPublish, NewJob, Created, Kinds, JobChange
  <2>3. QED
    BY <1>2, <2>1, <2>2 DEF Operator
<1>3. ASSUME NEW j \in Jobs, Reaper(j) PROVE JobChange
  <2>1. CASE FailPending(j)
    BY <2>1 DEF FailPending, FailJob, SetJob, Failed, Flying, JobChange
  <2>2. CASE Reap(j)
    BY <2>2 DEF Reap, FailJob, SetJob, Failed, Moved, Flying, JobChange
  <2>3. CASE ReapDoneOrphan(j)
    BY <2>3 DEF ReapDoneOrphan, Orphaned, JobChange
  <2>4. QED
    BY <1>3, <2>1, <2>2, <2>3 DEF Reaper
<1>4. ASSUME NEW j \in Jobs, NEW r \in Runs, Start(j, r) PROVE JobChange
  BY <1>4 DEF Start, StartRender, StartPublish, SetJob, Moved, Flying, JobChange
<1>5. ASSUME NEW r \in Runs, StampRender(r) PROVE JobChange
  <2>1. Executing(r) /\ job[run[r].job].kind = "render"
    BY <1>5, Execution DEF Types, StampRender, RenderPC
  <2>2. QED
    BY <1>5, <2>1, LiveFlies DEF StampRender, SetJob, Completed, Quiet, JobChange
<1>6. ASSUME NEW r \in Runs, StampPublish(r) PROVE JobChange
  <2>1. Executing(r) /\ job[run[r].job].kind = "publish"
    BY <1>6, Execution DEF Types, StampPublish, PublishPC
  <2>2. QED
    BY <1>6, <2>1, LiveFlies DEF StampPublish, SetJob, Completed, Quiet, JobChange
<1>7. ASSUME NEW r \in Runs, Settle(r) PROVE JobChange
  <2>1. Executing(r)
    BY <1>7 DEF Settle, Executing
  <2>2. QED
    BY <1>7, <2>1, LiveFlies
    DEF Settle, FailJob, SetJob, Kind, Failed, Moved, Quiet, JobChange
<1>8. ASSUME NEW r \in Runs,
             \/ ReadPins(r) \/ WritePins(r) \/ BeatHeartbeat(r) \/ Composite(r) \/ RefreshCut(r)
             \/ Gates(r) \/ HeartbeatBeforeUpload(r) \/ ReadVideo(r) \/ Upload(r)
             \/ RecordPost(r) \/ Raise(r) \/ Kill(r)
      PROVE  JobChange
  BY <1>8 DEF ReadPins, WritePins, BeatHeartbeat, Composite, RefreshCut, Gates,
              HeartbeatBeforeUpload, ReadVideo, Upload, RecordPost, Raise, Kill, JobChange, Quiet
<1>9. CASE UNCHANGED vars
  BY <1>9 DEF vars, JobChange, Quiet
<1>10. QED
  BY <1>1, <1>2, <1>3, <1>4, <1>5, <1>6, <1>7, <1>8, <1>9 DEF Next, Render, Publish

-----------------------------------------------------------------------------
(* Types are kept.                                                         *)

(* A job keeps its kind for ever, and stays misreaped.                     *)
LEMMA KindsStay ==
  ASSUME Types, JobChange
  PROVE  /\ JobsOK' /\ status' \in CutStatus
         /\ \A j \in Jobs : /\ job[j].kind # "none" => job'[j].kind = job[j].kind
                            /\ job[j].misreaped = TRUE => job'[j].misreaped = TRUE
<1> USE DEF Types, JobsOK, JobRecords, CutOK, CutStatus
<1>1. CASE Quiet
  BY <1>1 DEF Quiet
<1>2. CASE Approved
  BY <1>2 DEF Approved
<1>3. ASSUME NEW j \in Jobs, NEW k \in Kinds, Created(j, k)
      PROVE  /\ JobsOK' /\ status' \in CutStatus
             /\ \A i \in Jobs : /\ job[i].kind # "none" => job'[i].kind = job[i].kind
                                /\ job[i].misreaped = TRUE => job'[i].misreaped = TRUE
  BY <1>3 DEF Created, Kinds, NoJob, InFlight
<1>4. ASSUME NEW j \in Jobs,
             \/ \E s \in {"pending", "running"} : Moved(j, s)
             \/ Failed(j) \/ Completed(j) \/ Orphaned(j)
      PROVE  /\ JobsOK' /\ status' \in CutStatus
             /\ \A i \in Jobs : /\ job[i].kind # "none" => job'[i].kind = job[i].kind
                                /\ job[i].misreaped = TRUE => job'[i].misreaped = TRUE
  BY <1>4 DEF Moved, Failed, Completed, Orphaned, Flying, RolledBack
<1>5. QED
  BY <1>1, <1>2, <1>3, <1>4 DEF JobChange

(* A job never changes its kind.                                           *)
LEMMA KindStays ==
  ASSUME Types, JobChange, NEW j \in Jobs, job[j].kind # "none"
  PROVE  job'[j].kind = job[j].kind
BY KindsStay

(* What one run's record becomes, when it is another of its kind.          *)
LEMMA RunUpdate ==
  ASSUME Types, JobChange, NEW r \in Runs, NEW x, run' = [run EXCEPT ![r] = x],
         \/ x = Over
         \/ x \in RenderRun /\ job[x.job].kind = "render"
         \/ x \in PublishRun /\ job[x.job].kind = "publish"
  PROVE  RunsOK'
<1>1. run' \in [Runs -> {Unused, Over} \cup RenderRun \cup PublishRun]
  BY DEF Types, RunsOK
<1>2. ASSUME NEW y, \/ y \in RenderRun /\ job[y.job].kind = "render"
                    \/ y \in PublishRun /\ job[y.job].kind = "publish"
      PROVE  \/ y \in RenderRun /\ job'[y.job].kind = "render"
             \/ y \in PublishRun /\ job'[y.job].kind = "publish"
  <2>1. y.job \in Jobs
    BY <1>2 DEF RenderRun, PublishRun
  <2>2. job[y.job].kind # "none" => job'[y.job].kind = job[y.job].kind
    BY <2>1, KindStays
  <2>3. QED
    BY <1>2, <2>2
<1>3. Over.pc \notin RenderPC \cup PublishPC \cup Ending
  BY DEF Over, RenderPC, PublishPC, Ending
<1>4. QED
  BY <1>1, <1>2, <1>3 DEF Types, RunsOK

LEMMA GotoRun ==
  ASSUME Types, JobChange, NEW r \in Runs, Executing(r), NEW p, Goto(r, p),
         \/ p \in Ending
         \/ p \in RenderPC /\ run[r].pc \in RenderPC
         \/ p \in PublishPC /\ run[r].pc \in PublishPC
  PROVE  RunsOK'
<1> DEFINE x == [run[r] EXCEPT !.pc = p]
<1>1. run' = [run EXCEPT ![r] = x]
  BY DEF Goto, Types, RunsOK
<1>2. CASE run[r] \in RenderRun /\ job[run[r].job].kind = "render" /\ p \in RenderPC \cup Ending
  <2>1. x \in RenderRun /\ x.job = run[r].job
    BY <1>2 DEF RenderRun
  <2>2. QED
    BY <1>1, <1>2, <2>1, RunUpdate
<1>3. CASE run[r] \in PublishRun /\ job[run[r].job].kind = "publish" /\ p \in PublishPC \cup Ending
  <2>1. x \in PublishRun /\ x.job = run[r].job
    BY <1>3 DEF PublishRun
  <2>2. QED
    BY <1>1, <1>3, <2>1, RunUpdate
<1>4. QED
  BY <1>2, <1>3, Execution DEF Types, RunsOK

LEMMA RunsKept ==
  ASSUME Types, JobChange, UNCHANGED run
  PROVE  RunsOK'
<1>1. ASSUME NEW r \in Runs, run[r].pc \in RenderPC \cup PublishPC \cup Ending
      PROVE  \/ run[r] \in RenderRun /\ job'[run[r].job].kind = "render"
             \/ run[r] \in PublishRun /\ job'[run[r].job].kind = "publish"
  BY <1>1, Execution, KindStays DEF Types, RunsOK
<1>2. run' = run
  OBVIOUS
<1>3. run' \in [Runs -> {Unused, Over} \cup RenderRun \cup PublishRun]
  BY <1>2 DEF Types, RunsOK
<1>4. QED
  BY <1>1, <1>2, <1>3 DEF RunsOK

LEMMA RunsStep == Types /\ [Next]_vars => RunsOK'
<1> SUFFICES ASSUME Types, [Next]_vars PROVE RunsOK'
  OBVIOUS
<1> USE DEF cut
<1>j. JobChange
  BY EveryStepIsJobChange
<1>e. \A r \in Runs : run[r].pc \in RenderPC \cup PublishPC \cup Ending => Executing(r)
  BY Execution DEF Types
<1>1. CASE UpdateCut \/ ApproveCut \/ UNCHANGED vars
  BY <1>1, <1>j, RunsKept DEF UpdateCut, ApproveCut, vars
<1>2. ASSUME NEW j \in Jobs, Operator(j) \/ Reaper(j) PROVE RunsOK'
  BY <1>2, <1>j, RunsKept DEF Operator, TriggerRender, TriggerPublish, NewJob,
                              Reaper, FailPending, Reap, ReapDoneOrphan
<1>3. ASSUME NEW j \in Jobs, NEW r \in Runs, StartRender(j, r) PROVE RunsOK'
  <2> DEFINE x == [pc |-> IF post = {} THEN "pins" ELSE "permanent",
                   job |-> j, guide |-> guide, pins |-> {}, status |-> status]
  <2>1. run' = [run EXCEPT ![r] = x] /\ job[x.job].kind = "render"
    BY <1>3 DEF StartRender
  <2>2. x \in RenderRun
    BY DEF RenderRun, RenderPC, Ending, Types, CutOK
  <2>3. QED
    BY <1>j, <2>1, <2>2, RunUpdate
<1>4. ASSUME NEW j \in Jobs, NEW r \in Runs, StartPublish(j, r) PROVE RunsOK'
  <2> DEFINE x == [pc |-> "gates", job |-> j, guide |-> guide, row |-> row, post |-> post,
                   sends |-> {}, status |-> status]
  <2>1. run' = [run EXCEPT ![r] = x] /\ job[x.job].kind = "publish"
    BY <1>4 DEF StartPublish
  <2>2. x \in PublishRun
    BY DEF PublishRun, PublishPC, Types, CutOK
  <2>3. QED
    BY <1>j, <2>1, <2>2, RunUpdate
<1>5. ASSUME NEW r \in Runs, ReadPins(r) \/ RefreshCut(r) PROVE RunsOK'
  <2>1. run[r] \in RenderRun /\ job[run[r].job].kind = "render" /\ run[r].pc \in RenderPC
    BY <1>5, Execution DEF ReadPins, RefreshCut, RenderPC, Types
  <2>2. ASSUME NEW p \in {"resolve", "permanent"}, Goto(r, p) PROVE RunsOK'
    BY <1>j, <1>e, <2>1, <2>2, GotoRun DEF RenderPC, Ending
  <2>3. CASE run' = [run EXCEPT ![r].pins = pins, ![r].pc = "beat"]
    <3> DEFINE x == [[run[r] EXCEPT !.pins = pins] EXCEPT !.pc = "beat"]
    <3>1. run' = [run EXCEPT ![r] = x] /\ x \in RenderRun /\ x.job = run[r].job
      BY <2>1, <2>3 DEF RenderRun, RenderPC, Types, CutOK, RunsOK
    <3>2. QED
      BY <1>j, <2>1, <3>1, RunUpdate
  <2>4. CASE run' = [run EXCEPT ![r].pc = "stamp", ![r].guide = guide,
                                ![r].pins = pins, ![r].status = status]
    <3> DEFINE x == [[[[run[r] EXCEPT !.pc = "stamp"] EXCEPT !.guide = guide]
                       EXCEPT !.pins = pins] EXCEPT !.status = status]
    <3>1. run' = [run EXCEPT ![r] = x] /\ x \in RenderRun /\ x.job = run[r].job
      BY <2>1, <2>4 DEF RenderRun, RenderPC, Types, CutOK, RunsOK
    <3>2. QED
      BY <1>j, <2>1, <3>1, RunUpdate
  <2>5. QED
    BY <1>5, <2>2, <2>3, <2>4 DEF ReadPins, RefreshCut
<1>6. ASSUME NEW r \in Runs, WritePins(r) PROVE RunsOK'
  <2>1. run[r] \in RenderRun /\ job[run[r].job].kind = "render"
    BY <1>6, Execution DEF WritePins, RenderPC, Types
  <2>2. pins' \in SUBSET Pins
    BY <1>6, <2>1 DEF WritePins, RenderRun, Guides, Pins
  <2> DEFINE x == [[run[r] EXCEPT !.pins = pins'] EXCEPT !.pc = "beat"]
  <2>3. run' = [run EXCEPT ![r] = x] /\ x \in RenderRun /\ x.job = run[r].job
    BY <1>6, <2>1, <2>2 DEF WritePins, RenderRun, RenderPC, Types, RunsOK
  <2>4. QED
    BY <1>j, <2>1, <2>3, RunUpdate
<1>7. ASSUME NEW r \in Runs, BeatHeartbeat(r) \/ Composite(r) PROVE RunsOK'
  <2>1. run[r].pc \in RenderPC /\ \E p \in {"composite", "permanent", "refresh"} : Goto(r, p)
    BY <1>7 DEF BeatHeartbeat, Composite, RenderPC
  <2>2. QED
    BY <1>j, <1>e, <2>1, GotoRun DEF RenderPC, Ending
<1>8. ASSUME NEW r \in Runs, Gates(r) \/ HeartbeatBeforeUpload(r) \/ Upload(r) \/ RecordPost(r)
      PROVE  RunsOK'
  <2>1. /\ run[r].pc \in PublishPC
        /\ \E p \in {"permanent", "finalize", "gated", "read", "posted"} : Goto(r, p)
    BY <1>8 DEF Gates, HeartbeatBeforeUpload, Upload, RecordPost, PublishPC
  <2>2. QED
    BY <1>j, <1>e, <2>1, GotoRun DEF PublishPC, Ending
<1>9. ASSUME NEW r \in Runs, ReadVideo(r) PROVE RunsOK'
  <2>1. run[r] \in PublishRun /\ job[run[r].job].kind = "publish"
    BY <1>9, Execution DEF ReadVideo, PublishPC, Types
  <2> DEFINE x == [[run[r] EXCEPT !.pc = "upload"] EXCEPT !.sends = file]
  <2>2. run' = [run EXCEPT ![r] = x] /\ x \in PublishRun /\ x.job = run[r].job
    BY <1>9, <2>1 DEF ReadVideo, PublishRun, PublishPC, Types, CutOK, RunsOK
  <2>3. QED
    BY <1>j, <2>1, <2>2, RunUpdate
<1>10. ASSUME NEW r \in Runs, EndRun(r) PROVE RunsOK'
  BY <1>10, <1>j, RunUpdate DEF EndRun
<1>11. ASSUME NEW r \in Runs, StampRender(r) \/ StampPublish(r) PROVE RunsOK'
  <2>1. run[r].pc \in RenderPC \cup PublishPC /\ (Goto(r, "permanent") \/ EndRun(r))
    BY <1>11 DEF StampRender, StampPublish, RenderPC, PublishPC
  <2>2. QED
    BY <1>j, <1>e, <1>10, <2>1, GotoRun DEF Ending
<1>12. ASSUME NEW r \in Runs, Raise(r) PROVE RunsOK'
  BY <1>12, <1>j, <1>e, GotoRun DEF Raise, Ending
<1>13. ASSUME NEW r \in Runs, Settle(r) \/ Kill(r) PROVE RunsOK'
  BY <1>13, <1>10 DEF Settle, Kill
<1>14. QED
  BY <1>1, <1>2, <1>3, <1>4, <1>5, <1>6, <1>7, <1>8, <1>9, <1>11, <1>12, <1>13
  DEF Next, Start, Render, Publish

LEMMA TypesStep == Types /\ [Next]_vars => Types'
<1> SUFFICES ASSUME Types, [Next]_vars PROVE Types'
  OBVIOUS
<1>1. JobsOK' /\ RunsOK' /\ status' \in CutStatus
  BY EveryStepIsJobChange, KindsStay, RunsStep
<1> DEFINE Data == /\ guide \in Guides /\ pins \in SUBSET Pins /\ file \in SUBSET Content
                   /\ row \in SUBSET Content /\ post \in SUBSET Content
<1>2. Data
  BY DEF Types, CutOK
<1>3. ASSUME UNCHANGED <<guide, pins, file, row, post>> PROVE Data'
  BY <1>2, <1>3
<1>4. ASSUME UpdateCut PROVE Data'
  BY <1>2, <1>4 DEF UpdateCut
<1>5. ASSUME NEW r \in Runs, WritePins(r) PROVE Data'
  <2>1. run[r] \in RenderRun
    BY <1>5, Execution DEF WritePins, RenderPC, Types
  <2>2. pins' \in SUBSET Pins
    BY <1>5, <2>1 DEF WritePins, RenderRun, Guides, Pins
  <2>3. QED
    BY <1>2, <1>5, <2>2 DEF WritePins
<1>6. ASSUME NEW r \in Runs, Composite(r) PROVE Data'
  <2>1. run[r] \in RenderRun
    BY <1>6, Execution DEF Composite, RenderPC, Types
  <2>2. file' \in SUBSET Content
    BY <1>6, <2>1 DEF Composite, RenderRun, Content
  <2>3. QED
    BY <1>2, <1>6, <2>2 DEF Composite
<1>7. ASSUME NEW r \in Runs, StampRender(r) PROVE Data'
  <2>1. run[r] \in RenderRun
    BY <1>7, Execution DEF StampRender, RenderPC, Types
  <2>2. row' \in SUBSET Content /\ UNCHANGED <<guide, pins, file, post>>
    BY <1>2, <1>7, <2>1 DEF StampRender, RenderRun, Content, cut
  <2>3. QED
    BY <1>2, <2>2
<1>8. ASSUME NEW r \in Runs, RecordPost(r) PROVE Data'
  <2>1. run[r] \in PublishRun
    BY <1>8, Execution DEF RecordPost, PublishPC, Types
  <2>2. post' \in SUBSET Content
    BY <1>8, <2>1 DEF RecordPost, PublishRun
  <2>3. QED
    BY <1>2, <1>8, <2>2 DEF RecordPost
<1>9. ASSUME NEW j \in Jobs, Operator(j) \/ Reaper(j)
      PROVE  UNCHANGED <<guide, pins, file, row, post>>
  BY <1>9 DEF Operator, TriggerRender, TriggerPublish, NewJob, Reaper, FailPending, Reap,
              ReapDoneOrphan, FailJob, cut
<1>10. ASSUME NEW j \in Jobs, NEW r \in Runs, Start(j, r)
       PROVE  UNCHANGED <<guide, pins, file, row, post>>
  BY <1>10 DEF Start, StartRender, StartPublish, cut
<1>11. ASSUME NEW r \in Runs,
              \/ ReadPins(r) \/ BeatHeartbeat(r) \/ RefreshCut(r) \/ Gates(r)
              \/ HeartbeatBeforeUpload(r) \/ ReadVideo(r) \/ Upload(r) \/ StampPublish(r)
              \/ Raise(r) \/ Settle(r) \/ Kill(r)
       PROVE  UNCHANGED <<guide, pins, file, row, post>>
  BY <1>11 DEF ReadPins, BeatHeartbeat, RefreshCut, Gates, HeartbeatBeforeUpload, ReadVideo,
               Upload, StampPublish, Raise, Settle, Kill, FailJob, cut
<1>12. ASSUME ApproveCut \/ UNCHANGED vars PROVE Data'
  BY <1>3, <1>12 DEF ApproveCut, vars, cut
<1>13. Data'
  BY <1>3, <1>4, <1>5, <1>6, <1>7, <1>8, <1>9, <1>10, <1>11, <1>12 DEF Next, Render, Publish
<1>14. QED
  BY <1>1, <1>13 DEF Types, CutOK

(* The cut, its jobs and what each execution keeps in its session have     *)
(* their types, and an execution runs a body of its job's kind.            *)
THEOREM TypesHold == Spec => []Types
<1>1. Init => Types
  BY DEF Init, Types, CutOK, CutStatus, JobsOK, JobRecords, NoJob, RunsOK, Unused,
         RenderPC, PublishPC, Ending
<1>2. QED
  BY <1>1, TypesStep, PTL DEF Spec

-----------------------------------------------------------------------------
(* One job in flight.                                                      *)

(* OneJobInFlight in first-order form.                                     *)
Flight ==
  /\ \A i, j \in Jobs : Flying(i) /\ Flying(j) => i = j
  /\ \A k \in Kinds : status = InFlight[k] <=> \E j \in Jobs : Flying(j) /\ job[j].kind = k

FlightInv == Misreaped \/ Flight

(* A step that does not misreap a job keeps the flight.                    *)
LEMMA FlightStep ==
  ASSUME Types, JobChange, FlightInv
  PROVE  FlightInv'
<1> USE DEF Types, JobsOK, JobRecords, Flying, Kinds, InFlight
<1>1. CASE Misreaped
  <2>1. PICK j \in Jobs : job[j].misreaped = TRUE
    BY <1>1 DEF Misreaped
  <2>2. job'[j].misreaped = TRUE
    BY <2>1, KindsStay
  <2>3. QED
    BY <2>2 DEF FlightInv, Misreaped
<1>2. CASE Flight /\ (Quiet \/ Approved)
  BY <1>2 DEF Flight, FlightInv, Quiet, Approved
<1>3. ASSUME Flight, NEW j \in Jobs, NEW k \in Kinds, Created(j, k) PROVE Flight'
  <2>1. \A i \in Jobs : ~Flying(i)
    <3>1. status # InFlight["render"] /\ status # InFlight["publish"]
      BY <1>3 DEF Created
    <3>2. \A i \in Jobs : Flying(i) => job[i].kind \in Kinds
      OBVIOUS
    <3>3. QED
      BY <1>3, <3>1, <3>2 DEF Flight
  <2>2. /\ job'[j].status = "pending" /\ job'[j].kind = k
        /\ \A i \in Jobs \ {j} : job'[i] = job[i]
    BY <1>3 DEF Created
  <2>3. status' = InFlight[k]
    BY <1>3 DEF Created
  <2>4. QED
    BY <2>1, <2>2, <2>3 DEF Flight
<1>4. ASSUME Flight, NEW j \in Jobs, NEW s \in {"pending", "running"}, Moved(j, s) PROVE Flight'
  <2>1. /\ Flying(j) /\ job'[j].status = s /\ job'[j].kind = job[j].kind
        /\ \A i \in Jobs \ {j} : job'[i] = job[i]
        /\ status' = status
    BY <1>4 DEF Moved
  <2>2. \A i \in Jobs : (Flying(i) <=> job'[i].status \in {"pending", "running"})
                        /\ job'[i].kind = job[i].kind
    BY <2>1
  <2>3. QED
    BY <1>4, <2>1, <2>2 DEF Flight
<1>5. ASSUME Flight, NEW j \in Jobs, Failed(j) \/ Completed(j) PROVE Flight'
  <2>1. /\ Flying(j) /\ job'[j].status \in {"done", "failed"}
        /\ \A i \in Jobs \ {j} : job'[i] = job[i]
    BY <1>5 DEF Failed, Completed
  <2>2. \A i \in Jobs : job'[i].status \notin {"pending", "running"}
    BY <1>5, <2>1 DEF Flight
  <2>3. job[j].kind \in Kinds /\ status = InFlight[job[j].kind]
    BY <1>5, <2>1 DEF Flight
  <2>4. status' \in {"failed", "in_review", "published"}
    BY <1>5, <2>3 DEF Failed, Completed, RolledBack
  <2>5. QED
    BY <2>2, <2>4 DEF Flight
<1>6. ASSUME NEW j \in Jobs, Orphaned(j) PROVE Misreaped'
  BY <1>6 DEF Orphaned, Misreaped
<1>7. QED
  BY <1>1, <1>2, <1>3, <1>4, <1>5, <1>6 DEF FlightInv, JobChange

(* FlightInv is the property without cardinalities.                        *)
LEMMA FlightIsOne == Types /\ FlightInv => OneJobInFlight
<1> SUFFICES ASSUME Types, Flight, ~Misreaped PROVE OneJobInFlight
  BY DEF FlightInv, OneJobInFlight
<1> DEFINE flying == {j \in Jobs : job[j].status \in {"pending", "running"}}
<1>1. Cardinality(flying) <= 1
  <2>1. CASE flying = {}
    BY <2>1, FS_EmptySet
  <2>2. ASSUME NEW j \in flying PROVE Cardinality(flying) = 1
    <3>1. flying = {j}
      BY DEF Flight, Flying
    <3>2. QED
      BY <3>1, FS_Singleton
  <2>3. QED
    BY <2>1, <2>2
<1>2. \A k \in DOMAIN InFlight : status = InFlight[k] <=> \E j \in flying : job[j].kind = k
  BY DEF Flight, Flying, Kinds, InFlight
<1>3. QED
  BY <1>1, <1>2 DEF OneJobInFlight

LEMMA FlightHolds == Spec => []FlightInv
<1>1. Init => FlightInv
  BY DEF Init, FlightInv, Flight, Flying, NoJob, Kinds, InFlight
<1>2. Types /\ FlightInv /\ [Next]_vars => FlightInv'
  BY FlightStep, EveryStepIsJobChange
<1>3. QED
  BY <1>1, <1>2, TypesHold, PTL DEF Spec

(* At most one render or publish job is in flight, and the cut says which, *)
(* until the done-orphan sweep takes an old job for its owner: the routes  *)
(* create a job only for a cut that is in flight for none.                 *)
THEOREM OneJobAtATime == Spec => []OneJobInFlight
BY TypesHold, FlightHolds, FlightIsOne, PTL

(* The cut follows CUT_TRANSITIONS although bodies write its status on the *)
(* strength of an earlier read: a run that holds its job knows the status. *)
THEOREM TransitionsFollowed == Spec => CutFollowsTransitions
<1>1. Types /\ FlightInv /\ JobChange /\ ~Misreaped' /\ status' # status
        => <<status, status'>> \in Transitions
  <2> SUFFICES ASSUME Types, FlightInv, JobChange, ~Misreaped', status' # status
               PROVE  <<status, status'>> \in Transitions
    OBVIOUS
  <2> USE DEF Transitions, Kinds, InFlight
  <2>1. Flight
    <3>1. ~Misreaped
      BY KindsStay DEF Misreaped, Types, JobsOK, JobRecords
    <3>2. QED
      BY <3>1 DEF FlightInv
  <2>2. CASE Quiet \/ Approved
    BY <2>2 DEF Quiet, Approved
  <2>3. ASSUME NEW j \in Jobs, NEW k \in Kinds, Created(j, k)
        PROVE  <<status, status'>> \in Transitions
    BY <2>3 DEF Created
  <2>4. ASSUME NEW j \in Jobs, Failed(j) \/ Completed(j)
        PROVE  <<status, status'>> \in Transitions
    <3>1. job[j].kind \in Kinds /\ Flying(j)
      BY <2>4 DEF Failed, Completed, Flying, Types, JobsOK, JobRecords
    <3>2. status = InFlight[job[j].kind]
      BY <2>1, <3>1 DEF Flight
    <3>3. QED
      BY <2>4, <3>1, <3>2 DEF Failed, Completed, RolledBack
  <2>5. ASSUME NEW j \in Jobs, Orphaned(j) PROVE FALSE
    BY <2>5 DEF Orphaned, Misreaped, Types, JobsOK, JobRecords
  <2>6. QED
    BY <2>2, <2>3, <2>4, <2>5 DEF JobChange, Moved
<1>2. Types /\ FlightInv /\ [Next]_vars
        => [Misreaped' \/ (status' # status => <<status, status'>> \in Transitions)]_vars
  BY <1>1, EveryStepIsJobChange
<1>3. QED
  BY <1>2, TypesHold, FlightHolds, PTL DEF Spec, CutFollowsTransitions

-----------------------------------------------------------------------------
(* What is never empty again: the file once a render composed it, the row  *)
(* once one recorded it, the post once a publish did.                      *)
Filled ==
  /\ row # {} => file # {}
  /\ \A j \in Jobs : /\ job[j].kind = "publish" => row # {}
                     /\ job[j].posted = TRUE => post # {}
  /\ \A r \in Runs :
       /\ run[r].pc \in {"refresh", "stamp"} => file # {}
       /\ run[r].pc \in {"upload", "posted"} => run[r].sends # {}
       /\ run[r].pc \in {"gated", "read"} => run[r].post = {}
       /\ run[r].pc \in {"gates", "gated", "read"} /\ job[run[r].job].posted = TRUE
            => run[r].post # {}

(* The file, the row and the post are never empty again.                   *)
LEMMA DataStep ==
  ASSUME Types, Filled, [Next]_vars
  PROVE  /\ file # {} => file' # {}
         /\ row # {} => row' # {}
         /\ post # {} => post' # {}
         /\ row' # {} => row # {} \/ file # {}
<1> DEFINE Goal == /\ file # {} => file' # {}
                   /\ row # {} => row' # {}
                   /\ post # {} => post' # {}
                   /\ row' # {} => row # {} \/ file # {}
<1>1. ASSUME UNCHANGED <<file, row, post>> PROVE Goal
  BY <1>1
<1>2. ASSUME NEW r \in Runs, Composite(r) PROVE Goal
  BY <1>2 DEF Composite
<1>3. ASSUME NEW r \in Runs, StampRender(r) PROVE Goal
  BY <1>3 DEF StampRender, Filled, cut
<1>4. ASSUME NEW r \in Runs, RecordPost(r) PROVE Goal
  BY <1>4 DEF RecordPost, Filled
<1>5. ASSUME NEW j \in Jobs, Operator(j) \/ Reaper(j) PROVE UNCHANGED <<file, row, post>>
  BY <1>5 DEF Operator, TriggerRender, TriggerPublish, NewJob, Reaper, FailPending, Reap,
              ReapDoneOrphan, FailJob, cut
<1>6. ASSUME NEW j \in Jobs, NEW r \in Runs, Start(j, r) PROVE UNCHANGED <<file, row, post>>
  BY <1>6 DEF Start, StartRender, StartPublish, cut
<1>7. ASSUME NEW r \in Runs,
             \/ ReadPins(r) \/ WritePins(r) \/ BeatHeartbeat(r) \/ RefreshCut(r) \/ Gates(r)
             \/ HeartbeatBeforeUpload(r) \/ ReadVideo(r) \/ Upload(r) \/ StampPublish(r)
             \/ Raise(r) \/ Settle(r) \/ Kill(r)
      PROVE  UNCHANGED <<file, row, post>>
  BY <1>7 DEF ReadPins, WritePins, BeatHeartbeat, RefreshCut, Gates, HeartbeatBeforeUpload,
              ReadVideo, Upload, StampPublish, Raise, Settle, Kill, FailJob, cut
<1>8. ASSUME UpdateCut \/ ApproveCut \/ UNCHANGED vars PROVE UNCHANGED <<file, row, post>>
  BY <1>8 DEF UpdateCut, ApproveCut, vars, cut
<1>9. QED
  BY <1>1, <1>2, <1>3, <1>4, <1>5, <1>6, <1>7, <1>8 DEF Next, Render, Publish

-----------------------------------------------------------------------------
(* How the executions and the uploads change together.                     *)

(* Past the upload of a publish run, or ending.                            *)
Late == {"upload", "posted", "finalize"} \cup Ending

(* Run r goes on. It keeps its job, and comes to a point past the gates    *)
(* only through them.                                                      *)
Goes(r) ==
  /\ Executing(r)
  /\ \A s \in Runs \ {r} : run'[s] = run[s]
  /\ run'[r] = Over \/
       /\ run'[r].job = run[r].job /\ run'[r].pc # "gates"
       /\ run[r].pc \in Late => run'[r].pc \in Late
       /\ run'[r].pc \in {"refresh", "stamp"} => file' # {}
       /\ run'[r].pc \in {"upload", "posted"} => run'[r].sends # {}
       /\ run'[r].pc \in {"gated", "read"} => run[r].post = {} /\ run'[r].post = {}
       /\ run'[r].pc \in {"gated", "read"} => run[r].pc \in {"gates", "gated"}

Sends(r) ==
  /\ Goes(r) /\ run[r].pc = "read" /\ run'[r].pc = "upload"
  /\ uploads' = uploads \cup
       {[job |-> run[r].job, run |-> r, live |-> Live(r), sent |-> file,
         row |-> row, guide |-> guide]}
  /\ UNCHANGED job

Starts(j, r) ==
  /\ Start(j, r)
  /\ ~Executing(r) /\ job[j].status = "pending" /\ job'[j].status = "running"
  /\ \A s \in Runs \ {r} : run'[s] = run[s]
  /\ run'[r].job = j
  /\ \/ job[j].kind = "render" /\ run'[r].pc \in {"pins", "permanent"}
     \/ job[j].kind = "publish" /\ run'[r].pc = "gates" /\ run'[r].post = post

RunChange ==
  \/ UNCHANGED <<run, uploads>>
  \/ \E r \in Runs : Goes(r) /\ UNCHANGED uploads
  \/ \E r \in Runs : Sends(r)
  \/ \E j \in Jobs, r \in Runs : Starts(j, r) /\ UNCHANGED uploads

(* A control step moves one run and keeps its post and its sends.          *)
LEMMA GotoEffect ==
  ASSUME Types, NEW r \in Runs, Executing(r), NEW p, Goto(r, p)
  PROVE  /\ \A s \in Runs \ {r} : run'[s] = run[s]
         /\ run'[r].pc = p /\ run'[r].job = run[r].job
         /\ run[r] \in PublishRun => run'[r].post = run[r].post /\ run'[r].sends = run[r].sends
<1>1. run'[r] = [run[r] EXCEPT !.pc = p] /\ \A s \in Runs \ {r} : run'[s] = run[s]
  BY DEF Goto, Types, RunsOK
<1>2. run[r] \in RenderRun \/ run[r] \in PublishRun
  BY Execution DEF Types, RunsOK
<1>3. CASE run[r] \in PublishRun
  BY <1>1, <1>3 DEF PublishRun
<1>4. CASE run[r] \in RenderRun /\ run[r] \notin PublishRun
  BY <1>1, <1>4 DEF RenderRun
<1>5. QED
  BY <1>2, <1>3, <1>4

(* A move to a point that asks for nothing.                                *)
LEMMA PlainGoto ==
  ASSUME Types, NEW r \in Runs, Executing(r), NEW p, Goto(r, p),
         \/ p \in {"permanent", "transient", "finalize"}
         \/ p \in {"resolve", "composite"} /\ run[r].pc \in RenderPC
  PROVE  Goes(r)
BY GotoEffect DEF Goes, Late, Ending, RenderPC

LEMMA EndGoes ==
  ASSUME Types, NEW r \in Runs, Executing(r), EndRun(r)
  PROVE  Goes(r)
BY DEF Goes, EndRun, Types, RunsOK

LEMMA EveryStepIsRunChange == Types /\ Filled /\ [Next]_vars => RunChange
<1> SUFFICES ASSUME Types, Filled, [Next]_vars PROVE RunChange
  OBVIOUS
<1> USE DEF cut
<1>e. \A r \in Runs : run[r].pc \in RenderPC \cup PublishPC \cup Ending => Executing(r)
  BY Execution DEF Types
<1>1. CASE UpdateCut \/ ApproveCut \/ UNCHANGED vars
  BY <1>1 DEF UpdateCut, ApproveCut, vars, RunChange
<1>2. ASSUME NEW j \in Jobs, Operator(j) \/ Reaper(j) PROVE RunChange
  BY <1>2 DEF Operator, TriggerRender, TriggerPublish, NewJob, Reaper, FailPending, Reap,
              ReapDoneOrphan, RunChange
<1>3. ASSUME NEW j \in Jobs, NEW r \in Runs, Start(j, r) PROVE RunChange
  <2>1. ~Executing(r) /\ job[j].status = "pending" /\ job'[j].status = "running"
    BY <1>3 DEF Start, StartRender, StartPublish, Executing, Unused, SetJob, Types, JobsOK,
                JobRecords
  <2>2. /\ \A s \in Runs \ {r} : run'[s] = run[s]
        /\ run'[r].job = j
        /\ \/ job[j].kind = "render" /\ run'[r].pc \in {"pins", "permanent"}
           \/ job[j].kind = "publish" /\ run'[r].pc = "gates" /\ run'[r].post = post
    BY <1>3 DEF Start, StartRender, StartPublish, Types, RunsOK
  <2>3. UNCHANGED uploads
    BY <1>3 DEF Start, StartRender, StartPublish
  <2>4. QED
    BY <1>3, <2>1, <2>2, <2>3 DEF Starts, RunChange
<1>4. ASSUME NEW r \in Runs, ReadPins(r) \/ WritePins(r) PROVE RunChange
  <2>1. run[r] \in RenderRun /\ run[r].pc \in {"pins", "resolve"} /\ Executing(r)
    BY <1>4, <1>e, Execution DEF ReadPins, WritePins, RenderPC, Types
  <2>2. CASE Goto(r, "resolve")
    BY <1>4, <2>1, <2>2, PlainGoto DEF ReadPins, WritePins, RenderPC, RunChange
  <2>3. CASE \E q \in {pins, pins'} : run' = [run EXCEPT ![r].pins = q, ![r].pc = "beat"]
    <3>1. PICK q \in {pins, pins'} : run' = [run EXCEPT ![r].pins = q, ![r].pc = "beat"]
      BY <2>3
    <3>2. /\ \A s \in Runs \ {r} : run'[s] = run[s]
          /\ run'[r].pc = "beat" /\ run'[r].job = run[r].job
      BY <2>1, <3>1 DEF RenderRun, Types, RunsOK
    <3>3. Goes(r)
      BY <2>1, <3>2 DEF Goes, Late, Ending
    <3>4. QED
      BY <1>4, <3>3 DEF ReadPins, WritePins, RunChange
  <2>4. QED
    BY <1>4, <2>2, <2>3 DEF ReadPins, WritePins
<1>5. ASSUME NEW r \in Runs, BeatHeartbeat(r) PROVE RunChange
  BY <1>5, <1>e, PlainGoto DEF BeatHeartbeat, RenderPC, RunChange
<1>6. ASSUME NEW r \in Runs, Composite(r) PROVE RunChange
  <2>1. Executing(r) /\ run[r].pc = "composite" /\ Goto(r, "refresh") /\ file' # {}
    BY <1>6, <1>e DEF Composite, RenderPC
  <2>2. Goes(r)
    BY <2>1, GotoEffect DEF Goes, Late, Ending
  <2>3. QED
    BY <1>6, <2>2 DEF Composite, RunChange
<1>7. ASSUME NEW r \in Runs, RefreshCut(r) PROVE RunChange
  <2>1. /\ run[r] \in RenderRun /\ run[r].pc = "refresh" /\ Executing(r)
        /\ file' # {} /\ UNCHANGED uploads
    BY <1>7, <1>e, Execution DEF RefreshCut, RenderPC, Types, Filled
  <2>2. CASE Goto(r, "permanent")
    BY <2>1, <2>2, PlainGoto DEF RunChange
  <2>3. CASE run' = [run EXCEPT ![r].pc = "stamp", ![r].guide = guide,
                                ![r].pins = pins, ![r].status = status]
    <3>1. /\ \A s \in Runs \ {r} : run'[s] = run[s]
          /\ run'[r].pc = "stamp" /\ run'[r].job = run[r].job
      BY <2>1, <2>3 DEF RenderRun, Types, RunsOK
    <3>2. Goes(r)
      BY <2>1, <3>1 DEF Goes, Late, Ending
    <3>3. QED
      BY <2>1, <3>2 DEF RunChange
  <2>4. QED
    BY <1>7, <2>2, <2>3 DEF RefreshCut
<1>8. ASSUME NEW r \in Runs, Gates(r) \/ HeartbeatBeforeUpload(r) PROVE RunChange
  <2>1. /\ run[r] \in PublishRun /\ run[r].pc \in {"gates", "gated"} /\ Executing(r)
        /\ UNCHANGED uploads
    BY <1>8, <1>e, Execution DEF Gates, HeartbeatBeforeUpload, PublishPC, Types
  <2>2. ASSUME NEW p \in {"permanent", "finalize"}, Goto(r, p) PROVE RunChange
    BY <2>1, <2>2, PlainGoto DEF RunChange
  <2>3. ASSUME NEW p \in {"gated", "read"}, Goto(r, p), run[r].post = {} PROVE RunChange
    <3>1. Goes(r)
      BY <2>1, <2>3, GotoEffect DEF Goes, Late, Ending
    <3>2. QED
      BY <2>1, <3>1 DEF RunChange
  <2>4. QED
    BY <1>8, <2>2, <2>3 DEF Gates, HeartbeatBeforeUpload, Filled
<1>9. ASSUME NEW r \in Runs, ReadVideo(r) PROVE RunChange
  <2>1. /\ run[r] \in PublishRun /\ run[r].pc = "read" /\ Executing(r)
        /\ job[run[r].job].kind = "publish" /\ run[r].job \in Jobs
    BY <1>9, <1>e, Execution DEF ReadVideo, PublishPC, Types
  <2>2. file # {}
    BY <2>1 DEF Filled
  <2>3. /\ \A s \in Runs \ {r} : run'[s] = run[s]
        /\ run'[r].pc = "upload" /\ run'[r].job = run[r].job /\ run'[r].sends = file
    BY <1>9, <2>1 DEF ReadVideo, PublishRun, Types, RunsOK
  <2>4. Goes(r)
    BY <2>1, <2>2, <2>3 DEF Goes, Late, Ending
  <2>5. QED
    BY <1>9, <2>1, <2>3, <2>4 DEF ReadVideo, Sends, RunChange
<1>10. ASSUME NEW r \in Runs, Upload(r) PROVE RunChange
  <2>1. /\ run[r] \in PublishRun /\ run[r].pc = "upload" /\ Executing(r)
        /\ run[r].sends # {} /\ Goto(r, "posted") /\ UNCHANGED uploads
    BY <1>10, <1>e, Execution DEF Upload, PublishPC, Types, Filled
  <2>2. Goes(r)
    BY <2>1, GotoEffect DEF Goes, Late, Ending
  <2>3. QED
    BY <2>1, <2>2 DEF RunChange
<1>11. ASSUME NEW r \in Runs, RecordPost(r) PROVE RunChange
  BY <1>11, <1>e, PlainGoto DEF RecordPost, PublishPC, RunChange
<1>12. ASSUME NEW r \in Runs, StampRender(r) \/ StampPublish(r) PROVE RunChange
  <2>1. Executing(r) /\ UNCHANGED uploads /\ (Goto(r, "permanent") \/ EndRun(r))
    BY <1>12, <1>e DEF StampRender, StampPublish, RenderPC, PublishPC
  <2>2. QED
    BY <2>1, PlainGoto, EndGoes DEF RunChange
<1>13. ASSUME NEW r \in Runs, Raise(r) PROVE RunChange
  BY <1>13, <1>e, PlainGoto DEF Raise, RunChange
<1>14. ASSUME NEW r \in Runs, Settle(r) \/ Kill(r) PROVE RunChange
  <2>1. Executing(r) /\ EndRun(r) /\ UNCHANGED uploads
    BY <1>14, <1>e DEF Settle, Kill, Ending
  <2>2. QED
    BY <2>1, EndGoes DEF RunChange
<1>15. QED
  BY <1>1, <1>2, <1>3, <1>4, <1>5, <1>6, <1>7, <1>8, <1>9, <1>10, <1>11, <1>12, <1>13, <1>14
  DEF Next, Render, Publish

-----------------------------------------------------------------------------
(* A publish job uploads at most once.                                     *)

(* What a step may do to a publish job: it never becomes pending again.    *)
LEMMA JobFacts ==
  ASSUME Types, JobChange, NEW j \in Jobs
  PROVE  /\ job'[j].kind = "publish" => job[j].kind = "publish" \/ row # {}
         /\ job'[j].posted = TRUE => job[j].posted = TRUE \/ (job[j].kind = "none" /\ post # {})
         /\ job[j].kind = "publish" /\ job[j].status \notin {"none", "pending"}
              => job'[j].status \notin {"none", "pending"}
<1> USE DEF Types, JobsOK, JobRecords
<1>1. CASE Quiet \/ Approved
  BY <1>1 DEF Quiet, Approved
<1>2. ASSUME NEW i \in Jobs, NEW k \in Kinds, Created(i, k)
      PROVE  /\ job'[j].kind = "publish" => job[j].kind = "publish" \/ row # {}
             /\ job'[j].posted = TRUE
                  => job[j].posted = TRUE \/ (job[j].kind = "none" /\ post # {})
             /\ job[j].kind = "publish" /\ job[j].status \notin {"none", "pending"}
                  => job'[j].status \notin {"none", "pending"}
  BY <1>2 DEF Created, Kinds, NoJob
<1>3. ASSUME NEW i \in Jobs,
             \/ \E s \in {"pending", "running"} : Moved(i, s)
             \/ Failed(i) \/ Completed(i) \/ Orphaned(i)
      PROVE  /\ job'[j].kind = job[j].kind /\ job'[j].posted = job[j].posted
             /\ job[j].kind = "publish" /\ job[j].status \notin {"none", "pending"}
                  => job'[j].status \notin {"none", "pending"}
  BY <1>3 DEF Moved, Failed, Completed, Orphaned, Flying
<1>4. QED
  BY <1>1, <1>2, <1>3 DEF JobChange

LEMMA FilledStep == Types /\ Filled /\ [Next]_vars => Filled'
<1> SUFFICES ASSUME Types, Filled, [Next]_vars PROVE Filled'
  OBVIOUS
<1>1. JobChange /\ RunChange
  BY EveryStepIsJobChange, EveryStepIsRunChange
<1>2. row' # {} => file' # {}
  BY DataStep DEF Filled
<1>3. \A j \in Jobs : /\ job'[j].kind = "publish" => row' # {}
                      /\ job'[j].posted = TRUE => post' # {}
  BY <1>1, JobFacts, DataStep DEF Filled
<1>4. \A r \in Runs : Executing(r) => /\ run[r].job \in Jobs
                                      /\ job[run[r].job].kind # "none"
                                      /\ job'[run[r].job].posted = TRUE
                                           => job[run[r].job].posted = TRUE
  <2> SUFFICES ASSUME NEW r \in Runs, Executing(r)
               PROVE  /\ run[r].job \in Jobs
                      /\ job[run[r].job].kind # "none"
                      /\ job'[run[r].job].posted = TRUE => job[run[r].job].posted = TRUE
    OBVIOUS
  <2>1. run[r].job \in Jobs /\ job[run[r].job].kind # "none"
    BY Execution DEF Types, RunsOK
  <2>2. QED
    BY <1>1, <2>1, JobFacts
<1> DEFINE Good(r) ==
      /\ run[r].pc \in {"refresh", "stamp"} => file # {}
      /\ run[r].pc \in {"upload", "posted"} => run[r].sends # {}
      /\ run[r].pc \in {"gated", "read"} => run[r].post = {}
      /\ run[r].pc \in {"gates", "gated", "read"} /\ job[run[r].job].posted = TRUE
           => run[r].post # {}
<1>5. ASSUME NEW r \in Runs, run'[r] = run[r] PROVE Good(r)'
  <2>1. run[r].pc \in {"gates", "gated", "read"} => Executing(r)
    BY DEF Executing
  <2>2. QED
    BY <1>4, <1>5, <2>1, DataStep DEF Filled
<1>6. ASSUME NEW r \in Runs, Goes(r) PROVE Good(r)'
  <2>1. CASE run'[r] = Over
    BY <2>1 DEF Over
  <2>2. CASE run'[r] # Over
    <3>1. run'[r].job = run[r].job /\ run'[r].pc # "gates"
      BY <1>6, <2>2 DEF Goes
    <3>2. /\ run'[r].pc \in {"refresh", "stamp"} => file' # {}
          /\ run'[r].pc \in {"upload", "posted"} => run'[r].sends # {}
          /\ run'[r].pc \in {"gated", "read"} =>
               run'[r].post = {} /\ run[r].post = {} /\ run[r].pc \in {"gates", "gated"}
      BY <1>6, <2>2 DEF Goes
    <3>3. run'[r].pc \in {"gated", "read"} => job'[run'[r].job].posted # TRUE
      BY <1>4, <1>6, <3>1, <3>2 DEF Filled, Goes
    <3>4. QED
      BY <3>1, <3>2, <3>3
  <2>3. QED
    BY <2>1, <2>2
<1>7. ASSUME NEW j \in Jobs, NEW r \in Runs, Starts(j, r) PROVE Good(r)'
  <2>1. CASE run'[r].pc \in {"pins", "permanent"}
    BY <2>1
  <2>2. CASE run'[r].pc = "gates" /\ run'[r].post = post /\ run'[r].job = j
             /\ job[j].kind = "publish"
    BY <1>1, <2>2, JobFacts DEF Filled
  <2>3. QED
    BY <1>7, <2>1, <2>2 DEF Starts
<1>8. ASSUME NEW r \in Runs PROVE Good(r)'
  <2>1. \/ run'[r] = run[r] \/ Goes(r)
        \/ \E j \in Jobs : Starts(j, r)
    BY <1>1 DEF RunChange, Sends, Goes, Starts
  <2>2. QED
    BY <1>5, <1>6, <1>7, <2>1
<1>9. QED
  BY <1>2, <1>3, <1>8 DEF Filled

(* The run of a publish job that a message started is its only one, and an *)
(* upload of the job is that run's, past the point where it could upload.  *)
Claimed ==
  \A r \in Runs :
    Executing(r) /\ job[run[r].job].kind = "publish" =>
      /\ job[run[r].job].status \notin {"none", "pending"}
      /\ \A s \in Runs : Executing(s) /\ run[s].job = run[r].job => s = r

UploadOK(u) ==
  /\ u.job \in Jobs /\ u.run \in Runs
  /\ job[u.job].kind = "publish" /\ job[u.job].status \notin {"none", "pending"}
  /\ job[u.job].posted # TRUE
  /\ \A r \in Runs : Executing(r) /\ run[r].job = u.job => r = u.run /\ run[r].pc \in Late

Uploaded == \A u \in uploads : UploadOK(u)

OneRun == \A u, v \in uploads : u.job = v.job => u.run = v.run

OnceInv == Claimed /\ Uploaded /\ OneRun

(* An execution goes on with its job or was started by the message of a    *)
(* pending one.                                                            *)
LEMMA ExecutingNext ==
  ASSUME Types, RunChange, NEW s \in Runs, Executing(s)'
  PROVE  \/ Executing(s) /\ run'[s].job = run[s].job
            /\ (run[s].pc \in Late => run'[s].pc \in Late)
         \/ \E j \in Jobs : Starts(j, s) /\ run'[s].job = j /\ job[j].status = "pending"
<1>1. CASE run'[s] = run[s]
  BY <1>1 DEF Executing
<1>2. CASE Goes(s)
  <2>1. run'[s] # Over
    BY DEF Executing, Over
  <2>2. QED
    BY <1>2, <2>1 DEF Goes
<1>3. ASSUME NEW j \in Jobs, Starts(j, s)
      PROVE  run'[s].job = j /\ job[j].status = "pending"
  BY <1>3 DEF Starts
<1>4. QED
  BY <1>1, <1>2, <1>3 DEF RunChange, Sends, Goes, Starts

(* A publish job keeps its one run and its one upload.                     *)
LEMMA OnceStep ==
  ASSUME Types, Filled, OnceInv, [Next]_vars
  PROVE  OnceInv'
<1>1. JobChange /\ RunChange /\ Types'
  BY EveryStepIsJobChange, EveryStepIsRunChange, TypesStep
<1>j. \A r \in Runs : Executing(r) => run[r].job \in Jobs /\ job[run[r].job].kind # "none"
  BY Execution DEF Types, RunsOK
<1>2. Claimed'
  <2> SUFFICES ASSUME NEW r \in Runs, Executing(r)', job'[run'[r].job].kind = "publish"
               PROVE  /\ job'[run'[r].job].status \notin {"none", "pending"}
                      /\ \A s \in Runs : Executing(s)' /\ run'[s].job = run'[r].job => s = r
    BY DEF Claimed
  <2>1. CASE Executing(r) /\ run'[r].job = run[r].job
    <3>1. job[run[r].job].kind = "publish" /\ run[r].job \in Jobs
      BY <1>1, <1>j, <2>1, KindStays
    <3>2. job[run[r].job].status \notin {"none", "pending"}
      BY <2>1, <3>1 DEF OnceInv, Claimed
    <3>3. job'[run'[r].job].status \notin {"none", "pending"}
      BY <1>1, <2>1, <3>1, <3>2, JobFacts
    <3>4. ASSUME NEW s \in Runs, Executing(s)', run'[s].job = run'[r].job PROVE s = r
      <4>1. Executing(s) /\ run'[s].job = run[s].job
        BY <1>1, <2>1, <3>2, <3>4, ExecutingNext
      <4>2. QED
        BY <2>1, <3>1, <3>4, <4>1 DEF OnceInv, Claimed
    <3>5. QED
      BY <3>3, <3>4
  <2>2. ASSUME NEW j \in Jobs, Starts(j, r), run'[r].job = j, job[j].status = "pending"
        PROVE  /\ job'[run'[r].job].status \notin {"none", "pending"}
               /\ \A s \in Runs : Executing(s)' /\ run'[s].job = run'[r].job => s = r
    <3>1. job'[j].status = "running" /\ \A s \in Runs \ {r} : run'[s] = run[s]
      BY <2>2 DEF Starts
    <3>2. job[j].kind = "publish"
      BY <1>1, <2>2, KindStays DEF Types, JobsOK
    <3>3. ASSUME NEW s \in Runs \ {r}, Executing(s)', run'[s].job = j PROVE FALSE
      <4>1. Executing(s) /\ run[s].job = j
        BY <3>1, <3>3 DEF Executing
      <4>2. QED
        BY <2>2, <3>2, <4>1 DEF OnceInv, Claimed
    <3>4. QED
      BY <2>2, <3>1, <3>3
  <2>3. QED
    BY <1>1, <2>1, <2>2, ExecutingNext
<1>3. ASSUME NEW u \in uploads PROVE UploadOK(u)'
  <2>1. UploadOK(u)
    BY DEF OnceInv, Uploaded
  <2>2. /\ job'[u.job].kind = "publish" /\ job'[u.job].status \notin {"none", "pending"}
        /\ job'[u.job].posted # TRUE
    BY <1>1, <2>1, KindStays, JobFacts DEF UploadOK
  <2>3. ASSUME NEW r \in Runs, Executing(r)', run'[r].job = u.job
        PROVE  r = u.run /\ run'[r].pc \in Late
    <3>1. Executing(r) /\ run[r].job = u.job /\ (run[r].pc \in Late => run'[r].pc \in Late)
      BY <1>1, <2>1, <2>3, ExecutingNext DEF UploadOK
    <3>2. QED
      BY <2>1, <3>1 DEF UploadOK
  <2>4. QED
    BY <2>1, <2>2, <2>3 DEF UploadOK
<1>4. CASE UNCHANGED uploads
  BY <1>2, <1>3, <1>4 DEF OnceInv, Uploaded, OneRun
<1>5. ASSUME NEW r \in Runs, Sends(r) PROVE OnceInv'
  <2>0. PICK new : new = [job |-> run[r].job, run |-> r, live |-> Live(r), sent |-> file,
                          row |-> row, guide |-> guide]
    OBVIOUS
  <2>1. /\ uploads' = uploads \cup {new}
        /\ Executing(r) /\ run[r].pc = "read" /\ run'[r].pc = "upload"
        /\ run'[r].job = run[r].job /\ UNCHANGED job
        /\ \A s \in Runs \ {r} : run'[s] = run[s]
    BY <1>5, <2>0 DEF Sends, Goes, Over
  <2>2. /\ run[r].job \in Jobs /\ job[run[r].job].kind = "publish"
        /\ job[run[r].job].status \notin {"none", "pending"}
        /\ \A s \in Runs : Executing(s) /\ run[s].job = run[r].job => s = r
    BY <2>1, <1>j, Execution DEF OnceInv, Claimed, PublishPC, Types
  <2>3. job[run[r].job].posted # TRUE
    BY <2>1 DEF Filled
  <2>4. ASSUME NEW s \in Runs, Executing(s)', run'[s].job = run[r].job
        PROVE  s = r /\ run'[s].pc \in Late
    <3>1. s = r
      BY <2>1, <2>2, <2>4 DEF Executing
    <3>2. QED
      BY <2>1, <3>1 DEF Late
  <2>5. new.job = run[r].job /\ new.run = r
    BY <2>0
  <2>6. UploadOK(new)'
    BY <2>1, <2>2, <2>3, <2>4, <2>5 DEF UploadOK
  <2>7. \A u \in uploads : u.job # new.job
    <3>1. run[r].pc \notin Late
      BY <2>1 DEF Late, Ending
    <3>2. QED
      BY <2>1, <2>5, <3>1 DEF OnceInv, Uploaded, UploadOK
  <2>8. Uploaded' /\ OneRun'
    BY <1>3, <2>1, <2>6, <2>7 DEF OnceInv, Uploaded, OneRun
  <2>9. QED
    BY <1>2, <2>8 DEF OnceInv
<1>6. QED
  BY <1>1, <1>4, <1>5 DEF RunChange

LEMMA OnceInvHolds == Spec => [](Types /\ Filled /\ OnceInv)
<1> DEFINE Inv == Types /\ Filled /\ OnceInv
<1>1. Init => Inv
  <2>1. Init => Types
    BY DEF Init, Types, CutOK, CutStatus, JobsOK, JobRecords, NoJob, RunsOK, Unused,
           RenderPC, PublishPC, Ending
  <2>2. Init => Filled
    BY DEF Init, Filled, NoJob, Unused
  <2>3. Init => OnceInv
    BY DEF Init, OnceInv, Claimed, Uploaded, OneRun, Executing, Unused
  <2>4. QED
    BY <2>1, <2>2, <2>3
<1>2. Inv /\ [Next]_vars => Inv'
  BY TypesStep, FilledStep, OnceStep
<1>3. QED
  BY <1>1, <1>2, PTL DEF Spec

(* However its run is killed, reaped or redelivered, a publish job sends   *)
(* its video at most once, and never over a post that was recorded when it *)
(* was created: a publish is never pending again, its run reads the video  *)
(* once, and the cut's post is never forgotten.                            *)
THEOREM UploadsHappenOnce == Spec => []JobUploadsOnce
<1>1. Types /\ OnceInv => JobUploadsOnce
  BY DEF Types, JobsOK, JobRecords, OnceInv, Uploaded, UploadOK, OneRun, JobUploadsOnce
<1>2. QED
  BY <1>1, OnceInvHolds, PTL

-----------------------------------------------------------------------------
(* What the videos are, while the rendering worker runs one task at a time *)
(* (docker-compose.yml: --concurrency=1).                                  *)

Rendering(r) == Executing(r) /\ Kind(r) = "render"

OneRender == \A r, s \in Runs : Rendering(r) /\ Rendering(s) => r = s

(* Pins that resolve_or_reuse takes as they are.                           *)
Current(ps) == \A p \in ps : p.resolved_from = guide.footage

(* The row's video had pins for its own guide; as long as the guide asks   *)
(* for the same footage these are the pins, if there were any; and a row   *)
(* that passes for current describes the file, reviewed or not.            *)
RowRecords ==
  /\ row = {} \/ \E v \in Content : row = {v}
  /\ \A v \in row :
       /\ \A p \in v.pins : p.resolved_from = v.guide.footage
       /\ v.guide.footage = guide.footage => Current(pins) /\ (v.pins # {} => pins = v.pins)
       /\ v.guide = guide /\ v.pins = pins => file = row

Reviewed ==
  status \in {"in_review", "approved"} =>
    /\ \A r \in Runs : ~Rendering(r)
    /\ file = row /\ \A v \in row : v.pins = pins

(* A render, superseded or not, has the guide as it is, because a cut that *)
(* has one is not in review; past its beat the pins, past the compositor   *)
(* the file are its own.                                                   *)
RenderOK(r) ==
  run[r].pc \in RenderPC =>
    /\ run[r].guide = guide
    /\ run[r].pc = "resolve" => pins = {} \/ ~Current(pins)
    /\ run[r].pc \in {"beat", "composite", "refresh", "stamp"}
         => run[r].pins = pins /\ Current(pins)
    /\ run[r].pc \in {"refresh", "stamp"} => file = {[guide |-> guide, pins |-> pins]}

(* A publish that holds its job has the cut as it is; past the gates it    *)
(* has the file too, and a superseded render can only put the same there.  *)
PublishOK(r) ==
  run[r].pc \in {"gates", "gated", "read"} /\ Live(r) =>
    /\ run[r].row = row /\ run[r].guide = guide
    /\ run[r].pc # "gates" =>
         /\ file = row
         /\ \A v \in row : v.guide = guide /\ \A p \in v.pins : p.asset \notin Unsafe
         /\ \A s \in Runs : run[s].pc = "composite" =>
              row = {[guide |-> run[s].guide, pins |-> run[s].pins]}

Recorded ==
  /\ RowRecords /\ Reviewed
  /\ \A r \in Runs : RenderOK(r) /\ PublishOK(r)

HolderOK == holder \in [Jobs -> Runs \cup {NoRun}]

VideoInv == HolderOK /\ OneRender /\ (Misreaped \/ Recorded)

(* A run at a point of the render body executes a render.                  *)
LEMMA AtRender ==
  ASSUME Types, NEW r \in Runs, run[r].pc \in RenderPC
  PROVE  Rendering(r) /\ run[r] \in RenderRun /\ run[r].job \in Jobs
BY Execution DEF Types, Rendering, Kind

LEMMA AtPublish ==
  ASSUME Types, NEW r \in Runs, run[r].pc \in PublishPC
  PROVE  /\ Executing(r) /\ run[r] \in PublishRun
         /\ run[r].job \in Jobs /\ job[run[r].job].kind = "publish"
BY Execution DEF Types

(* Nothing but a message makes a job running or gives it a holder.         *)
LEMMA OnlyStarts ==
  ASSUME Types, HolderOK, [Next]_vars
  PROVE  \/ /\ UNCHANGED holder
            /\ \A j \in Jobs : job'[j].status = "running" => job[j].status = "running"
         \/ \E j \in Jobs, r \in Runs :
              Start(j, r) /\ holder' = [holder EXCEPT ![j] = r]
              /\ \A i \in Jobs \ {j} : job'[i] = job[i]
<1> DEFINE Kept == /\ UNCHANGED holder
                   /\ \A j \in Jobs : job'[j].status = "running" => job[j].status = "running"
<1> USE DEF Types, JobsOK, JobRecords
<1>1. ASSUME UNCHANGED <<job, holder>> PROVE Kept
  BY <1>1
<1>2. CASE UpdateCut \/ ApproveCut \/ UNCHANGED vars
  BY <1>1, <1>2 DEF UpdateCut, ApproveCut, vars
<1>3. ASSUME NEW j \in Jobs, Operator(j) \/ Reaper(j) PROVE Kept
  BY <1>3 DEF Operator, TriggerRender, TriggerPublish, NewJob, Reaper, FailPending, Reap,
              ReapDoneOrphan, FailJob, SetJob, NoJob, cut
<1>4. ASSUME NEW j \in Jobs, NEW r \in Runs, Start(j, r)
      PROVE  holder' = [holder EXCEPT ![j] = r] /\ \A i \in Jobs \ {j} : job'[i] = job[i]
  BY <1>4 DEF Start, StartRender, StartPublish, SetJob
<1>5. ASSUME NEW r \in Runs, StampRender(r) \/ StampPublish(r) \/ Settle(r) PROVE Kept
  <2>1. UNCHANGED holder
    BY <1>5 DEF StampRender, StampPublish, Settle, FailJob, cut
  <2>2. UNCHANGED job \/ \E j \in Jobs, x \in {"done", "pending", "failed"} : SetJob(j, x)
    <3>1. Executing(r)
      BY <1>5, Execution DEF StampRender, StampPublish, Settle, RenderPC, PublishPC, Ending
    <3>2. run[r].job \in Jobs
      BY <3>1, Execution
    <3>3. QED
      BY <1>5, <3>2 DEF StampRender, StampPublish, Settle, FailJob
  <2>3. QED
    BY <2>1, <2>2 DEF SetJob
<1>6. ASSUME NEW r \in Runs,
             \/ ReadPins(r) \/ WritePins(r) \/ BeatHeartbeat(r) \/ Composite(r) \/ RefreshCut(r)
             \/ Gates(r) \/ HeartbeatBeforeUpload(r) \/ ReadVideo(r) \/ Upload(r)
             \/ RecordPost(r) \/ Raise(r) \/ Kill(r)
      PROVE  UNCHANGED <<job, holder>>
  BY <1>6 DEF ReadPins, WritePins, BeatHeartbeat, Composite, RefreshCut, Gates,
              HeartbeatBeforeUpload, ReadVideo, Upload, RecordPost, Raise, Kill
<1>7. QED
  BY <1>1, <1>2, <1>3, <1>4, <1>5, <1>6 DEF Next, Render, Publish

(* A run that lost its job does not get it back.                           *)
LEMMA LiveStays ==
  ASSUME Types, Filled, HolderOK, [Next]_vars, NEW s \in Runs, Executing(s)', Live(s)'
  PROVE  (Executing(s) /\ Live(s)) \/ \E j \in Jobs : Start(j, s)
<1>1. \/ Executing(s) /\ run'[s].job = run[s].job
      \/ \E j \in Jobs : Start(j, s)
  BY EveryStepIsRunChange, ExecutingNext DEF Starts
<1>2. CASE Executing(s) /\ run'[s].job = run[s].job
  <2>1. run[s].job \in Jobs /\ run[s] # Unused
    BY <1>2, Execution DEF Types, Executing, Unused
  <2>2. CASE /\ UNCHANGED holder
             /\ \A j \in Jobs : job'[j].status = "running" => job[j].status = "running"
    BY <1>2, <2>1, <2>2 DEF Live
  <2>3. ASSUME NEW j \in Jobs, NEW r \in Runs, Start(j, r), holder' = [holder EXCEPT ![j] = r],
               \A i \in Jobs \ {j} : job'[i] = job[i]
        PROVE  Live(s)
    <3>1. r # s
      BY <2>1, <2>3 DEF Start, StartRender, StartPublish
    <3>2. run[s].job # j
      BY <1>2, <2>3, <3>1 DEF Live, HolderOK
    <3>3. QED
      BY <1>2, <2>1, <2>3, <3>2 DEF Live, HolderOK
  <2>4. QED
    BY <1>2, <2>2, <2>3, OnlyStarts
<1>3. QED
  BY <1>1, <1>2

(* Nobody renders who did not before, or was started.                      *)
LEMMA RenderingStays ==
  ASSUME Types, Filled, [Next]_vars, NEW s \in Runs, Rendering(s)'
  PROVE  Rendering(s) \/ \E j \in Jobs : StartRender(j, s)
<1>1. JobChange /\ RunChange
  BY EveryStepIsJobChange, EveryStepIsRunChange
<1>2. CASE Executing(s) /\ run'[s].job = run[s].job
  <2>1. run[s].job \in Jobs /\ job[run[s].job].kind # "none"
    BY <1>2, Execution DEF Types, RunsOK
  <2>2. job'[run[s].job].kind = job[run[s].job].kind
    BY <1>1, <2>1, KindStays
  <2>3. QED
    BY <1>2, <2>2 DEF Rendering, Kind
<1>3. ASSUME NEW j \in Jobs, Starts(j, s) PROVE StartRender(j, s)
  <2>1. Start(j, s) /\ run'[s].job = j /\ job[j].kind \in {"render", "publish"}
    BY <1>3 DEF Starts
  <2>2. job'[j].kind = job[j].kind
    BY <1>1, <2>1, KindStays
  <2>3. QED
    BY <2>1, <2>2 DEF Start, StartPublish, Rendering, Kind
<1>4. QED
  BY <1>1, <1>2, <1>3, ExecutingNext DEF Rendering

(* One task at a time: a render starts when no other is executing.         *)
LEMMA OneRenderStep ==
  ASSUME RenderSlots = 1, Types, Filled, OneRender, [Next]_vars
  PROVE  OneRender'
<1>1. ASSUME NEW j \in Jobs, NEW r \in Runs, StartRender(j, r), NEW s \in Runs PROVE ~Rendering(s)
  <2> DEFINE going == {t \in Runs : Executing(t) /\ Kind(t) = "render"}
  <2>1. IsFiniteSet(going) /\ Cardinality(going) \in Nat /\ Cardinality(going) < 1
    <3>1. IsFiniteSet(going)
      BY CutPipelineAssumption, FS_Subset
    <3>2. QED
      BY <1>1, <3>1, FS_CardinalityType DEF StartRender
  <2>2. going = {}
    BY <2>1, FS_EmptySet
  <2>3. QED
    BY <2>2 DEF Rendering
<1>2. ASSUME NEW r \in Runs, NEW s \in Runs, Rendering(r)', Rendering(s)' PROVE r = s
  <2>1. CASE Rendering(r) /\ Rendering(s)
    BY <2>1 DEF OneRender
  <2>2. ASSUME NEW j \in Jobs, NEW q \in Runs, StartRender(j, q) PROVE r = q /\ s = q
    <3>1. ASSUME NEW t \in Runs, t # q PROVE ~Rendering(t)'
      <4>1. run'[t] = run[t] /\ (Executing(t) => Kind(t) # "render")
        BY <1>1, <2>2, <3>1 DEF StartRender, Rendering, Types, RunsOK
      <4>2. ASSUME NEW i \in Jobs, StartRender(i, t) PROVE FALSE
        <5>1. run[t].pc = "unused"
          BY <4>2 DEF StartRender, Unused
        <5>2. run'[t].pc \in {"pins", "permanent"}
          BY <4>2 DEF StartRender, Types, RunsOK
        <5>3. QED
          BY <4>1, <5>1, <5>2
      <4>3. QED
        BY <1>1, <2>2, <4>2, RenderingStays
    <3>2. QED
      BY <1>2, <3>1
  <2>3. QED
    BY <1>2, <2>1, <2>2, RenderingStays
<1>3. QED
  BY <1>2 DEF OneRender

(* The holder of a job stays a run, or nobody.                             *)
LEMMA HolderStep == ASSUME Types, HolderOK, [Next]_vars PROVE HolderOK'
BY OnlyStarts DEF HolderOK

-----------------------------------------------------------------------------
(* Recorded is kept by a step that misreaps no job. First, what follows    *)
(* from one job in flight: a live publish excludes a render with a job and *)
(* knows the status; a pending render does too.                            *)
LEMMA OneLive ==
  ASSUME Types, Flight, NEW r \in Runs, NEW s \in Runs, Executing(r), Executing(s),
         Live(r), Live(s)
  PROVE  Kind(r) = Kind(s)
<1>1. /\ run[r].job \in Jobs /\ Flying(run[r].job)
      /\ run[s].job \in Jobs /\ Flying(run[s].job)
  BY LiveFlies
<1>2. run[r].job = run[s].job
  BY <1>1 DEF Flight
<1>3. QED
  BY <1>2 DEF Kind

(* While a publish holds its job the cut is publishing.                    *)
LEMMA LivePublishStatus ==
  ASSUME Types, Flight, NEW s \in Runs, run[s].pc \in PublishPC, Live(s)
  PROVE  status = "publishing"
<1>1. run[s].job \in Jobs /\ job[run[s].job].kind = "publish" /\ Flying(run[s].job)
  BY AtPublish, LiveFlies
<1>2. status = InFlight["publish"]
  BY <1>1 DEF Flight, Kinds
<1>3. QED
  BY <1>2 DEF InFlight

(* A run's record is changed by its start.                                 *)
LEMMA StartChanges ==
  ASSUME Types, NEW j \in Jobs, NEW s \in Runs, Start(j, s)
  PROVE  run'[s] # run[s]
<1>1. run[s].pc = "unused"
  BY DEF Start, StartRender, StartPublish, Unused
<1>2. run'[s].pc \in {"pins", "permanent", "gates"}
  BY DEF Start, StartRender, StartPublish, Types, RunsOK
<1>3. QED
  BY <1>1, <1>2

(* A publish whose record is unchanged and that is live was live before.   *)
LEMMA PublishLiveBefore ==
  ASSUME Types, Filled, HolderOK, [Next]_vars, NEW s \in Runs, run'[s] = run[s],
         run[s].pc \in PublishPC, Live(s)'
  PROVE  Executing(s) /\ Live(s)
<1>1. Executing(s) /\ Executing(s)'
  BY AtPublish DEF Executing
<1>2. QED
  BY <1>1, LiveStays, StartChanges

(* A video on record stays so while nobody touches it.                     *)
LEMMA ReviewStays ==
  ASSUME Types, Filled, Flight, Reviewed, [Next]_vars, UNCHANGED <<pins, file, row>>,
         status' \in {"in_review", "approved"} => status \in {"in_review", "approved"}
  PROVE  Reviewed'
<1> SUFFICES ASSUME status' \in {"in_review", "approved"}
             PROVE  /\ \A r \in Runs : ~Rendering(r)'
                    /\ file' = row' /\ \A v \in row' : v.pins = pins'
  BY DEF Reviewed
<1>1. /\ \A r \in Runs : ~Rendering(r)
      /\ file = row /\ \A v \in row : v.pins = pins
      /\ status \in {"in_review", "approved"}
  BY DEF Reviewed
<1>2. ASSUME NEW r \in Runs, Rendering(r)' PROVE FALSE
  <2>1. PICK j \in Jobs : StartRender(j, r)
    BY <1>1, <1>2, RenderingStays
  <2>2. Flying(j) /\ job[j].kind = "render"
    BY <2>1 DEF StartRender, Flying
  <2>3. status = "rendering"
    BY <2>2 DEF Flight, Kinds, InFlight
  <2>4. QED
    BY <1>1, <2>3
<1>3. QED
  BY <1>1, <1>2

(* The step changes none of the video's data; an execution it changes is   *)
(* as it should be, and comes to the compositor only with its job.         *)
LEMMA Frame ==
  ASSUME Types, Filled, HolderOK, Flight, Recorded, [Next]_vars,
         UNCHANGED <<guide, pins, file, row>>, Reviewed',
         \A s \in Runs : run'[s] = run[s] \/ (RenderOK(s)' /\ PublishOK(s)'),
         \A s \in Runs : run'[s].pc = "composite" =>
           run'[s] = run[s] \/ (Rendering(s) /\ Live(s))
  PROVE  Recorded'
<1>1. RowRecords'
  BY DEF Recorded, RowRecords, Current
<1>2. ASSUME NEW s \in Runs, run'[s] = run[s] PROVE RenderOK(s)'
  BY <1>2 DEF Recorded, RenderOK, Current
<1>3. ASSUME NEW s \in Runs, run'[s] = run[s] PROVE PublishOK(s)'
  <2> SUFFICES ASSUME run[s].pc \in {"gates", "gated", "read"}, Live(s)'
               PROVE  /\ run[s].row = row /\ run[s].guide = guide
                      /\ run[s].pc # "gates" =>
                           /\ file = row
                           /\ \A v \in row :
                                v.guide = guide /\ \A p \in v.pins : p.asset \notin Unsafe
                           /\ \A t \in Runs : run'[t].pc = "composite" =>
                                row = {[guide |-> run'[t].guide, pins |-> run'[t].pins]}
    BY <1>3 DEF PublishOK
  <2>1. Executing(s) /\ Live(s) /\ Kind(s) = "publish"
    BY <1>3, PublishLiveBefore, AtPublish DEF PublishPC, Kind
  <2>2. PublishOK(s)
    BY DEF Recorded
  <2>3. ASSUME NEW t \in Runs, run'[t].pc = "composite" PROVE run'[t] = run[t]
    BY <2>1, <2>3, OneLive DEF Rendering
  <2>4. QED
    BY <2>1, <2>2, <2>3 DEF PublishOK
<1>4. QED
  BY <1>1, <1>2, <1>3 DEF Recorded

(* Steps of no execution: the routes and the reaper. Editing the guide     *)
(* finds a cut that is in review, so no render and no live publish.        *)
LEMMA UpdateKeeps ==
  ASSUME Types, Filled, HolderOK, Flight, Recorded, [Next]_vars, UpdateCut
  PROVE  Recorded'
<1>1. /\ status = "in_review" /\ guide' \in Guides
      /\ UNCHANGED <<status, pins, file, row, post, job, holder, run, uploads>>
  BY DEF UpdateCut
<1>2. /\ \A r \in Runs : ~Rendering(r)
      /\ file = row /\ \A v \in row : v.pins = pins
  BY <1>1 DEF Recorded, Reviewed
<1>3. RowRecords'
  BY <1>1, <1>2 DEF Recorded, RowRecords, Current
<1>4. Reviewed'
  BY <1>1, <1>2, ReviewStays DEF Recorded
<1>5. ASSUME NEW r \in Runs PROVE RenderOK(r)' /\ PublishOK(r)'
  <2>1. run[r].pc \notin RenderPC
    BY <1>2, AtRender
  <2>2. ~(run[r].pc \in {"gates", "gated", "read"} /\ Live(r))
    BY <1>1, LivePublishStatus DEF PublishPC
  <2>3. Live(r)' = Live(r) /\ run'[r] = run[r]
    BY <1>1 DEF Live
  <2>4. QED
    BY <2>1, <2>2, <2>3 DEF RenderOK, PublishOK
<1>6. QED
  BY <1>3, <1>4, <1>5 DEF Recorded

(* The operator, the reaper and an idle step leave the record alone.       *)
LEMMA RouteKeeps ==
  ASSUME Types, Filled, HolderOK, Flight, Recorded, [Next]_vars,
         ApproveCut \/ UNCHANGED vars \/ \E j \in Jobs : Operator(j) \/ Reaper(j)
  PROVE  Recorded'
<1> DEFINE Idle == /\ UNCHANGED <<guide, pins, file, row, run>>
                   /\ status' \in {"in_review", "approved"} => status \in {"in_review", "approved"}
<1>1. ASSUME ApproveCut \/ UNCHANGED vars PROVE Idle
  BY <1>1 DEF ApproveCut, vars, cut
<1>2. ASSUME NEW j \in Jobs, Operator(j) PROVE Idle
  BY <1>2 DEF Operator, TriggerRender, TriggerPublish, NewJob, InFlight
<1>3. ASSUME NEW j \in Jobs, Reaper(j) PROVE Idle
  BY <1>3 DEF Reaper, FailPending, Reap, ReapDoneOrphan, FailJob, RolledBack, cut
<1>4. Idle
  BY <1>1, <1>2, <1>3
<1>5. Reviewed'
  BY <1>4, ReviewStays DEF Recorded
<1>6. QED
  BY <1>4, <1>5, Frame

(* Steps of a render.                                                      *)
LEMMA StartRenderKeeps ==
  ASSUME Types, Filled, HolderOK, Flight, Recorded, [Next]_vars,
         NEW j \in Jobs, NEW r \in Runs, StartRender(j, r)
  PROVE  Recorded'
<1>1. UNCHANGED <<status, guide, pins, file, row>>
  BY DEF StartRender, cut
<1>2. Reviewed'
  BY <1>1, ReviewStays DEF Recorded
<1>3. /\ run'[r].pc \in {"pins", "permanent"} /\ run'[r].guide = guide
      /\ \A s \in Runs \ {r} : run'[s] = run[s]
  BY DEF StartRender, Types, RunsOK
<1>4. RenderOK(r)' /\ PublishOK(r)'
  BY <1>1, <1>3 DEF RenderOK, PublishOK
<1>5. QED
  BY <1>1, <1>2, <1>3, <1>4, Frame

(* Any other step of an execution that leaves the data and the status.     *)
LEMMA QuietKeeps ==
  ASSUME Types, Filled, HolderOK, Flight, Recorded, [Next]_vars, NEW r \in Runs,
         UNCHANGED <<guide, pins, file, row>>,
         status' \in {"in_review", "approved"} => status \in {"in_review", "approved"},
         \A s \in Runs \ {r} : run'[s] = run[s],
         RenderOK(r)', PublishOK(r)',
         run'[r].pc = "composite" => Rendering(r) /\ Live(r)
  PROVE  Recorded'
<1>1. Reviewed'
  BY ReviewStays DEF Recorded
<1>2. QED
  BY <1>1, Frame

LEMMA ReadPinsKeeps ==
  ASSUME Types, Filled, HolderOK, Flight, Recorded, [Next]_vars, NEW r \in Runs, ReadPins(r)
  PROVE  Recorded'
<1>1. /\ run[r] \in RenderRun /\ run[r].pc = "pins" /\ run[r].guide = guide
  BY AtRender DEF ReadPins, Recorded, RenderOK, RenderPC
<1>2. UNCHANGED <<status, guide, pins, file, row>>
  BY DEF ReadPins, cut
<1>3. /\ \A s \in Runs \ {r} : run'[s] = run[s]
      /\ run'[r].guide = guide
      /\ \/ run'[r].pc = "beat" /\ run'[r].pins = pins /\ Current(pins)
         \/ run'[r].pc = "resolve" /\ (pins = {} \/ ~Current(pins))
  <2>1. CASE pins # {} /\ Current(pins)
    <3>1. run' = [run EXCEPT ![r].pins = pins, ![r].pc = "beat"]
      BY <1>1, <2>1 DEF ReadPins, Current
    <3>2. QED
      BY <1>1, <2>1, <3>1 DEF RenderRun, Types, RunsOK
  <2>2. CASE ~(pins # {} /\ Current(pins))
    <3>1. run' = [run EXCEPT ![r].pc = "resolve"]
      BY <1>1, <2>2 DEF ReadPins, Current, Goto
    <3>2. QED
      BY <1>1, <2>2, <3>1 DEF RenderRun, Types, RunsOK
  <2>3. QED
    BY <2>1, <2>2
<1>4. RenderOK(r)' /\ PublishOK(r)' /\ run'[r].pc # "composite"
  BY <1>2, <1>3 DEF RenderOK, PublishOK, Current
<1>5. QED
  BY <1>2, <1>3, <1>4, QuietKeeps

LEMMA BeatKeeps ==
  ASSUME Types, Filled, HolderOK, Flight, Recorded, [Next]_vars, NEW r \in Runs,
         BeatHeartbeat(r)
  PROVE  Recorded'
<1>1. /\ run[r] \in RenderRun /\ Rendering(r) /\ run[r].guide = guide
      /\ run[r].pins = pins /\ Current(pins)
  BY AtRender DEF BeatHeartbeat, Recorded, RenderOK, RenderPC
<1>2. UNCHANGED <<status, guide, pins, file, row>>
  BY DEF BeatHeartbeat, cut
<1>3. /\ \A s \in Runs \ {r} : run'[s] = run[s]
      /\ run'[r].guide = guide /\ run'[r].pins = pins
      /\ run'[r].pc = IF Live(r) THEN "composite" ELSE "permanent"
  BY <1>1 DEF BeatHeartbeat, Goto, RenderRun, Types, RunsOK
<1>4. RenderOK(r)' /\ PublishOK(r)' /\ (run'[r].pc = "composite" => Rendering(r) /\ Live(r))
  BY <1>1, <1>2, <1>3 DEF RenderOK, PublishOK, Current
<1>5. QED
  BY <1>2, <1>3, <1>4, QuietKeeps

LEMMA RefreshKeeps ==
  ASSUME Types, Filled, HolderOK, Flight, Recorded, [Next]_vars, NEW r \in Runs, RefreshCut(r)
  PROVE  Recorded'
<1>1. /\ run[r] \in RenderRun /\ run[r].pc = "refresh" /\ run[r].guide = guide
      /\ run[r].pins = pins /\ Current(pins)
      /\ file = {[guide |-> guide, pins |-> pins]}
  BY AtRender DEF RefreshCut, Recorded, RenderOK, RenderPC
<1>2. UNCHANGED <<status, guide, pins, file, row>>
  BY DEF RefreshCut, cut
<1>3. /\ \A s \in Runs \ {r} : run'[s] = run[s]
      /\ run'[r].guide = guide /\ run'[r].pins = pins
      /\ run'[r].pc \in {"stamp", "permanent"}
  BY <1>1 DEF RefreshCut, Goto, RenderRun, Types, RunsOK
<1>4. RenderOK(r)' /\ PublishOK(r)' /\ run'[r].pc # "composite"
  BY <1>1, <1>2, <1>3 DEF RenderOK, PublishOK, Current
<1>5. QED
  BY <1>2, <1>3, <1>4, QuietKeeps

(* The new pins replace none, or pins the guide has left behind: in either *)
(* case a video on record that has pins is by then out of date.            *)
LEMMA WritePinsKeeps ==
  ASSUME Types, Filled, HolderOK, Flight, Recorded, OneRender, [Next]_vars,
         NEW r \in Runs, WritePins(r)
  PROVE  Recorded'
<1>1. /\ run[r] \in RenderRun /\ Rendering(r) /\ run[r].guide = guide
      /\ run[r].pc = "resolve" /\ (pins = {} \/ ~Current(pins))
  BY AtRender DEF WritePins, Recorded, RenderOK, RenderPC
<1>2. /\ UNCHANGED <<status, guide, file, row, post, job, holder>>
      /\ \A p \in pins' : p.resolved_from = guide.footage
  BY <1>1 DEF WritePins
<1>3. /\ \A s \in Runs \ {r} : run'[s] = run[s]
      /\ run'[r].guide = guide /\ run'[r].pins = pins' /\ run'[r].pc = "beat"
  BY <1>1 DEF WritePins, RenderRun, Types, RunsOK
<1>4. status \notin {"in_review", "approved"}
  BY <1>1 DEF Recorded, Reviewed
<1>5. RowRecords'
  <2>1. ASSUME NEW v \in row
        PROVE  /\ v.guide.footage = guide.footage => Current(pins)' /\ (v.pins # {} => pins' = v.pins)
               /\ v.guide = guide /\ v.pins = pins' => file = row
    <3>1. v.guide.footage = guide.footage => pins = {} /\ v.pins = {}
      BY <1>1 DEF Recorded, RowRecords
    <3>2. Current(pins)'
      BY <1>2 DEF Current
    <3>3. v.guide = guide => (v.pins = pins => file = row) /\ pins = {} /\ v.pins = {}
      BY <3>1 DEF Recorded, RowRecords
    <3>4. QED
      BY <3>1, <3>2, <3>3
  <2>2. (row = {} \/ \E v \in Content : row = {v})
        /\ \A v \in row : \A p \in v.pins : p.resolved_from = v.guide.footage
    BY DEF Recorded, RowRecords
  <2>3. QED
    BY <1>2, <2>1, <2>2 DEF RowRecords
<1>6. Reviewed'
  BY <1>2, <1>4 DEF Reviewed
<1>7. RenderOK(r)' /\ PublishOK(r)'
  BY <1>2, <1>3 DEF RenderOK, PublishOK, Current
<1>8. ASSUME NEW s \in Runs \ {r} PROVE RenderOK(s)' /\ PublishOK(s)'
  <2>1. run'[s].pc \notin RenderPC
    BY <1>1, <1>3, AtRender DEF OneRender
  <2>2. PublishOK(s) /\ Live(s)' = Live(s)
    BY <1>2, <1>3 DEF Recorded, Live
  <2>3. \A t \in Runs : run'[t].pc = "composite" => run'[t] = run[t]
    BY <1>3
  <2>4. QED
    BY <1>2, <1>3, <2>1, <2>2, <2>3 DEF RenderOK, PublishOK
<1>9. QED
  BY <1>5, <1>6, <1>7, <1>8 DEF Recorded

(* A superseded render composes what the row of a gated publish says.      *)
LEMMA CompositeKeeps ==
  ASSUME Types, Filled, HolderOK, Flight, Recorded, OneRender, [Next]_vars,
         NEW r \in Runs, Composite(r)
  PROVE  Recorded'
<1>1. /\ run[r] \in RenderRun /\ Rendering(r) /\ run[r].guide = guide
      /\ run[r].pc = "composite" /\ run[r].pins = pins /\ Current(pins)
  BY AtRender DEF Composite, Recorded, RenderOK, RenderPC
<1>2. /\ UNCHANGED <<status, guide, pins, row, post, job, holder>>
      /\ file' = {[guide |-> guide, pins |-> pins]}
  BY <1>1 DEF Composite
<1>3. /\ \A s \in Runs \ {r} : run'[s] = run[s]
      /\ run'[r].guide = guide /\ run'[r].pins = pins /\ run'[r].pc = "refresh"
  BY <1>1 DEF Composite, Goto, RenderRun, Types, RunsOK
<1>4. status \notin {"in_review", "approved"}
  BY <1>1 DEF Recorded, Reviewed
<1>5. RowRecords'
  <2>1. ASSUME NEW v \in row, v.guide = guide, v.pins = pins PROVE file' = row
    <3>1. row = {v} /\ v \in Content
      BY DEF Recorded, RowRecords
    <3>2. v = [guide |-> guide, pins |-> pins]
      BY <2>1, <3>1 DEF Content
    <3>3. QED
      BY <1>2, <3>1, <3>2
  <2>2. QED
    BY <1>2, <2>1 DEF Recorded, RowRecords, Current
<1>6. Reviewed'
  BY <1>2, <1>4 DEF Reviewed
<1>7. RenderOK(r)' /\ PublishOK(r)'
  BY <1>1, <1>2, <1>3 DEF RenderOK, PublishOK, Current
<1>8. ASSUME NEW s \in Runs \ {r} PROVE RenderOK(s)' /\ PublishOK(s)'
  <2>1. run'[s].pc \notin RenderPC
    BY <1>1, <1>3, AtRender DEF OneRender
  <2>2. PublishOK(s) /\ Live(s)' = Live(s)
    BY <1>2, <1>3 DEF Recorded, Live
  <2>3. \A t \in Runs : run'[t].pc = "composite" => run'[t] = run[t]
    BY <1>3
  <2>4. PublishOK(s)'
    BY <1>1, <1>2, <1>3, <2>2, <2>3 DEF PublishOK
  <2>5. QED
    BY <2>1, <2>4 DEF RenderOK
<1>9. QED
  BY <1>5, <1>6, <1>7, <1>8 DEF Recorded

(* The done-stamp of a render that has its job: it records what it made.   *)
LEMMA StampKeeps ==
  ASSUME Types, Filled, HolderOK, Flight, Recorded, OneRender, [Next]_vars,
         NEW r \in Runs, StampRender(r)
  PROVE  Recorded'
<1>1. /\ run[r] \in RenderRun /\ Rendering(r) /\ run[r].guide = guide
      /\ run[r].pc = "stamp" /\ run[r].pins = pins /\ Current(pins)
      /\ file = {[guide |-> guide, pins |-> pins]}
  BY AtRender DEF StampRender, Recorded, RenderOK, RenderPC
<1>2. CASE UNCHANGED <<cut, job>> /\ (Goto(r, "permanent") \/ EndRun(r))
  <2>1. /\ \A s \in Runs \ {r} : run'[s] = run[s]
        /\ run'[r].pc \in {"permanent", "over"}
    BY <1>1, <1>2 DEF Goto, EndRun, Over, RenderRun, Types, RunsOK
  <2>2. RenderOK(r)' /\ PublishOK(r)' /\ run'[r].pc # "composite"
    BY <2>1 DEF RenderOK, PublishOK, RenderPC
  <2>3. QED
    BY <1>2, <2>1, <2>2, QuietKeeps DEF cut
<1>3. CASE /\ Live(r) /\ status' = "in_review"
           /\ row' = {[guide |-> run[r].guide, pins |-> run[r].pins]}
           /\ EndRun(r) /\ UNCHANGED <<guide, pins, file, post>>
  <2>1. row' = file /\ UNCHANGED <<guide, pins, file>>
    BY <1>1, <1>3
  <2>2. /\ \A s \in Runs \ {r} : run'[s] = run[s]
        /\ run'[r] = Over
    BY <1>3 DEF EndRun, Types, RunsOK
  <2>3. RowRecords'
    <3>1. [guide |-> guide, pins |-> pins] \in Content
      BY DEF Types, CutOK, Content
    <3>2. QED
      BY <1>1, <2>1, <3>1 DEF RowRecords, Current
  <2>4. ASSUME NEW s \in Runs PROVE ~Rendering(s)'
    <3>1. CASE s = r
      BY <2>2, <3>1 DEF Rendering, Executing, Over
    <3>2. CASE s # r
      <4>1. ~Rendering(s)
        BY <1>1, <3>2 DEF OneRender
      <4>2. ~\E j \in Jobs : StartRender(j, s)
        BY <2>2, <3>2, StartChanges DEF Start
      <4>3. QED
        BY <4>1, <4>2, RenderingStays
    <3>3. QED
      BY <3>1, <3>2
  <2>5. Reviewed'
    BY <1>1, <2>1, <2>4 DEF Reviewed
  <2>6. ASSUME NEW s \in Runs PROVE RenderOK(s)'
    <3>1. run'[s].pc \notin RenderPC
      BY <1>1, <2>2, AtRender DEF OneRender, Over, RenderPC
    <3>2. QED
      BY <3>1 DEF RenderOK
  <2>7. ASSUME NEW s \in Runs PROVE PublishOK(s)'
    <3>1. CASE s = r
      BY <2>2, <3>1 DEF PublishOK, Over
    <3>2. CASE s # r
      <4>1. ~(run[s].pc \in PublishPC /\ Live(s)')
        <5>1. SUFFICES ASSUME run[s].pc \in PublishPC, Live(s)' PROVE FALSE
          OBVIOUS
        <5>2. Executing(s) /\ Live(s) /\ Kind(s) = "publish"
          BY <2>2, <3>2, <5>1, PublishLiveBefore, AtPublish DEF Kind
        <5>3. Kind(r) = "render" /\ Executing(r)
          BY <1>1 DEF Rendering
        <5>4. QED
          BY <1>3, <5>2, <5>3, OneLive
      <4>2. QED
        BY <2>2, <3>2, <4>1 DEF PublishOK, PublishPC
    <3>3. QED
      BY <3>1, <3>2
  <2>8. QED
    BY <2>3, <2>5, <2>6, <2>7 DEF Recorded
<1>4. QED
  BY <1>2, <1>3 DEF StampRender

(* Steps of a publish.                                                     *)
LEMMA StartPublishKeeps ==
  ASSUME Types, Filled, HolderOK, Flight, Recorded, [Next]_vars,
         NEW j \in Jobs, NEW r \in Runs, StartPublish(j, r)
  PROVE  Recorded'
<1>1. UNCHANGED <<status, guide, pins, file, row>>
  BY DEF StartPublish, cut
<1>2. /\ run'[r].pc = "gates" /\ run'[r].guide = guide /\ run'[r].row = row
      /\ \A s \in Runs \ {r} : run'[s] = run[s]
  BY DEF StartPublish, Types, RunsOK
<1>3. RenderOK(r)' /\ PublishOK(r)' /\ run'[r].pc # "composite"
  BY <1>1, <1>2 DEF RenderOK, PublishOK, RenderPC
<1>4. QED
  BY <1>1, <1>2, <1>3, QuietKeeps

(* The gates compare the fingerprints on record with the guide and pins as *)
(* they are, and a video that passes for current is the file.              *)
LEMMA GatesKeep ==
  ASSUME Types, Filled, HolderOK, Flight, Recorded, [Next]_vars, NEW r \in Runs,
         Gates(r) \/ HeartbeatBeforeUpload(r)
  PROVE  Recorded'
<1>1. /\ run[r] \in PublishRun /\ run[r].pc \in {"gates", "gated"}
      /\ run[r].job \in Jobs /\ job[run[r].job].kind = "publish"
  BY AtPublish DEF Gates, HeartbeatBeforeUpload, PublishPC
<1>2. UNCHANGED <<status, guide, pins, file, row, post, job, holder>>
  BY DEF Gates, HeartbeatBeforeUpload, cut
<1>3. /\ \A s \in Runs \ {r} : run'[s] = run[s]
      /\ run'[r].job = run[r].job /\ run'[r].guide = run[r].guide /\ run'[r].row = run[r].row
      /\ \/ run'[r].pc \in {"permanent", "finalize"}
         \/ run'[r].pc = "gated" /\ run[r].pc = "gates" /\ Live(r) /\ GatesPass(r)
         \/ run'[r].pc = "read" /\ run[r].pc = "gated" /\ Live(r)
  BY <1>1 DEF Gates, HeartbeatBeforeUpload, Goto, PublishRun, Types, RunsOK
<1>4. \A s \in Runs : run'[s].pc = "composite" => s # r /\ run'[s] = run[s]
  BY <1>3
<1>5. RenderOK(r)'
  BY <1>3 DEF RenderOK, RenderPC
<1>6. CASE run'[r].pc \in {"permanent", "finalize"}
  <2>1. PublishOK(r)'
    BY <1>6 DEF PublishOK
  <2>2. QED
    BY <1>2, <1>3, <1>4, <1>5, <2>1, QuietKeeps
<1>7. CASE run'[r].pc = "gated" /\ run[r].pc = "gates" /\ Live(r) /\ GatesPass(r)
  <2>1. run[r].row = row /\ run[r].guide = guide
    BY <1>7 DEF Recorded, PublishOK
  <2>2. PICK v \in Content : row = {v}
    BY <1>1 DEF Filled, Recorded, RowRecords
  <2>3. v.guide = guide /\ v.pins = pins /\ \A p \in v.pins : p.asset \notin Unsafe
    BY <1>7, <2>1, <2>2 DEF GatesPass
  <2>4. file = row
    BY <2>2, <2>3 DEF Recorded, RowRecords
  <2>5. ASSUME NEW s \in Runs, run[s].pc = "composite"
        PROVE  row = {[guide |-> run[s].guide, pins |-> run[s].pins]}
    <3>1. run[s].guide = guide /\ run[s].pins = pins
      BY <2>5 DEF Recorded, RenderOK, RenderPC
    <3>2. v = [guide |-> guide, pins |-> pins]
      BY <2>3 DEF Content
    <3>3. QED
      BY <2>2, <3>1, <3>2
  <2>6. PublishOK(r)'
    BY <1>2, <1>3, <1>4, <2>1, <2>2, <2>3, <2>4, <2>5 DEF PublishOK
  <2>7. QED
    BY <1>2, <1>3, <1>4, <1>5, <2>6, QuietKeeps
<1>8. CASE run'[r].pc = "read" /\ run[r].pc = "gated" /\ Live(r)
  <2>1. PublishOK(r)
    BY DEF Recorded
  <2>2. PublishOK(r)'
    BY <1>2, <1>3, <1>4, <1>8, <2>1 DEF PublishOK
  <2>3. QED
    BY <1>2, <1>3, <1>4, <1>5, <2>2, QuietKeeps
<1>9. QED
  BY <1>3, <1>6, <1>7, <1>8

(* Steps that take an execution past the points Recorded speaks of.        *)
LEMMA LeavingKeeps ==
  ASSUME Types, Filled, HolderOK, Flight, Recorded, [Next]_vars, NEW r \in Runs,
         \/ ReadVideo(r) \/ Upload(r) \/ RecordPost(r) \/ StampPublish(r)
         \/ Raise(r) \/ Settle(r) \/ Kill(r)
  PROVE  Recorded'
<1>e. Executing(r)
  BY Execution DEF Types, ReadVideo, Upload, RecordPost, StampPublish, Raise, Settle, Kill,
                   PublishPC, Ending
<1>1. UNCHANGED <<guide, pins, file, row>>
  BY DEF ReadVideo, Upload, RecordPost, StampPublish, Raise, Settle, Kill, FailJob, cut
<1>2. status' \in {"in_review", "approved"} => status \in {"in_review", "approved"}
  BY DEF ReadVideo, Upload, RecordPost, StampPublish, Raise, Settle, Kill, FailJob, RolledBack,
         cut
<1>3. \/ EndRun(r)
      \/ \E p \in {"upload", "posted", "finalize"} \cup Ending : Goto(r, p)
      \/ run' = [run EXCEPT ![r].pc = "upload", ![r].sends = file]
  BY DEF ReadVideo, Upload, RecordPost, StampPublish, Raise, Settle, Kill, Ending
<1>4. /\ \A s \in Runs \ {r} : run'[s] = run[s]
      /\ run'[r].pc \in {"upload", "posted", "finalize", "over"} \cup Ending
  <2>1. CASE EndRun(r)
    BY <2>1 DEF EndRun, Over, Types, RunsOK
  <2>2. CASE \E p \in {"upload", "posted", "finalize"} \cup Ending : Goto(r, p)
    BY <1>e, <2>2, GotoEffect
  <2>3. CASE run' = [run EXCEPT ![r].pc = "upload", ![r].sends = file]
    <3>1. run[r] \in RenderRun \/ run[r] \in PublishRun
      BY <1>e, Execution DEF Types, RunsOK
    <3>2. QED
      BY <2>3, <3>1 DEF RenderRun, PublishRun, Types, RunsOK
  <2>4. QED
    BY <1>3, <2>1, <2>2, <2>3
<1>5. RenderOK(r)' /\ PublishOK(r)' /\ run'[r].pc # "composite"
  BY <1>4 DEF RenderOK, PublishOK, RenderPC, Ending
<1>6. QED
  BY <1>1, <1>2, <1>4, <1>5, QuietKeeps

(* With one render at a time every step keeps the record.                  *)
LEMMA RecordedStep ==
  ASSUME Types, Filled, HolderOK, Flight, Recorded, OneRender, [Next]_vars
  PROVE  Recorded'
<1>1. ASSUME NEW r \in Runs, Render(r) PROVE Recorded'
  BY <1>1, ReadPinsKeeps, WritePinsKeeps, BeatKeeps, CompositeKeeps, RefreshKeeps, StampKeeps
  DEF Render
<1>2. ASSUME NEW r \in Runs, Publish(r) PROVE Recorded'
  BY <1>2, GatesKeep, LeavingKeeps DEF Publish
<1>3. ASSUME NEW r \in Runs, Raise(r) \/ Settle(r) \/ Kill(r) PROVE Recorded'
  BY <1>3, LeavingKeeps
<1>4. ASSUME NEW j \in Jobs, NEW r \in Runs, Start(j, r) PROVE Recorded'
  BY <1>4, StartRenderKeeps, StartPublishKeeps DEF Start
<1>5. CASE ApproveCut \/ UNCHANGED vars \/ \E j \in Jobs : Operator(j) \/ Reaper(j)
  BY <1>5, RouteKeeps
<1>6. CASE UpdateCut
  BY <1>6, UpdateKeeps
<1>7. QED
  BY <1>1, <1>2, <1>3, <1>4, <1>5, <1>6 DEF Next

-----------------------------------------------------------------------------
(* All that is known of a cut, its video and its uploads.                  *)
CutInv == Types /\ FlightInv /\ Filled /\ VideoInv /\ UploadsAreGated

(* What was misreaped stays misreaped.                                     *)
LEMMA MisreapedStays == Types /\ [Next]_vars /\ Misreaped => Misreaped'
BY EveryStepIsJobChange, KindsStay DEF Misreaped, Types, JobsOK, JobRecords

LEMMA VideoStep ==
  ASSUME RenderSlots = 1, Types, FlightInv, Filled, VideoInv, [Next]_vars
  PROVE  VideoInv'
<1>1. HolderOK' /\ OneRender'
  BY HolderStep, OneRenderStep DEF VideoInv
<1>2. CASE Misreaped
  BY <1>1, <1>2, MisreapedStays DEF VideoInv
<1>3. CASE ~Misreaped
  BY <1>1, <1>3, RecordedStep DEF VideoInv, FlightInv
<1>4. QED
  BY <1>2, <1>3

(* What a live run sends passed the gates, and nothing replaced it since.  *)
LEMMA UploadsStep ==
  ASSUME Types, Filled, VideoInv, UploadsAreGated, [Next]_vars
  PROVE  UploadsAreGated'
<1> DEFINE Gated(u) == u.live =>
             /\ u.sent = u.row
             /\ \A v \in u.sent : v.guide = u.guide /\ \A p \in v.pins : p.asset \notin Unsafe
<1>1. CASE Misreaped
  BY <1>1, MisreapedStays DEF UploadsAreGated
<1>2. CASE ~Misreaped /\ UNCHANGED uploads
  BY <1>2 DEF UploadsAreGated
<1>3. ASSUME ~Misreaped, NEW r \in Runs, Sends(r) PROVE UploadsAreGated'
  <2>1. PICK new : new = [job |-> run[r].job, run |-> r, live |-> Live(r), sent |-> file,
                          row |-> row, guide |-> guide]
    OBVIOUS
  <2>2. run[r].pc = "read" /\ uploads' = uploads \cup {new}
    BY <1>3, <2>1 DEF Sends
  <2>3. PublishOK(r)
    BY <1>3 DEF VideoInv, Recorded
  <2>4. new.live = Live(r) /\ new.sent = file /\ new.row = row /\ new.guide = guide
    BY <2>1
  <2>5. Gated(new)
    BY <2>2, <2>3, <2>4 DEF PublishOK
  <2>6. \A u \in uploads : Gated(u)
    BY <1>3 DEF UploadsAreGated
  <2>7. QED
    BY <2>2, <2>5, <2>6 DEF UploadsAreGated
<1>4. QED
  BY <1>1, <1>2, <1>3, EveryStepIsRunChange DEF RunChange

(* The inductive invariant of the cut and its video.                       *)
LEMMA CutInvHolds ==
  ASSUME RenderSlots = 1
  PROVE  Spec => []CutInv
<1>1. Init => CutInv
  <2> SUFFICES ASSUME Init PROVE CutInv
    OBVIOUS
  <2>1. Types
    BY DEF Init, Types, CutOK, CutStatus, JobsOK, JobRecords, NoJob, RunsOK, Unused,
           RenderPC, PublishPC, Ending
  <2>2. FlightInv
    BY DEF Init, FlightInv, Flight, Flying, NoJob, Kinds, InFlight
  <2>3. Filled /\ UploadsAreGated
    BY DEF Init, Filled, NoJob, Unused, UploadsAreGated
  <2>4. HolderOK /\ OneRender
    BY DEF Init, HolderOK, OneRender, Rendering, Executing, Unused
  <2>5. RowRecords /\ Reviewed
    BY DEF Init, RowRecords, Reviewed
  <2>6. \A r \in Runs : RenderOK(r) /\ PublishOK(r)
    BY DEF Init, RenderOK, PublishOK, Unused, RenderPC
  <2>7. QED
    BY <2>1, <2>2, <2>3, <2>4, <2>5, <2>6 DEF CutInv, VideoInv, Recorded
<1>2. CutInv /\ [Next]_vars => CutInv'
  BY TypesStep, EveryStepIsJobChange, FlightStep, FilledStep, VideoStep, UploadsStep DEF CutInv
<1>3. QED
  BY <1>1, <1>2, PTL DEF Spec

(* While the rendering queue runs one task at a time, a cut that waits for *)
(* review or is approved has the very file its row describes, whatever     *)
(* killed, resumed or superseded renders did before.                       *)
THEOREM ReviewedVideoIsOnRecord ==
  ASSUME RenderSlots = 1
  PROVE  Spec => []RowDescribesVideo
<1>1. CutInv => RowDescribesVideo
  BY DEF CutInv, VideoInv, Recorded, Reviewed, RowDescribesVideo
<1>2. QED
  BY <1>1, CutInvHolds, PTL

(* While the rendering queue runs one task at a time, a publish that has   *)
(* its job sends the video on record, made for the guide as it is, and no  *)
(* uncleared asset in it, however late a superseded render writes.         *)
THEOREM UploadsPassedTheGates ==
  ASSUME RenderSlots = 1
  PROVE  Spec => []UploadsAreGated
<1>1. CutInv => UploadsAreGated
  BY DEF CutInv
<1>2. QED
  BY <1>1, CutInvHolds, PTL

(* While the rendering queue runs one task at a time, the guide and pins a *)
(* render re-reads and fingerprints are those of the file it composed.     *)
THEOREM RenderFingerprintsItsVideo ==
  ASSUME RenderSlots = 1
  PROVE  Spec => RenderRecordsItself
<1>1. CutInv /\ ~Misreaped /\ [Next]_vars /\ row' # row => row' = file
  <2> SUFFICES ASSUME CutInv, ~Misreaped, [Next]_vars, row' # row PROVE row' = file
    OBVIOUS
  <2>1. PICK r \in Runs : StampRender(r)
    <3>1. ~(UpdateCut \/ ApproveCut \/ UNCHANGED vars)
      BY DEF UpdateCut, ApproveCut, vars, cut
    <3>2. \A j \in Jobs : ~(Operator(j) \/ Reaper(j))
      BY DEF Operator, TriggerRender, TriggerPublish, NewJob, Reaper, FailPending, Reap,
             ReapDoneOrphan, FailJob, cut
    <3>3. \A j \in Jobs, r \in Runs : ~Start(j, r)
      BY DEF Start, StartRender, StartPublish, cut
    <3>4. ASSUME NEW r \in Runs,
                 \/ ReadPins(r) \/ WritePins(r) \/ BeatHeartbeat(r) \/ Composite(r)
                 \/ RefreshCut(r) \/ Gates(r) \/ HeartbeatBeforeUpload(r) \/ ReadVideo(r)
                 \/ Upload(r) \/ RecordPost(r) \/ StampPublish(r)
                 \/ Raise(r) \/ Settle(r) \/ Kill(r)
          PROVE  FALSE
      BY <3>4 DEF ReadPins, WritePins, BeatHeartbeat, Composite, RefreshCut, Gates,
                  HeartbeatBeforeUpload, ReadVideo, Upload, RecordPost, StampPublish,
                  Raise, Settle, Kill, FailJob, cut
    <3>5. QED
      BY <3>1, <3>2, <3>3, <3>4 DEF Next, Render, Publish
  <2>2. row' = {[guide |-> run[r].guide, pins |-> run[r].pins]} /\ run[r].pc = "stamp"
    BY <2>1 DEF StampRender, cut
  <2>3. RenderOK(r)
    BY DEF CutInv, VideoInv, Recorded
  <2>4. QED
    BY <2>2, <2>3 DEF RenderOK, RenderPC
<1>2. CutInv /\ [Next]_vars => [Misreaped \/ (row' # row => row' = file)]_vars
  BY <1>1
<1>3. QED
  BY <1>2, CutInvHolds, PTL DEF Spec, RenderRecordsItself

-----------------------------------------------------------------------------
(* Each job is a JobLifecycle.                                             *)

(* A job the operator has not asked for yet is blank.                      *)
Blank == \A j \in Jobs : job[j].status = "none" => job[j] = NoJob

LEMMA BlankStep ==
  ASSUME Types, Blank, JobChange
  PROVE  Blank'
<1> USE DEF Types, JobsOK, JobRecords, Blank
<1>1. CASE Quiet \/ Approved
  BY <1>1 DEF Quiet, Approved
<1>2. ASSUME NEW i \in Jobs, NEW k \in Kinds, Created(i, k) PROVE Blank'
  BY <1>2 DEF Created
<1>3. ASSUME NEW i \in Jobs,
             \/ \E s \in {"pending", "running"} : Moved(i, s)
             \/ Failed(i) \/ Completed(i) \/ Orphaned(i)
      PROVE  Blank'
  BY <1>3 DEF Moved, Failed, Completed, Orphaned
<1>4. QED
  BY <1>1, <1>2, <1>3 DEF JobChange

(* While one job flies at a time, to hold the cut is to fly.               *)
HoldsInv ==
  Misreaped \/ \A j \in Jobs : JobHolds(j) <=> job[j] = NoJob \/ Flying(j)

LEMMA HoldsWhileFlying == Types /\ Blank /\ FlightInv => HoldsInv
<1> SUFFICES ASSUME Types, Blank, Flight, NEW j \in Jobs
             PROVE  JobHolds(j) <=> job[j] = NoJob \/ Flying(j)
  BY DEF FlightInv, HoldsInv
<1>1. CASE job[j] = NoJob
  BY <1>1 DEF JobHolds
<1>2. CASE job[j] # NoJob
  <2>1. job[j].kind \in Kinds
    BY <1>2 DEF Blank, Types, JobsOK, JobRecords, Kinds
  <2>2. \A i \in Jobs : InFlightFor(i, job[j].kind) <=> Flying(i) /\ job[i].kind = job[j].kind
    BY DEF InFlightFor, Flying
  <2>3. CASE Flying(j)
    BY <1>2, <2>1, <2>2, <2>3 DEF Flight, JobHolds
  <2>4. CASE ~Flying(j)
    BY <1>2, <2>1, <2>2, <2>4 DEF Flight, JobHolds
  <2>5. QED
    BY <2>3, <2>4
<1>3. QED
  BY <1>1, <1>2

(* Every step that misreaps nothing is a step of each job's lifecycle, or  *)
(* leaves its phase and its hold as they are.                              *)
LEMMA LifecycleStep ==
  ASSUME Types, JobChange, HoldsInv, HoldsInv', ~Misreaped', NEW j \in Jobs
  PROVE  [Life(j)!Next]_<<JobPhase(j), JobHolds(j)>>
<1>2. /\ JobHolds(j) <=> job[j] = NoJob \/ Flying(j)
      /\ JobHolds(j)' <=> job'[j] = NoJob \/ Flying(j)'
  <2>1. ~Misreaped
    BY KindsStay DEF Misreaped, Types, JobsOK, JobRecords
  <2>2. QED
    BY <2>1 DEF HoldsInv
<1>b. JobHolds(j) \in BOOLEAN /\ JobHolds(j)' \in BOOLEAN
  BY DEF JobHolds
<1>3. CASE job'[j] = job[j]
  <2>1. JobPhase(j)' = JobPhase(j)
    BY <1>3 DEF JobPhase
  <2>2. JobHolds(j)' <=> JobHolds(j)
    BY <1>2, <1>3 DEF Flying
  <2>3. QED
    BY <1>b, <2>1, <2>2
<1>4. ASSUME NEW k \in Kinds, Created(j, k)
      PROVE  [Life(j)!Next]_<<JobPhase(j), JobHolds(j)>>
  <2>1. job[j] = NoJob /\ job'[j].status = "pending" /\ job'[j] # NoJob
    BY <1>4 DEF Created, NoJob, Types, JobsOK
  <2>2. JobPhase(j)' = JobPhase(j)
    BY <2>1 DEF JobPhase
  <2>3. JobHolds(j)' <=> JobHolds(j)
    BY <1>2, <2>1 DEF Flying
  <2>4. QED
    BY <1>b, <2>2, <2>3
<1>5. ASSUME Flying(j), NEW s \in {"pending", "running", "done", "failed"},
             job' = [job EXCEPT ![j].status = s],
             \/ s \in {"pending", "running", "failed"}
             \/ s = "done" /\ job[j].status = "running"
      PROVE  [Life(j)!Next]_<<JobPhase(j), JobHolds(j)>>
  <2>1. /\ job'[j].status = s
        /\ JobPhase(j) = job[j].status /\ JobPhase(j)' = s
        /\ job[j] # NoJob /\ job'[j] # NoJob
    BY <1>5 DEF Flying, JobPhase, NoJob, Types, JobsOK, JobRecords
  <2>2. (JobHolds(j) <=> TRUE) /\ (JobHolds(j)' <=> s \in {"pending", "running"})
    BY <1>2, <1>5, <2>1 DEF Flying
  <2>3. QED
    BY <1>b, <1>5, <2>1, <2>2
    DEF Flying, Life!Next, Life!Start, Life!HandBack, Life!Succeed, Life!Fail
<1>6. ASSUME NEW i \in Jobs,
             \/ \E k \in Kinds : Created(i, k)
             \/ \E s \in {"pending", "running"} : Moved(i, s)
             \/ Failed(i) \/ Completed(i) \/ Orphaned(i)
      PROVE  [Life(j)!Next]_<<JobPhase(j), JobHolds(j)>>
  <2>1. CASE i # j
    <3>1. job'[j] = job[j]
      BY <1>6, <2>1 DEF Created, Moved, Failed, Completed, Orphaned, Types, JobsOK
    <3>2. QED
      BY <1>3, <3>1
  <2>2. CASE i = j
    <3>1. ~Orphaned(j)
      BY DEF Orphaned, Misreaped, Types, JobsOK, JobRecords
    <3>2. QED
      BY <1>4, <1>5, <1>6, <2>2, <3>1 DEF Moved, Failed, Completed, Flying
  <2>3. QED
    BY <2>1, <2>2
<1>7. QED
  BY <1>3, <1>6 DEF JobChange, Quiet, Approved

(* Each render and publish job of the cut implements JobLifecycle, until a *)
(* job of its cut is misreaped.                                            *)
THEOREM JobsImplementLifecycle == Spec => JobsAreLifecycles
<1> DEFINE Inv == Types /\ FlightInv /\ Blank
           Steps == \A j \in Jobs : Misreaped' \/ [Life(j)!Next]_<<JobPhase(j), JobHolds(j)>>
<1>1. Init => Inv
  <2>1. Init => Types
    BY DEF Init, Types, CutOK, CutStatus, JobsOK, JobRecords, NoJob, RunsOK, Unused,
           RenderPC, PublishPC, Ending
  <2>2. Init => FlightInv /\ Blank
    BY DEF Init, FlightInv, Flight, Blank, Flying, NoJob, Kinds, InFlight
  <2>3. QED
    BY <2>1, <2>2
<1>2. Inv /\ [Next]_vars => Inv'
  BY TypesStep, EveryStepIsJobChange, FlightStep, BlankStep
<1>3. Init => \A j \in Jobs : Life(j)!Init
  BY DEF Init, Life!Init, JobPhase, JobHolds
<1>4. Inv => HoldsInv
  BY HoldsWhileFlying
<1>5. Inv /\ HoldsInv /\ HoldsInv' /\ [Next]_vars => [Steps]_vars
  BY EveryStepIsJobChange, LifecycleStep
<1>6. QED
  BY <1>1, <1>2, <1>3, <1>4, <1>5, PTL DEF Spec, JobsAreLifecycles

-----------------------------------------------------------------------------
(* The post and the video on record.                                       *)

(* Who touches the row, the post, the published status and a done job.     *)
LEMMA Touches ==
  ASSUME Types, [Next]_vars
  PROVE  /\ row' # row => \E r \in Runs : StampRender(r)
         /\ post' # post => \E r \in Runs : RecordPost(r)
         /\ status' = "published" /\ status # "published" => \E r \in Runs : StampPublish(r)
         /\ \A j \in Jobs : job'[j].status = "done" /\ job[j].status # "done"
              => \E r \in Runs : Executing(r) /\ run[r].job = j /\ run'[r] = Over
<1> DEFINE Done(j) == job'[j].status = "done" /\ job[j].status # "done"
           Stamped == \E r \in Runs : StampPublish(r)
           Goal == /\ row' # row => \E r \in Runs : StampRender(r)
                   /\ post' # post => \E r \in Runs : RecordPost(r)
                   /\ status' = "published" /\ status # "published" => Stamped
                   /\ \A j \in Jobs : Done(j)
                        => \E r \in Runs : Executing(r) /\ run[r].job = j /\ run'[r] = Over
<1> USE DEF Types, JobsOK, JobRecords
<1>1. ASSUME UNCHANGED <<row, post, status>> \/ (UNCHANGED <<row, post>> /\ status' # "published"),
             \A j \in Jobs : ~Done(j)
      PROVE  Goal
  BY <1>1
<1>2. CASE UpdateCut \/ ApproveCut \/ UNCHANGED vars
  BY <1>2 DEF UpdateCut, ApproveCut, vars, cut
<1>3. ASSUME NEW j \in Jobs, Operator(j) PROVE Goal
  <2>1. PICK k \in {"render", "publish"} : NewJob(j, k)
    BY <1>3 DEF Operator, TriggerRender, TriggerPublish
  <2>2. UNCHANGED <<row, post>> /\ status' # "published"
    BY <2>1 DEF NewJob, InFlight
  <2>3. \A i \in Jobs : ~Done(i)
    BY <2>1 DEF NewJob
  <2>4. QED
    BY <1>1, <2>2, <2>3
<1>4. ASSUME NEW j \in Jobs, Reaper(j) PROVE Goal
  <2>1. UNCHANGED <<row, post>> /\ (status' = status \/ status' # "published")
    BY <1>4 DEF Reaper, FailPending, Reap, ReapDoneOrphan, FailJob, RolledBack, cut
  <2>2. \A i \in Jobs : ~Done(i)
    BY <1>4 DEF Reaper, FailPending, Reap, ReapDoneOrphan, FailJob, SetJob
  <2>3. QED
    BY <1>1, <2>1, <2>2
<1>5. ASSUME NEW j \in Jobs, NEW r \in Runs, Start(j, r) PROVE Goal
  <2>1. UNCHANGED <<row, post, status>>
    BY <1>5 DEF Start, StartRender, StartPublish, cut
  <2>2. \A i \in Jobs : ~Done(i)
    BY <1>5 DEF Start, StartRender, StartPublish, SetJob
  <2>3. QED
    BY <1>1, <2>1, <2>2
<1>6. ASSUME NEW r \in Runs, StampRender(r) \/ StampPublish(r) PROVE Goal
  <2>1. Executing(r) /\ run[r].job \in Jobs
    BY <1>6, Execution DEF StampRender, StampPublish, RenderPC, PublishPC
  <2>2. CASE UNCHANGED job
    <3>1. UNCHANGED post /\ (UNCHANGED <<row, status>> \/ job' # job)
      BY <1>6, <2>1 DEF StampRender, StampPublish, SetJob, Live, cut
    <3>2. QED
      BY <1>1, <2>2, <3>1
  <2>3. CASE SetJob(run[r].job, "done") /\ EndRun(r)
    <3>1. \A j \in Jobs : Done(j) => j = run[r].job
      BY <2>1, <2>3 DEF SetJob
    <3>2. run'[r] = Over
      BY <2>3 DEF EndRun, RunsOK
    <3>3. /\ UNCHANGED post
          /\ StampPublish(r) => UNCHANGED row
          /\ StampRender(r) => status' = "in_review" \/ UNCHANGED status
      BY <1>6 DEF StampRender, StampPublish, cut
    <3>4. QED
      BY <1>6, <2>1, <3>1, <3>2, <3>3
  <2>4. QED
    BY <1>6, <2>2, <2>3 DEF StampRender, StampPublish
<1>7. ASSUME NEW r \in Runs, Settle(r) PROVE Goal
  <2>1. Executing(r) /\ run[r].job \in Jobs
    BY <1>7, Execution DEF Settle, Ending
  <2>2. UNCHANGED <<row, post>> /\ (status' = status \/ status' # "published")
    BY <1>7 DEF Settle, FailJob, RolledBack, cut
  <2>3. \A j \in Jobs : ~Done(j)
    BY <1>7, <2>1 DEF Settle, FailJob, SetJob
  <2>4. QED
    BY <1>1, <2>2, <2>3
<1>8. ASSUME NEW r \in Runs, RecordPost(r) PROVE Goal
  BY <1>8 DEF RecordPost
<1>9. ASSUME NEW r \in Runs,
             \/ ReadPins(r) \/ WritePins(r) \/ BeatHeartbeat(r) \/ Composite(r) \/ RefreshCut(r)
             \/ Gates(r) \/ HeartbeatBeforeUpload(r) \/ ReadVideo(r) \/ Upload(r)
             \/ Raise(r) \/ Kill(r)
      PROVE  Goal
  <2>1. UNCHANGED <<row, post, status, job>>
    BY <1>9 DEF ReadPins, WritePins, BeatHeartbeat, Composite, RefreshCut, Gates,
                HeartbeatBeforeUpload, ReadVideo, Upload, Raise, Kill, cut
  <2>2. QED
    BY <1>1, <2>1
<1>10. QED
  BY <1>2, <1>3, <1>4, <1>5, <1>6, <1>7, <1>8, <1>9 DEF Next, Render, Publish

(* How a publish comes to a point past the gates.                          *)
LEMMA LateMoves ==
  ASSUME Types, [Next]_vars, NEW r \in Runs, run'[r] # run[r],
         run'[r].pc \in {"upload", "posted", "finalize"}
  PROVE  \/ Gates(r) /\ run[r].post # {} /\ run'[r].pc = "finalize"
         \/ ReadVideo(r) /\ run'[r].pc = "upload"
         \/ Upload(r) /\ run'[r].pc = "posted"
         \/ RecordPost(r) /\ run'[r].pc = "finalize"
<1> USE DEF Types
<1>1. ~(UpdateCut \/ ApproveCut \/ UNCHANGED vars)
  BY DEF UpdateCut, ApproveCut, vars
<1>2. \A j \in Jobs : ~(Operator(j) \/ Reaper(j))
  BY DEF Operator, TriggerRender, TriggerPublish, NewJob, Reaper, FailPending, Reap,
         ReapDoneOrphan
<1>3. \A j \in Jobs : \A q \in Runs : ~Start(j, q)
  BY DEF Start, StartRender, StartPublish, RunsOK
<1>4. ASSUME NEW q \in Runs, \E p \in {"resolve", "composite", "refresh", "permanent", "transient"} :
               Goto(q, p)
      PROVE  FALSE
  BY <1>4 DEF Goto, RunsOK
<1>5. ASSUME NEW q \in Runs, EndRun(q) PROVE FALSE
  BY <1>5 DEF EndRun, Over, RunsOK
<1>6. ASSUME NEW q \in Runs, Render(q) PROVE FALSE
  <2>0. run[q].pc \in RenderPC => run[q] \in RenderRun
    BY Execution
  <2>1. CASE ReadPins(q) \/ WritePins(q) \/ RefreshCut(q)
    <3>1. run[q] \in RenderRun
      BY <2>0, <2>1 DEF ReadPins, WritePins, RefreshCut, RenderPC
    <3>2. r # q => run'[r] = run[r]
      BY <2>1 DEF ReadPins, WritePins, RefreshCut, Goto, RunsOK
    <3>3. run'[q].pc \in {"resolve", "beat", "stamp", "permanent"}
      BY <2>1, <3>1 DEF ReadPins, WritePins, RefreshCut, Goto, RunsOK, RenderRun
    <3>4. QED
      BY <3>2, <3>3
  <2>2. CASE BeatHeartbeat(q) \/ Composite(q) \/ StampRender(q)
    BY <1>4, <1>5, <2>2 DEF BeatHeartbeat, Composite, StampRender
  <2>3. QED
    BY <1>6, <2>1, <2>2 DEF Render
<1>7. ASSUME NEW q \in Runs, Raise(q) \/ Settle(q) \/ Kill(q) PROVE FALSE
  BY <1>4, <1>5, <1>7 DEF Raise, Settle, Kill
<1>8. ASSUME NEW q \in Runs, Publish(q)
      PROVE  \/ Gates(r) /\ run[r].post # {} /\ run'[r].pc = "finalize"
             \/ ReadVideo(r) /\ run'[r].pc = "upload"
             \/ Upload(r) /\ run'[r].pc = "posted"
             \/ RecordPost(r) /\ run'[r].pc = "finalize"
  <2>1. CASE StampPublish(q)
    BY <1>4, <1>5, <2>1 DEF StampPublish
  <2>0. run[q].pc \in PublishPC => run[q] \in PublishRun /\ Executing(q)
    BY Execution
  <2>2. CASE Gates(q) \/ HeartbeatBeforeUpload(q)
    <3>1. Executing(q)
      BY <2>0, <2>2 DEF Gates, HeartbeatBeforeUpload, PublishPC
    <3>2. PICK p \in {"gated", "read", "finalize", "permanent"} : Goto(q, p)
      BY <2>2 DEF Gates, HeartbeatBeforeUpload
    <3>3. run'[q].pc = p /\ (r # q => run'[r] = run[r])
      BY <3>1, <3>2, GotoEffect
    <3>4. r = q /\ p = "finalize"
      BY <3>3
    <3>5. /\ HeartbeatBeforeUpload(r) => run'[r].pc \in {"read", "permanent"}
          /\ Gates(r) /\ run[r].post = {} => run'[r].pc \in {"permanent", "gated"}
      BY <3>1, <3>4, GotoEffect DEF Gates, HeartbeatBeforeUpload
    <3>6. QED
      BY <2>2, <3>3, <3>4, <3>5
  <2>3. CASE ReadVideo(q)
    <3>1. run[q] \in PublishRun
      BY <2>0, <2>3 DEF ReadVideo, PublishPC
    <3>2. run'[q].pc = "upload" /\ (r # q => run'[r] = run[r])
      BY <2>3, <3>1 DEF ReadVideo, RunsOK, PublishRun
    <3>3. QED
      BY <2>3, <3>2
  <2>4. CASE Upload(q) \/ RecordPost(q)
    <3>1. Executing(q)
      BY <2>0, <2>4 DEF Upload, RecordPost, PublishPC
    <3>2. /\ Upload(q) => run'[q].pc = "posted"
          /\ RecordPost(q) => run'[q].pc = "finalize"
          /\ r # q => run'[r] = run[r]
      BY <2>4, <3>1, GotoEffect DEF Upload, RecordPost
    <3>3. QED
      BY <2>4, <3>2
  <2>5. QED
    BY <1>8, <2>1, <2>2, <2>3, <2>4 DEF Publish
<1>9. QED
  BY <1>1, <1>2, <1>3, <1>6, <1>7, <1>8 DEF Next

(* The execution of a publish has its job or the job failed.               *)
Owned ==
  \A r \in Runs : Executing(r) /\ Kind(r) = "publish" =>
    holder[run[r].job] = r /\ job[run[r].job].status \in {"running", "failed"}

(* A post is seen by who finalizes or saw it; what is on its way to be     *)
(* recorded was sent; a published cut has a post.                          *)
PostSeen ==
  /\ status = "published" => post # {}
  /\ \A r \in Runs :
       /\ run[r].pc = "gates" /\ run[r].post # {} => post # {}
       /\ run[r].pc = "finalize" => post # {}
       /\ run[r].pc \in {"upload", "posted"} =>
            \E u \in uploads : u.job = run[r].job /\ u.sent = run[r].sends

(* The post is the upload of a publish that failed.                        *)
LatePost == \E u \in uploads : u.sent = post /\ job[u.job].status = "failed"

(* A publish that has its job sends the video on record, so that a render  *)
(* that has its job meets a late post only.                                *)
PostMatches ==
  /\ \A r \in Runs : run[r].pc \in {"upload", "posted"} /\ Live(r) => run[r].sends = row
  /\ \A j \in Jobs : Flying(j) /\ job[j].kind = "render" /\ post # {} => LatePost
  /\ post # {} => post = row \/ LatePost

PostInv == Owned /\ PostSeen /\ (Misreaped \/ PostMatches)

(* A publish loses its job only by failing, and ends when it is done.      *)
LEMMA OwnedStep ==
  ASSUME Types, Filled, OnceInv, HolderOK, Owned, [Next]_vars
  PROVE  Owned'
<1>c. JobChange /\ RunChange
  BY EveryStepIsJobChange, EveryStepIsRunChange
<1> SUFFICES ASSUME NEW s \in Runs, Executing(s)', Kind(s)' = "publish"
             PROVE  /\ holder'[run'[s].job] = s
                    /\ job'[run'[s].job].status \in {"running", "failed"}
  BY DEF Owned
<1>1. CASE Executing(s) /\ run'[s].job = run[s].job
  <2>1. PICK j \in Jobs : j = run[s].job
    BY <1>1, Execution DEF Types
  <2>2. job[j].kind = "publish"
    <3>1. job[j].kind # "none"
      BY <1>1, <2>1, Execution DEF Types, RunsOK
    <3>2. QED
      BY <1>c, <1>1, <2>1, <3>1, KindStays DEF Kind
  <2>3. holder[j] = s /\ job[j].status \in {"running", "failed"}
    BY <1>1, <2>1, <2>2 DEF Owned, Kind
  <2>4. holder'[j] = s
    BY <2>3, OnlyStarts DEF HolderOK, Start, StartRender, StartPublish
  <2>5. job'[j].status # "done"
    <3>1. SUFFICES ASSUME job'[j].status = "done" PROVE FALSE
      OBVIOUS
    <3>2. PICK r \in Runs : Executing(r) /\ run[r].job = j /\ run'[r] = Over
      BY <2>3, <3>1, Touches
    <3>3. r = s
      BY <1>1, <2>1, <2>2, <3>2 DEF OnceInv, Claimed
    <3>4. QED
      BY <3>2, <3>3 DEF Executing, Over
  <2>6. job'[j].status \in {"running", "failed", "done"}
    BY <1>c, <2>2, <2>3, JobFacts, KindsStay DEF Types, JobsOK, JobRecords
  <2>7. QED
    BY <1>1, <2>1, <2>4, <2>5, <2>6
<1>2. ASSUME NEW j \in Jobs, Starts(j, s) PROVE holder'[j] = s /\ job'[j].status = "running"
  BY <1>2 DEF Starts, Start, StartRender, StartPublish, HolderOK
<1>3. QED
  BY <1>c, <1>1, <1>2, ExecutingNext

(* Uploads are history.                                                    *)
LEMMA UploadsGrow ==
  ASSUME Types, Filled, [Next]_vars
  PROVE  uploads \subseteq uploads'
BY EveryStepIsRunChange DEF RunChange, Sends

LEMMA PostSeenStep ==
  ASSUME Types, Filled, PostSeen, [Next]_vars
  PROVE  PostSeen'
<1>1. post # {} => post' # {}
  BY DataStep
<1>2. status' = "published" => post' # {}
  <2>1. ASSUME NEW r \in Runs, StampPublish(r) PROVE post # {}
    BY <2>1 DEF StampPublish, PostSeen
  <2>2. QED
    BY <1>1, <2>1, Touches DEF PostSeen
<1>3. ASSUME NEW r \in Runs, run'[r].pc = "gates" /\ run'[r].post # {} PROVE post' # {}
  <2>1. CASE run'[r] = run[r]
    BY <1>1, <1>3, <2>1 DEF PostSeen
  <2>2. CASE Goes(r)
    BY <1>3, <2>2 DEF Goes, Over
  <2>3. ASSUME NEW j \in Jobs, Starts(j, r) PROVE run'[r].post = post
    BY <1>3, <2>3 DEF Starts
  <2>4. QED
    BY <1>1, <1>3, <2>1, <2>2, <2>3, EveryStepIsRunChange DEF RunChange, Sends, Goes, Starts
<1>4. ASSUME NEW r \in Runs, run'[r].pc = "finalize" PROVE post' # {}
  <2>1. CASE run'[r] = run[r]
    BY <1>1, <1>4, <2>1 DEF PostSeen
  <2>2. CASE Gates(r) /\ run[r].post # {}
    BY <1>1, <2>2 DEF PostSeen, Gates
  <2>3. CASE RecordPost(r)
    BY <2>3 DEF RecordPost, Filled
  <2>4. QED
    BY <1>4, <2>1, <2>2, <2>3, LateMoves
<1>5. ASSUME NEW r \in Runs, run'[r].pc \in {"upload", "posted"}
      PROVE  \E u \in uploads' : u.job = run'[r].job /\ u.sent = run'[r].sends
  <2>1. CASE run'[r] = run[r]
    BY <1>5, <2>1, UploadsGrow DEF PostSeen
  <2>2. CASE ReadVideo(r)
    <3>1. run[r] \in PublishRun
      BY <2>2, AtPublish DEF ReadVideo, PublishPC
    <3>2. run'[r].job = run[r].job /\ run'[r].sends = file
      BY <2>2, <3>1 DEF ReadVideo, PublishRun, Types, RunsOK
    <3>3. PICK new : new = [job |-> run[r].job, run |-> r, live |-> Live(r), sent |-> file,
                            row |-> row, guide |-> guide]
      OBVIOUS
    <3>4. new \in uploads'
      BY <2>2, <3>3 DEF ReadVideo
    <3>5. new.job = run[r].job /\ new.sent = file
      BY <3>3
    <3>6. QED
      BY <3>2, <3>4, <3>5
  <2>3. CASE Upload(r)
    <3>1. /\ run[r] \in PublishRun /\ Executing(r)
          /\ run[r].pc = "upload" /\ Goto(r, "posted") /\ UNCHANGED uploads
      BY <2>3, AtPublish DEF Upload, PublishPC
    <3>2. run'[r].job = run[r].job /\ run'[r].sends = run[r].sends
      BY <3>1, GotoEffect
    <3>3. QED
      BY <3>1, <3>2 DEF PostSeen
  <2>4. QED
    BY <1>5, <2>1, <2>2, <2>3, LateMoves
<1>6. QED
  BY <1>2, <1>3, <1>4, <1>5 DEF PostSeen

(* A failed job stays failed, so a late post stays late until it is        *)
(* replaced.                                                               *)
LEMMA LatePostStays ==
  ASSUME Types, Filled, Uploaded, [Next]_vars, LatePost, UNCHANGED post
  PROVE  LatePost'
<1>1. PICK u \in uploads : u.sent = post /\ job[u.job].status = "failed"
  BY DEF LatePost
<1>2. u.job \in Jobs /\ u \in uploads'
  BY UploadsGrow DEF Uploaded, UploadOK
<1>3. job'[u.job].status = "failed"
  <2> USE DEF Types, JobsOK, JobRecords
  <2>1. CASE Quiet \/ Approved
    BY <1>1, <2>1 DEF Quiet, Approved
  <2>2. ASSUME NEW i \in Jobs, NEW k \in Kinds, Created(i, k)
        PROVE  job'[u.job].status = "failed"
    BY <1>1, <1>2, <2>2 DEF Created, NoJob
  <2>3. ASSUME NEW i \in Jobs,
               \/ \E x \in {"pending", "running"} : Moved(i, x)
               \/ Failed(i) \/ Completed(i) \/ Orphaned(i)
        PROVE  job'[u.job].status = "failed"
    BY <1>1, <1>2, <2>3 DEF Moved, Failed, Completed, Orphaned, Flying
  <2>4. QED
    BY <2>1, <2>2, <2>3, EveryStepIsJobChange DEF JobChange
<1>4. QED
  BY <1>1, <1>2, <1>3 DEF LatePost

(* What a publish without its job records is late.                         *)
LEMMA RecordsLate ==
  ASSUME Types, Filled, Owned, PostSeen, [Next]_vars, NEW r \in Runs, RecordPost(r), ~Live(r)
  PROVE  LatePost'
<1>1. run[r].pc = "posted" /\ post' = run[r].sends /\ UNCHANGED <<job, uploads>>
  BY DEF RecordPost
<1>2. job[run[r].job].status = "failed"
  BY <1>1, AtPublish DEF Owned, Kind, Live, PublishPC
<1>3. QED
  BY <1>1, <1>2 DEF PostSeen, LatePost


(* A video is recorded by a render that has its job, and no post with it.  *)
LEMMA RowChanges ==
  ASSUME Types, [Next]_vars, row' # row
  PROVE  \E r \in Runs : StampRender(r) /\ Rendering(r) /\ Live(r) /\ UNCHANGED post
<1>1. PICK r \in Runs : StampRender(r)
  BY Touches
<1>2. Live(r) /\ UNCHANGED post
  BY <1>1 DEF StampRender, cut
<1>3. Rendering(r)
  BY <1>1, AtRender DEF StampRender, RenderPC
<1>4. QED
  BY <1>1, <1>2, <1>3

(* A publish that has its job sends the video on record.                   *)
LEMMA SendsStep ==
  ASSUME Types, Filled, HolderOK, Flight, Recorded, PostMatches, [Next]_vars,
         NEW r \in Runs, run'[r].pc \in {"upload", "posted"}, Live(r)', RunsOK'
  PROVE  run'[r].sends = row'
<1>1. Executing(r)'
  BY DEF Executing
<1>2. \A j \in Jobs : ~Start(j, r)
  BY DEF Start, StartRender, StartPublish, Types, RunsOK
<1>3. Executing(r) /\ Live(r)
  BY <1>1, <1>2, LiveStays
<1>4. CASE run'[r] = run[r]
  <2>1. Kind(r) = "publish" /\ run[r].sends = row
    BY <1>3, <1>4, AtPublish DEF PublishPC, Kind, PostMatches
  <2>2. row' = row
    <3>1. SUFFICES ASSUME row' # row PROVE FALSE
      OBVIOUS
    <3>2. PICK s \in Runs : Rendering(s) /\ Live(s)
      BY <3>1, RowChanges
    <3>3. QED
      BY <1>3, <2>1, <3>2, OneLive DEF Rendering
  <2>3. QED
    BY <1>4, <2>1, <2>2
<1>5. CASE ReadVideo(r)
  <2>1. run[r] \in PublishRun
    BY <1>5, AtPublish DEF ReadVideo, PublishPC
  <2>2. run'[r].sends = file
    BY <1>5, <2>1 DEF ReadVideo, PublishRun, Types, RunsOK
  <2>3. file = row /\ UNCHANGED row
    BY <1>3, <1>5 DEF Recorded, PublishOK, ReadVideo, cut
  <2>4. QED
    BY <2>2, <2>3
<1>6. CASE Upload(r)
  <2>1. /\ run[r] \in PublishRun /\ run[r].pc = "upload"
        /\ Goto(r, "posted") /\ UNCHANGED row
    BY <1>6, AtPublish DEF Upload, PublishPC, cut
  <2>2. run'[r].sends = run[r].sends
    BY <1>3, <2>1, GotoEffect
  <2>3. QED
    BY <1>3, <2>1, <2>2 DEF PostMatches
<1>7. QED
  BY <1>4, <1>5, <1>6, LateMoves

(* A post that a render in flight finds, or that is recorded meanwhile, is *)
(* late.                                                                   *)
LEMMA MeetsLatePost ==
  ASSUME Types, Filled, Flight, Uploaded, Owned, PostSeen, PostMatches, [Next]_vars,
         NEW j \in Jobs, Flying(j)', job'[j].kind = "render", post' # {}
  PROVE  LatePost'
<1>1. ASSUME NEW r \in Runs, RecordPost(r) PROVE LatePost'
  <2>1. Flying(j) /\ job[j].kind = "render"
    BY <1>1 DEF RecordPost, Flying
  <2>2. Executing(r) /\ Kind(r) = "publish"
    BY <1>1, AtPublish DEF RecordPost, PublishPC, Kind
  <2>3. ~Live(r)
    <3>1. SUFFICES ASSUME Live(r) PROVE FALSE
      OBVIOUS
    <3>2. run[r].job \in Jobs /\ Flying(run[r].job)
      BY <2>2, <3>1, LiveFlies
    <3>3. run[r].job = j
      BY <2>1, <3>2 DEF Flight
    <3>4. QED
      BY <2>1, <2>2, <3>3 DEF Kind
  <2>4. QED
    BY <1>1, <2>3, RecordsLate
<1>2. CASE UNCHANGED post
  <2>1. Flying(j) /\ job[j].kind = "render"
    <3> USE DEF Types, JobsOK, JobRecords, Flying
    <3>1. CASE Quiet \/ Approved
      BY <3>1 DEF Quiet, Approved
    <3>2. ASSUME NEW i \in Jobs, NEW k \in Kinds, Created(i, k)
          PROVE  Flying(j) /\ job[j].kind = "render"
      BY <1>2, <3>2 DEF Created
    <3>3. ASSUME NEW i \in Jobs,
                 \/ \E x \in {"pending", "running"} : Moved(i, x)
                 \/ Failed(i) \/ Completed(i) \/ Orphaned(i)
          PROVE  Flying(j) /\ job[j].kind = "render"
      BY <3>3 DEF Moved, Failed, Completed, Orphaned
    <3>4. QED
      BY <3>1, <3>2, <3>3, EveryStepIsJobChange DEF JobChange
  <2>2. LatePost
    BY <1>2, <2>1 DEF PostMatches
  <2>3. QED
    BY <1>2, <2>2, LatePostStays
<1>3. QED
  BY <1>1, <1>2, Touches

LEMMA PostMatchesStep ==
  ASSUME Types, Types', Filled, HolderOK, Flight, Recorded, Uploaded, Owned, PostSeen,
         PostMatches, [Next]_vars
  PROVE  PostMatches'
<1>1. \A r \in Runs : run'[r].pc \in {"upload", "posted"} /\ Live(r)' => run'[r].sends = row'
  BY SendsStep DEF Types
<1>2. \A j \in Jobs : Flying(j)' /\ job'[j].kind = "render" /\ post' # {} => LatePost'
  BY MeetsLatePost
<1>3. post' # {} => post' = row' \/ LatePost'
  <2>1. ASSUME NEW r \in Runs, RecordPost(r) PROVE post' = row' \/ LatePost'
    <3>1. CASE Live(r)
      BY <2>1, <3>1 DEF RecordPost, PostMatches
    <3>2. CASE ~Live(r)
      BY <2>1, <3>2, RecordsLate
    <3>3. QED
      BY <3>1, <3>2
  <2>2. CASE row' # row /\ post' # {}
    <3>1. PICK r \in Runs : Rendering(r) /\ Live(r) /\ UNCHANGED post
      BY <2>2, RowChanges
    <3>2. Executing(r) /\ job[run[r].job].kind = "render"
      BY <3>1 DEF Rendering, Kind
    <3>3. run[r].job \in Jobs /\ Flying(run[r].job)
      BY <3>1, <3>2, LiveFlies
    <3>4. LatePost
      BY <2>2, <3>1, <3>2, <3>3 DEF PostMatches
    <3>5. QED
      BY <3>1, <3>4, LatePostStays
  <2>3. CASE row' = row /\ post' = post /\ post' # {}
    BY <2>3, LatePostStays DEF PostMatches
  <2>4. QED
    BY <2>1, <2>2, <2>3, Touches
<1>4. QED
  BY <1>1, <1>2, <1>3 DEF PostMatches

(* While the rendering queue runs one task at a time, a published cut has  *)
(* a post, and a post is of the video on record or of a publish that lost  *)
(* its job during the upload: no other order of renders, publishes and     *)
(* reaper passes leaves a post of another video.                           *)
THEOREM PostOnRecord ==
  ASSUME RenderSlots = 1
  PROVE  Spec => []PostIsOnRecord
<1> DEFINE Known == Types /\ Filled /\ OnceInv /\ CutInv
<1>1. Init => PostInv
  <2> SUFFICES ASSUME Init PROVE PostInv
    OBVIOUS
  <2>1. Owned /\ PostSeen
    BY DEF Init, Owned, PostSeen, Executing, Unused
  <2>2. PostMatches
    BY DEF Init, PostMatches, Flying, NoJob, Unused
  <2>3. QED
    BY <2>1, <2>2 DEF PostInv
<1>2. Known /\ Known' /\ PostInv /\ [Next]_vars => PostInv'
  <2> SUFFICES ASSUME Known, Known', PostInv, [Next]_vars PROVE PostInv'
    OBVIOUS
  <2>1. Owned' /\ PostSeen'
    BY OwnedStep, PostSeenStep DEF PostInv, CutInv, VideoInv
  <2>2. CASE Misreaped
    BY <2>1, <2>2, MisreapedStays DEF PostInv
  <2>3. CASE ~Misreaped
    BY <2>1, <2>3, PostMatchesStep DEF PostInv, CutInv, VideoInv, FlightInv, OnceInv
  <2>4. QED
    BY <2>2, <2>3
<1>3. PostInv => PostIsOnRecord
  BY DEF PostInv, PostSeen, PostMatches, LatePost, PostIsOnRecord
<1>4. Spec => []Known
  BY OnceInvHolds, CutInvHolds, PTL
<1>5. QED
  BY <1>1, <1>2, <1>3, <1>4, PTL DEF Spec
=============================================================================
