---------------------------- MODULE CutPipeline ----------------------------
(***************************************************************************)
(* One cut from its accepted guide to its post: the routes of              *)
(* api/routers/cuts.py, the bodies of render_cut and publish_cut, the      *)
(* asset pins of resolve_or_reuse, the publish gates and the reaper.       *)
(*                                                                         *)
(* The lifecycle of each Job is JobTask's, reduced to what its fence       *)
(* guarantees: at most one run holds a running job, a run that lost it may *)
(* go on executing, and its fenced writes then change nothing. The video,  *)
(* its fingerprints and the platform's post are represented by what built  *)
(* them: a guide and a set of pins. A cut has one beat.                    *)
(***************************************************************************)
EXTENDS Naturals, FiniteSets

CONSTANTS
  Jobs,         \* the render and publish jobs the operator may create
  Runs,         \* executions by a worker; bounds retries, resumes, redeliveries
  NoRun,
  Texts,        \* what a guide says; an edit may change it ...
  Directions,   \* ... or the visual_direction of its beat
  Assets,       \* what the asset sources can return
  Unsafe,       \* the assets that are not safe_to_publish
  RenderSlots   \* concurrency of the rendering queue

ASSUME CutPipelineAssumption ==
  /\ NoRun \notin Runs /\ IsFiniteSet(Runs)
  /\ Unsafe \subseteq Assets
  /\ RenderSlots \in Nat \ {0}

VARIABLES
  status,  \* Cut.status
  guide,   \* Cut.guide
  pins,    \* the CutAsset rows bound to the cut: none, or the beat's
  file,    \* what the file at video_path was built from: none, or one content
  row,     \* video_path and the two rendered_*_fingerprints, as what they describe
  post,    \* platform_post_id, as the content it was posted with
  job,     \* the jobs
  holder,  \* for each job, the run whose claim token it carries
  run,     \* the executions
  uploads  \* what was sent to the platform so far

cut   == <<status, guide, pins, file, row, post>>
vars  == <<cut, job, holder, run, uploads>>

CutStatus == {"draft", "rendering", "in_review", "approved", "publishing",
              "published", "failed"}
InFlight  == [render |-> "rendering", publish |-> "publishing"]
Guides    == [text : Texts, footage : Directions]
Pins      == [resolved_from : Directions, asset : Assets]
Content   == [guide : Guides, pins : SUBSET Pins]
RenderPC  == {"pins", "resolve", "beat", "composite", "refresh", "stamp"}
PublishPC == {"gates", "gated", "read", "upload", "posted", "finalize"}
RunPC     == RenderPC \cup PublishPC \cup {"unused", "transient", "permanent", "over"}

NoJob  == [kind |-> "none", status |-> "none", misreaped |-> FALSE, posted |-> FALSE]
Unused == [pc |-> "unused"]
Over   == [pc |-> "over"]

TypeOK ==
  /\ status \in CutStatus
  /\ guide \in Guides
  /\ pins \in SUBSET Pins /\ Cardinality(pins) <= 1
  /\ \A c \in {file, row, post} : c \in SUBSET Content /\ Cardinality(c) <= 1
  /\ \A j \in Jobs : job[j] = NoJob \/
       /\ job[j].kind \in DOMAIN InFlight
       /\ job[j].status \in {"pending", "running", "done", "failed"}
  /\ holder \in [Jobs -> Runs \cup {NoRun}]
  /\ \A r \in Runs : run[r].pc \in RunPC

Init ==
  /\ status = "draft"
  /\ guide \in Guides
  /\ pins = {} /\ file = {} /\ row = {} /\ post = {}
  /\ job = [j \in Jobs |-> NoJob]
  /\ holder = [j \in Jobs |-> NoRun]
  /\ run = [r \in Runs |-> Unused]
  /\ uploads = {}

-----------------------------------------------------------------------------
Executing(r) == run[r].pc \notin {"unused", "over"}
Kind(r)      == job[run[r].job].kind

(* Mutant: ownership is judged by the token alone.                         *)
LiveByToken(r) == holder[run[r].job] = r

(* The fence: the run still holds its job.                                 *)
Live(r) == job[run[r].job].status = "running" /\ holder[run[r].job] = r

Goto(r, p)      == run' = [run EXCEPT ![r].pc = p]
EndRun(r)       == run' = [run EXCEPT ![r] = Over]
SetJob(j, s)    == job' = [job EXCEPT ![j].status = s]

(* rollback_owner for a job of kind k.                                     *)
RolledBack(k) == IF status = InFlight[k] THEN "failed" ELSE status

(* A job fails and the cut it has in flight with it.                       *)
FailJob(j) ==
  /\ SetJob(j, "failed")
  /\ status' = RolledBack(job[j].kind)
  /\ UNCHANGED <<guide, pins, file, row, post, holder>>

-----------------------------------------------------------------------------
(* The operator, through the routes. Each route locks the cut's row.       *)

(* The route's own commit: the new job and the cut's transition together.  *)
NewJob(j, k) ==
  /\ job[j] = NoJob
  /\ job' = [job EXCEPT ![j] =
       [kind |-> k, status |-> "pending", misreaped |-> FALSE, posted |-> post # {}]]
  /\ status' = InFlight[k]
  /\ UNCHANGED <<guide, pins, file, row, post, holder, run, uploads>>

(* Mutant: the row is not locked, so a double click passes the guards.     *)
TriggerRenderUnlocked(j) ==
  /\ post = {}
  /\ status \in {"draft", "in_review", "failed", "rendering"}
  /\ NewJob(j, "render")

(* trigger_render; a failed cut goes through draft.                        *)
TriggerRender(j) ==
  /\ post = {}
  /\ status \in {"draft", "in_review", "failed"}
  /\ NewJob(j, "render")

(* trigger_publish; a failed cut goes through approved.                    *)
TriggerPublish(j) ==
  /\ row # {}
  /\ status \in {"approved", "failed"}
  /\ NewJob(j, "publish")

(* Mutant: a guide can be edited while its render is in flight.            *)
UpdateCutAnytime ==
  /\ status \in {"in_review", "rendering"}
  /\ guide' \in Guides
  /\ UNCHANGED <<status, pins, file, row, post, job, holder, run, uploads>>

(* update_cut and choose_hook_variant.                                     *)
UpdateCut ==
  /\ status = "in_review"
  /\ guide' \in Guides
  /\ UNCHANGED <<status, pins, file, row, post, job, holder, run, uploads>>

ApproveCut ==
  /\ status = "in_review"
  /\ status' = "approved"
  /\ UNCHANGED <<guide, pins, file, row, post, job, holder, run, uploads>>

-----------------------------------------------------------------------------
(* render_cut.                                                             *)

(* The claim and prepare(): the cut is loaded once and then read from the  *)
(* session until it is refreshed. A posted cut is refused.                 *)
StartRender(j, r) ==
  /\ job[j].kind = "render" /\ job[j].status = "pending"
  /\ run[r] = Unused
  /\ Cardinality({s \in Runs : Executing(s) /\ Kind(s) = "render"}) < RenderSlots
  /\ SetJob(j, "running")
  /\ holder' = [holder EXCEPT ![j] = r]
  /\ run' = [run EXCEPT ![r] =
       [pc |-> IF post = {} THEN "pins" ELSE "permanent",
        job |-> j, guide |-> guide, pins |-> {}, status |-> status]]
  /\ UNCHANGED <<cut, uploads>>

(* resolve_or_reuse reads the pins: current ones are reused ...            *)
ReadPins(r) ==
  /\ run[r].pc = "pins"
  /\ IF pins # {} /\ \A p \in pins : p.resolved_from = run[r].guide.footage
       THEN run' = [run EXCEPT ![r].pins = pins, ![r].pc = "beat"]
       ELSE Goto(r, "resolve")
  /\ UNCHANGED <<cut, job, holder, uploads>>

(* ... others are replaced by what the sources return, if anything, and    *)
(* committed without a fence.                                              *)
WritePins(r) ==
  /\ run[r].pc = "resolve"
  /\ \E found \in SUBSET Assets :
       /\ Cardinality(found) <= 1
       /\ pins' = [resolved_from : {run[r].guide.footage}, asset : found]
       /\ run' = [run EXCEPT ![r].pins = pins', ![r].pc = "beat"]
  /\ UNCHANGED <<status, guide, file, row, post, job, holder, uploads>>

(* The heartbeats after the beat and at 70 %: a run that lost its job ends. *)
BeatHeartbeat(r) ==
  /\ run[r].pc = "beat"
  /\ Goto(r, IF Live(r) THEN "composite" ELSE "permanent")
  /\ UNCHANGED <<cut, job, holder, uploads>>

(* composite_cut replaces the file, always at the same path.               *)
Composite(r) ==
  /\ run[r].pc = "composite"
  /\ file' = {[guide |-> run[r].guide, pins |-> run[r].pins]}
  /\ Goto(r, "refresh")
  /\ UNCHANGED <<status, guide, pins, row, post, job, holder, uploads>>

(* The cut is read again, without a lock, refused when a post is recorded, *)
(* and fingerprinted as it is now.                                         *)
RefreshCut(r) ==
  /\ run[r].pc = "refresh"
  /\ IF post = {}
       THEN run' = [run EXCEPT ![r].pc = "stamp", ![r].guide = guide,
                               ![r].pins = pins, ![r].status = status]
       ELSE Goto(r, "permanent")
  /\ UNCHANGED <<cut, job, holder, uploads>>

(* The transition, judged on the cut as it was read, and the fenced        *)
(* done-stamp with every column of the new video.                          *)
StampRender(r) ==
  /\ run[r].pc = "stamp"
  /\ \/ /\ run[r].status # "rendering"
        /\ Goto(r, "permanent")
        /\ UNCHANGED <<cut, job>>
     \/ /\ run[r].status = "rendering" /\ Live(r)
        /\ status' = "in_review"
        /\ row' = {[guide |-> run[r].guide, pins |-> run[r].pins]}
        /\ SetJob(run[r].job, "done")
        /\ EndRun(r)
        /\ UNCHANGED <<guide, pins, file, post>>
     \/ /\ run[r].status = "rendering" /\ ~Live(r)
        /\ EndRun(r)
        /\ UNCHANGED <<cut, job>>
  /\ UNCHANGED <<holder, uploads>>

-----------------------------------------------------------------------------
(* publish_cut. The cut is loaded in prepare() and never refreshed.        *)

StartPublish(j, r) ==
  /\ job[j].kind = "publish" /\ job[j].status = "pending"
  /\ run[r] = Unused
  /\ SetJob(j, "running")
  /\ holder' = [holder EXCEPT ![j] = r]
  /\ run' = [run EXCEPT ![r] =
       [pc |-> "gates", job |-> j, guide |-> guide, row |-> row, post |-> post,
        sends |-> {}, status |-> status]]
  /\ UNCHANGED <<cut, uploads>>

(* Mutant: the gate on the guide is forgotten.                             *)
GatesPassPinsOnly(r) ==
  /\ \A p \in pins : p.asset \notin Unsafe
  /\ \A v \in run[r].row : v.pins = pins

(* Mutant: the gate on the pins is forgotten.                              *)
GatesPassGuideOnly(r) ==
  /\ \A p \in pins : p.asset \notin Unsafe
  /\ \A v \in run[r].row : v.guide = run[r].guide

(* assert_safe_to_publish, assert_video_matches_pins and _guide.           *)
GatesPass(r) ==
  /\ \A p \in pins : p.asset \notin Unsafe
  /\ \A v \in run[r].row : v.pins = pins /\ v.guide = run[r].guide

(* Mutant: a recorded post is uploaded again.                              *)
GatesAlways(r) ==
  /\ run[r].pc = "gates"
  /\ Goto(r, IF Live(r) /\ GatesPass(r) THEN "gated" ELSE "permanent")
  /\ UNCHANGED <<cut, job, holder, uploads>>

(* The heartbeat at 20 %, then the gates unless a post is already recorded. *)
Gates(r) ==
  /\ run[r].pc = "gates"
  /\ Goto(r, IF ~Live(r) THEN "permanent"
             ELSE IF run[r].post # {} THEN "finalize"
             ELSE IF GatesPass(r) THEN "gated" ELSE "permanent")
  /\ UNCHANGED <<cut, job, holder, uploads>>

(* The heartbeat at 35 %.                                                  *)
HeartbeatBeforeUpload(r) ==
  /\ run[r].pc = "gated"
  /\ Goto(r, IF Live(r) THEN "read" ELSE "permanent")
  /\ UNCHANGED <<cut, job, holder, uploads>>

(* The uploader (or the platform, fetching it) reads the video.            *)
ReadVideo(r) ==
  /\ run[r].pc = "read"
  /\ run' = [run EXCEPT ![r].pc = "upload", ![r].sends = file]
  /\ uploads' = uploads \cup
       {[job |-> run[r].job, run |-> r, live |-> Live(r), sent |-> file,
         row |-> row, guide |-> guide]}
  /\ UNCHANGED <<cut, job, holder>>

(* The platform accepts it.                                                *)
Upload(r) ==
  /\ run[r].pc = "upload"
  /\ Goto(r, "posted")
  /\ UNCHANGED <<cut, job, holder, uploads>>

(* The early, unfenced commit of the post's id.                            *)
RecordPost(r) ==
  /\ run[r].pc = "posted"
  /\ post' = run[r].sends
  /\ Goto(r, "finalize")
  /\ UNCHANGED <<status, guide, pins, file, row, job, holder, uploads>>

(* The transition, judged on the cut as it was loaded, and the done-stamp.  *)
StampPublish(r) ==
  /\ run[r].pc = "finalize"
  /\ \/ /\ run[r].status # "publishing"
        /\ Goto(r, "permanent")
        /\ UNCHANGED <<cut, job>>
     \/ /\ run[r].status = "publishing" /\ Live(r)
        /\ status' = "published"
        /\ SetJob(run[r].job, "done")
        /\ EndRun(r)
        /\ UNCHANGED <<guide, pins, file, row, post>>
     \/ /\ run[r].status = "publishing" /\ ~Live(r)
        /\ EndRun(r)
        /\ UNCHANGED <<cut, job>>
  /\ UNCHANGED <<holder, uploads>>

-----------------------------------------------------------------------------
(* Failures, and the reaper.                                               *)

(* Anything else a run does can raise.                                     *)
Raise(r) ==
  /\ run[r].pc \in RenderPC \cup PublishPC
  /\ \E kind \in {"transient", "permanent"} : Goto(r, kind)
  /\ UNCHANGED <<cut, job, holder, uploads>>

(* A render with retries left goes back to pending after a transient       *)
(* error; every other failure is final. A run without its job does neither. *)
Settle(r) ==
  /\ run[r].pc \in {"transient", "permanent"}
  /\ EndRun(r)
  /\ \/ /\ Live(r) /\ run[r].pc = "transient" /\ Kind(r) = "render"
        /\ SetJob(run[r].job, "pending")
        /\ UNCHANGED <<cut, holder>>
     \/ Live(r) /\ FailJob(run[r].job)
     \/ ~Live(r) /\ UNCHANGED <<cut, job, holder>>
  /\ UNCHANGED uploads

Kill(r) ==
  /\ Executing(r)
  /\ EndRun(r)
  /\ UNCHANGED <<cut, job, holder, uploads>>

(* A job that is not picked up, or could not be enqueued.                  *)
FailPending(j) ==
  /\ job[j].status = "pending"
  /\ FailJob(j)
  /\ UNCHANGED <<run, uploads>>

(* The heartbeat went stale, whatever the run is still doing: a render is  *)
(* resumed while it has resumes left, a publish never.                     *)
Reap(j) ==
  /\ job[j].status = "running"
  /\ \/ /\ job[j].kind = "render"
        /\ SetJob(j, "pending")
        /\ UNCHANGED <<cut, holder>>
     \/ FailJob(j)
  /\ UNCHANGED <<run, uploads>>

(* The sweep for old done jobs whose cut is in the state their type drives. *)
(* A done-stamp moves the cut on in the same commit, so the job it finds is *)
(* never the one that put the cut there.                                    *)
ReapDoneOrphan(j) ==
  /\ job[j].status = "done" /\ status = InFlight[job[j].kind]
  /\ job' = [job EXCEPT ![j].status = "failed", ![j].misreaped = TRUE]
  /\ status' = "failed"
  /\ UNCHANGED <<guide, pins, file, row, post, holder, run, uploads>>

-----------------------------------------------------------------------------
Operator(j) == TriggerRender(j) \/ TriggerPublish(j)
Start(j, r) == StartRender(j, r) \/ StartPublish(j, r)
Reaper(j)   == FailPending(j) \/ Reap(j) \/ ReapDoneOrphan(j)

Render(r) ==
  \/ ReadPins(r) \/ WritePins(r) \/ BeatHeartbeat(r)
  \/ Composite(r) \/ RefreshCut(r) \/ StampRender(r)

Publish(r) ==
  \/ Gates(r) \/ HeartbeatBeforeUpload(r) \/ ReadVideo(r)
  \/ Upload(r) \/ RecordPost(r) \/ StampPublish(r)

Next ==
  \/ UpdateCut \/ ApproveCut
  \/ \E j \in Jobs : Operator(j) \/ Reaper(j)
  \/ \E j \in Jobs, r \in Runs : Start(j, r)
  \/ \E r \in Runs : Render(r) \/ Publish(r) \/ Raise(r) \/ Settle(r) \/ Kill(r)

Spec == Init /\ [][Next]_vars

-----------------------------------------------------------------------------
(* The done-orphan sweep took an old job for the owner of a cut that a later *)
(* job has in flight (JobTask's StaleJobNeverFlipsOwner is about that). What *)
(* is promised of the cut below holds until then; JobUploadsOnce also after. *)
Misreaped == \E j \in Jobs : job[j].misreaped

(* At most one render or publish job is in flight per cut, the cut says    *)
(* which, and a cut that says so has one ("the 409 guard on cut.status     *)
(* ensures only one such job is ever in flight").                          *)
OneJobInFlight ==
  LET flying == {j \in Jobs : job[j].status \in {"pending", "running"}}
  IN  Misreaped \/
      /\ Cardinality(flying) <= 1
      /\ \A k \in DOMAIN InFlight :
           status = InFlight[k] <=> \E j \in flying : job[j].kind = k

(* What the operator reviews and approves is what the row says it is: the  *)
(* file was built from the very guide and pins whose fingerprints are      *)
(* stored, whatever earlier, failed or superseded renders left behind.     *)
RowDescribesVideo ==
  Misreaped \/ (status \in {"in_review", "approved"} => file = row)

(* What a publish job that still owns the cut sends out is the video on    *)
(* record, built from the cut's current guide, and every asset in it (not  *)
(* just every asset pinned by then) is cleared.                            *)
UploadsAreGated ==
  Misreaped \/ \A u \in uploads : u.live =>
    /\ u.sent = u.row
    /\ \A v \in u.sent : v.guide = u.guide /\ \A p \in v.pins : p.asset \notin Unsafe

(* However its run is killed, reaped or redelivered, a publish job uploads *)
(* at most once, and never when it was created for a cut whose post was    *)
(* already recorded, misreaped or not.                                     *)
JobUploadsOnce ==
  \A u \in uploads :
    /\ ~job[u.job].posted
    /\ \A v \in uploads : v.job = u.job => v.run = u.run

(* CUT_TRANSITIONS, with the two steps that trigger_render and             *)
(* trigger_publish take from failed. Bodies write the status blindly, on   *)
(* the strength of what they read earlier.                                 *)
Transitions ==
  {<<"draft", "rendering">>, <<"rendering", "in_review">>, <<"rendering", "failed">>,
   <<"in_review", "rendering">>, <<"in_review", "approved">>,
   <<"approved", "publishing">>, <<"publishing", "published">>,
   <<"publishing", "failed">>, <<"failed", "rendering">>, <<"failed", "publishing">>}

CutFollowsTransitions ==
  [][Misreaped' \/ (status' # status => <<status, status'>> \in Transitions)]_vars

(* The fingerprints a render records are those of the guide and pins it    *)
(* was built from ("cut.guide read here is guaranteed to be the exact      *)
(* guide THIS render ran against").                                        *)
RenderRecordsItself == [][Misreaped \/ (row' # row => row' = file)]_vars

(* A cut that is published has a post, and a post is of the video on record. *)
(* The code gives PostedVideoStays (below) up for a publish that lost its   *)
(* job during its upload; nothing but the upload of a publish that failed   *)
(* can leave the post of another video.                                     *)
PostIsOnRecord ==
  /\ status = "published" => post # {}
  /\ post # {} =>
       \/ Misreaped \/ post = row
       \/ \E u \in uploads : u.sent = post /\ job[u.job].status = "failed"

(* A video is never recorded over a post ("recording this render would     *)
(* make a later finalize mark new content as posted").                     *)
PostedVideoStays == [][post # {} => row' = row]_vars

-----------------------------------------------------------------------------
(* Every job of the cut is a JobLifecycle: it is pending until the operator *)
(* asks for it, and it holds the cut while the cut is in the state its kind *)
(* drives and no other job in flight accounts for that.                     *)
InFlightFor(i, k) == job[i].kind = k /\ job[i].status \in {"pending", "running"}

JobPhase(j) == IF job[j] = NoJob THEN "pending" ELSE job[j].status

JobHolds(j) ==
  \/ job[j] = NoJob
  \/ /\ status = InFlight[job[j].kind]
     /\ \A i \in Jobs \ {j} : ~InFlightFor(i, job[j].kind)

Life(j) == INSTANCE JobLifecycle WITH phase <- JobPhase(j), held <- JobHolds(j)

(* Whatever routes, runs and reaper passes do, each render and publish job  *)
(* holds its cut to the very commit that makes it terminal, frees it there, *)
(* and stays terminal: until a job of its cut is misreaped.                 *)
JobsAreLifecycles ==
  /\ \A j \in Jobs : Life(j)!Init
  /\ [][\A j \in Jobs : Misreaped' \/ [Life(j)!Next]_<<JobPhase(j), JobHolds(j)>>]_vars
=============================================================================
