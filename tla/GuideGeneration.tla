-------------------------- MODULE GuideGeneration --------------------------
(***************************************************************************)
(* One generate job: the executions of generate_guide, the paid calls they *)
(* make and how these are counted, the choice of a guide by score, and     *)
(* what job.meta says about it afterwards.                                 *)
(*                                                                         *)
(* A paid call is made inside record_stage, which counts it when it ends;  *)
(* the control state of a run that is inside one is the stage's name. The  *)
(* job's lifecycle is JobTask's, reduced to what its fence guarantees: at  *)
(* most one run holds a running job, and a run that lost it may go on.     *)
(***************************************************************************)
EXTENDS Naturals, FiniteSets

CONSTANTS
  Runs,       \* executions by a worker; bounds retries and resumes
  NoRun,
  Cap,        \* max_paid_llm_calls_per_reel
  Threshold,  \* quality threshold
  TopScore    \* the best score; scores below Threshold are 0 .. Threshold - 1

ASSUME GuideGenerationAssumption ==
  /\ NoRun \notin Runs /\ IsFiniteSet(Runs)
  /\ Cap \in Nat \ {0}
  /\ Threshold \in Nat \ {0}
  /\ TopScore \in Nat /\ TopScore >= Threshold

VARIABLES
  reel,    \* Reel.status
  saved,   \* the score of the guide persisted on the reel's cuts; 0 for none
  job,     \* Job.status
  meta,    \* the keys of Job.meta that this job writes
  holder,  \* the run whose claim token the job carries
  events,  \* paid_call_count: the StageEvents of a paid provider
  run      \* the executions

vars == <<reel, saved, job, meta, holder, events, run>>

Scores     == 0 .. TopScore
Structured == {"s_enrich", "s_conflict", "s_visuals", "s_caption", "s_judge"}
Standard   == {"generate", "enrich", "judge", "caption"}
Stages     == Structured \cup Standard \cup {"hook"}
Paths      == {"none", "structured", "standard"}
PC == Stages \cup {"start", "missed", "attempt", "accepted", "captioned", "beat",
                   "stamp", "transient", "permanent"}

(* The stages whose call sits under an "except Exception" that does not    *)
(* re-raise SoftTimeLimitExceeded: _enrich_batch, _make_conflict_stub,     *)
(* judge_guide and generate_hook_variants.                                 *)
Swallowing == {"s_enrich", "s_conflict", "s_judge", "enrich", "judge", "hook"}

(* script: does the operator's script take the structured path? Fixed when *)
(* the job is created, by its text and by generation_path.                 *)
Meta    == [script : BOOLEAN, path : Paths, fallback : BOOLEAN, score : Scores]
Over    == [pc |-> "over"]
Unused  == [pc |-> "unused"]

(* What a run carries: the attempts made, the best score so far, the score *)
(* of the guide it accepted, every score the standard path produced, its   *)
(* copy of job.meta, whether its structured guide was dropped, whether its *)
(* soft time limit fired, and what it spent since it lost the job.         *)
Execution ==
  [pc : PC, attempt : 0 .. 3, best : Scores, guide : Scores, seen : SUBSET Scores,
   meta : Meta, fell : BOOLEAN, soft : BOOLEAN, lost : Nat]

TypeOK ==
  /\ reel \in {"generating", "guide_ready", "failed"}
  /\ saved \in Scores
  /\ job \in {"pending", "running", "done", "failed"}
  /\ meta \in Meta
  /\ holder \in Runs \cup {NoRun}
  /\ events \in Nat
  /\ run \in [Runs -> Execution \cup {Unused, Over}]

Init ==
  /\ reel = "generating" /\ saved = 0
  /\ job = "pending" /\ holder = NoRun
  /\ meta \in {m \in Meta : m.path = "none" /\ ~m.fallback /\ m.score = 0}
  /\ events = 0
  /\ run = [r \in Runs |-> Unused]

-----------------------------------------------------------------------------
Executing(r)  == run[r] \notin {Unused, Over}
Live(r)       == job = "running" /\ holder = r
Goto(r, p)    == run' = [run EXCEPT ![r].pc = p]

(* Mutant: the budget check is off by one.                                 *)
WithinBudgetOffByOne == events <= Cap

(* _enforce_paid_call_budget and the check of _best_effort_llm_call.       *)
WithinBudget == events < Cap

(* record_stage: the call is over, in whatever way, and is counted.        *)
Counted(r) == run[r].lost + (IF Live(r) THEN 0 ELSE 1)

CallEnds(r, p) ==
  /\ events' = events + 1
  /\ run' = [run EXCEPT ![r].pc = p, ![r].lost = Counted(r)]

(* Mutant: a heartbeat that does not look at the token.                    *)
BeatsUnfenced(r) == job = "running"

(* heartbeat(): raises JobLost in a run that no longer holds its job.      *)
Beats(r) == Live(r)

-----------------------------------------------------------------------------
(* The claim and _prepare_generate: a reel that is no longer generating,   *)
(* or whose budget is spent, is refused.                                   *)
Start(r) ==
  /\ job = "pending" /\ run[r] = Unused
  /\ job' = "running" /\ holder' = r
  /\ run' = [run EXCEPT ![r] =
       [pc |-> IF reel = "generating" /\ WithinBudget THEN "start" ELSE "permanent",
        attempt |-> 0, best |-> 0, guide |-> 0, seen |-> {}, meta |-> meta,
        fell |-> FALSE, soft |-> FALSE, lost |-> 0]]
  /\ UNCHANGED <<reel, saved, meta, events>>

(* Mutant: keys an earlier run of the job left in job.meta survive.        *)
Kept(m) == m

(* _strip_stale_fallback_meta.                                             *)
Stripped(m) == [m EXCEPT !.path = "none", !.fallback = FALSE]

(* The structured path begins with a heartbeat.                            *)
TryStructured(r) ==
  /\ run[r].pc = "start" /\ run[r].meta.script
  /\ meta' = Stripped(run[r].meta)
  /\ run' = [run EXCEPT ![r].meta = meta',
                        ![r].pc = IF Beats(r) THEN "s_enrich" ELSE "permanent"]
  /\ UNCHANGED <<reel, saved, job, holder, events>>

(* Otherwise, or after a miss: _run_standard_path_attempts records its path. *)
EnterStandard(r) ==
  /\ \/ run[r].pc = "missed"
     \/ run[r].pc = "start" /\ ~run[r].meta.script
  /\ LET m == IF run[r].pc = "start" THEN Stripped(run[r].meta) ELSE run[r].meta
     IN  meta' = [m EXCEPT !.path = "standard"]
  /\ run' = [run EXCEPT ![r].meta = meta', ![r].pc = "attempt"]
  /\ UNCHANGED <<reel, saved, job, holder, events>>

(* One paid stage of the structured path. The conflict stub is made only   *)
(* when the script has none, and any error but the soft limit ends the     *)
(* path, not the run.                                                      *)
StructuredStage(r) ==
  /\ run[r].pc \in Structured \ {"s_judge"}
  /\ \E next \in CASE run[r].pc = "s_enrich"   -> {"s_conflict", "s_visuals", "missed"}
                   [] run[r].pc = "s_conflict" -> {"s_visuals", "missed"}
                   [] run[r].pc = "s_visuals"  -> {"s_caption", "missed"}
                   [] run[r].pc = "s_caption"  -> {"s_judge", "missed"} :
       CallEnds(r, next)
  /\ UNCHANGED <<reel, saved, job, meta, holder>>

(* The guide is scored: by the rules alone, after the caption, when they   *)
(* do not like it, else with the judge's verdict. One that reaches the     *)
(* threshold is accepted, another is dropped and the fallback noted.       *)
ScoreStructured(r) ==
  /\ run[r].pc \in {"s_caption", "s_judge"}
  /\ events' = events + 1
  /\ meta' = [run[r].meta EXCEPT !.path = "structured"]
  /\ \E s \in IF run[r].pc = "s_judge" THEN Scores ELSE 0 .. Threshold - 1 :
       run' = [run EXCEPT
         ![r].pc = IF s >= Threshold THEN "captioned" ELSE "missed",
         ![r].guide = IF s >= Threshold THEN s ELSE 0,
         ![r].fell = s < Threshold,
         ![r].meta = [meta' EXCEPT !.fallback = @ \/ s < Threshold],
         ![r].lost = Counted(r)]
  /\ UNCHANGED <<reel, saved, job, holder>>

-----------------------------------------------------------------------------
(* The standard path: up to three attempts, each behind a budget check and *)
(* a heartbeat.                                                            *)
Attempt(r) ==
  /\ run[r].pc = "attempt" /\ run[r].attempt < 3
  /\ Goto(r, IF WithinBudget /\ Beats(r) THEN "generate" ELSE "permanent")
  /\ UNCHANGED <<reel, saved, job, meta, holder, events>>

(* A reply that is no guide costs the attempt.                             *)
Generate(r) ==
  /\ run[r].pc = "generate"
  /\ \/ CallEnds(r, "enrich")
     \/ /\ events' = events + 1
        /\ run' = [run EXCEPT ![r].pc = "attempt", ![r].attempt = @ + 1,
                              ![r].lost = Counted(r)]
  /\ UNCHANGED <<reel, saved, job, meta, holder>>

(* Mutant: the last candidate is kept, not the best.                       *)
LastOf(best, s) == s

(* The best-so-far is replaced only by a strictly better candidate.        *)
BestOf(best, s) == IF s > best THEN s ELSE best

(* The candidate is enriched, then scored: by the rules alone when they do *)
(* not like it, else with the judge's verdict.                             *)
Enrich(r) ==
  /\ run[r].pc = "enrich"
  /\ \/ CallEnds(r, "judge")
     \/ \E s \in 0 .. Threshold - 1 :
          /\ events' = events + 1
          /\ run' = [run EXCEPT
               ![r].pc = "attempt", ![r].attempt = @ + 1, ![r].seen = @ \cup {s},
               ![r].best = BestOf(@, s), ![r].lost = Counted(r)]
  /\ UNCHANGED <<reel, saved, job, meta, holder>>

Judge(r) ==
  /\ run[r].pc = "judge"
  /\ events' = events + 1
  /\ \E s \in Scores :
       run' = [run EXCEPT
         ![r].pc = IF s >= Threshold THEN "accepted" ELSE "attempt",
         ![r].guide = IF s >= Threshold THEN s ELSE 0,
         ![r].attempt = IF s >= Threshold THEN @ ELSE @ + 1,
         ![r].seen = @ \cup {s},
         ![r].best = IF s >= Threshold THEN @ ELSE BestOf(@, s),
         ![r].lost = Counted(r)]
  /\ UNCHANGED <<reel, saved, job, meta, holder>>

(* After three attempts the best candidate is accepted, if there is one.   *)
Decide(r) ==
  /\ run[r].pc = "attempt" /\ run[r].attempt = 3
  /\ run' = [run EXCEPT ![r].guide = run[r].best,
                        ![r].pc = IF run[r].best > 0 THEN "accepted" ELSE "permanent"]
  /\ UNCHANGED <<reel, saved, job, meta, holder, events>>

(* _best_effort_llm_call, for the caption and then, after the heartbeat at *)
(* 80 %, for the hook variants: made when the budget allows and the guide  *)
(* has the text for it.                                                    *)
BestEffort(r) ==
  /\ run[r].pc \in {"accepted", "beat"}
  /\ LET stage == IF run[r].pc = "accepted" THEN "caption" ELSE "hook"
         skip  == IF run[r].pc = "accepted" THEN "captioned" ELSE "stamp"
     IN  \/ WithinBudget /\ Goto(r, stage)
         \/ Goto(r, skip)
  /\ UNCHANGED <<reel, saved, job, meta, holder, events>>

(* Mutant: the guide is written before the last record_stage commits.      *)
BestEffortSaves(r) ==
  /\ run[r].pc \in {"caption", "hook"}
  /\ CallEnds(r, IF run[r].pc = "caption" THEN "captioned" ELSE "stamp")
  /\ saved' = run[r].guide
  /\ UNCHANGED <<reel, job, meta, holder>>

BestEffortEnds(r) ==
  /\ run[r].pc \in {"caption", "hook"}
  /\ CallEnds(r, IF run[r].pc = "caption" THEN "captioned" ELSE "stamp")
  /\ UNCHANGED <<reel, saved, job, meta, holder>>

HeartbeatAccepted(r) ==
  /\ run[r].pc = "captioned"
  /\ Goto(r, IF Beats(r) THEN "beat" ELSE "permanent")
  /\ UNCHANGED <<reel, saved, job, meta, holder, events>>

(* _persist_guide, the reel's transition, the quality score and the fenced *)
(* done-stamp: one commit.                                                 *)
Stamp(r) ==
  /\ run[r].pc = "stamp"
  /\ IF Live(r)
       THEN /\ saved' = run[r].guide
            /\ reel' = "guide_ready"
            /\ job' = "done"
            /\ meta' = [run[r].meta EXCEPT !.score = run[r].guide]
       ELSE UNCHANGED <<saved, reel, job, meta>>
  /\ run' = [run EXCEPT ![r] = Over]
  /\ UNCHANGED <<holder, events>>

-----------------------------------------------------------------------------
(* Failures, time limits and the reaper.                                   *)

(* A stage that is not part of the structured path, or a step between two, *)
(* raises.                                                                 *)
Raise(r) ==
  /\ run[r].pc \in PC \ (Structured \cup {"transient", "permanent"})
  /\ \E kind \in {"transient", "permanent"} :
       IF run[r].pc \in Stages THEN CallEnds(r, kind)
                               ELSE Goto(r, kind) /\ UNCHANGED events
  /\ UNCHANGED <<reel, saved, job, meta, holder>>

(* max_runtime_s passes inside a call: SoftTimeLimitExceeded ends the run, *)
(* unless the stage swallows it.                                           *)
SoftLimit(r) ==
  /\ run[r].pc \in Stages /\ ~run[r].soft
  /\ IF run[r].pc \in Swallowing
       THEN run' = [run EXCEPT ![r].soft = TRUE] /\ UNCHANGED events
       ELSE CallEnds(r, "permanent")
  /\ UNCHANGED <<reel, saved, job, meta, holder>>

(* _settle_failure: a transient failure may have retries left.             *)
Settle(r) ==
  /\ run[r].pc \in {"transient", "permanent"}
  /\ run' = [run EXCEPT ![r] = Over]
  /\ \/ Live(r) /\ run[r].pc = "transient" /\ job' = "pending" /\ UNCHANGED reel
     \/ Live(r) /\ job' = "failed" /\ reel' = "failed"
     \/ ~Live(r) /\ UNCHANGED <<job, reel>>
  /\ UNCHANGED <<saved, meta, holder, events>>

Kill(r) ==
  /\ Executing(r)
  /\ run' = [run EXCEPT ![r] = Over]
  /\ UNCHANGED <<reel, saved, job, meta, holder, events>>

(* The job is given up: it is never picked up, or its heartbeat is stale   *)
(* and its resume is spent ...                                             *)
GiveUp ==
  /\ job \in {"pending", "running"}
  /\ job' = "failed" /\ reel' = "failed"
  /\ UNCHANGED <<saved, meta, holder, events, run>>

(* ... or it is resumed, whatever its run is still doing.                  *)
Resume ==
  /\ job = "running"
  /\ job' = "pending"
  /\ UNCHANGED <<reel, saved, meta, holder, events, run>>

Body(r) ==
  \/ TryStructured(r) \/ EnterStandard(r) \/ StructuredStage(r) \/ ScoreStructured(r)
  \/ Attempt(r) \/ Generate(r) \/ Enrich(r) \/ Judge(r) \/ Decide(r)
  \/ BestEffort(r) \/ BestEffortEnds(r) \/ HeartbeatAccepted(r) \/ Stamp(r)

Next ==
  \/ \E r \in Runs :
       Start(r) \/ Body(r) \/ Raise(r) \/ SoftLimit(r) \/ Settle(r) \/ Kill(r)
  \/ GiveUp \/ Resume

Spec == Init /\ [][Next]_vars

-----------------------------------------------------------------------------
(* The reel is generating exactly while its job is in flight, and its cuts *)
(* have a guide exactly when it is guide_ready: no run, superseded or      *)
(* killed half-way through its commits, leaves a guide on a failed reel.   *)
GuideFollowsReel ==
  /\ reel = "generating" <=> job \in {"pending", "running"}
  /\ saved > 0 <=> reel = "guide_ready"

(* How far the count of paid calls can pass the cap: a run that passes its *)
(* check with one call left makes the three of an attempt, while every     *)
(* other one may be anywhere in the five stages of the structured path.    *)
(* With a cap below three the five stages of each run are all there is.    *)
OvershootBounded ==
  events <= 5 * Cardinality(Runs) + (IF Cap > 3 THEN Cap - 3 ELSE 0)

(* A run that lost its job stops at its next heartbeat: after at most the  *)
(* five stages of the structured path, or, when it went straight to the    *)
(* standard path, one attempt and the caption.                             *)
ZombieSpendBounded ==
  \A r \in Runs : Executing(r) =>
    run[r].lost <= IF run[r].meta.script THEN 5 ELSE 4

(* However attempts and invalid replies alternate, the guide kept, and in  *)
(* the end the guide accepted, is the best candidate of the standard path. *)
BestAccepted ==
  \A r \in Runs : Executing(r) => \A s \in run[r].seen :
    /\ run[r].pc = "attempt" => run[r].best >= s
    /\ run[r].guide > 0 => run[r].guide >= s

(* What a finished job says of itself is true of the run that finished it: *)
(* the path that built the guide, whether it fell back, and the score.     *)
MetaDescribesGuide ==
  [][job' = "done" /\ job # "done" =>
       /\ meta'.path = IF run[holder].seen = {} THEN "structured" ELSE "standard"
       /\ meta'.fallback = run[holder].fell
       /\ meta'.score = saved']_vars

(* A run whose soft time limit fired makes no further call ("swallowing it *)
(* would let the task keep running to a normal-looking completion").       *)
SoftLimitEndsRun ==
  [][\A r \in Runs : Executing(r) /\ run[r].soft /\ run'[r].pc # run[r].pc
        => run'[r].pc \notin Stages]_vars
=============================================================================
