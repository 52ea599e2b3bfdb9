----------------------- MODULE GuideGenerationProofs -----------------------
(***************************************************************************)
(* Proofs about GuideGeneration, for any cap, threshold and scores, and    *)
(* any number of executions of the job.                                    *)
(***************************************************************************)
EXTENDS GuideGeneration, FiniteSetTheorems, TLAPS

-----------------------------------------------------------------------------
(* Where a run can be: before it has a candidate, in the attempts of the   *)
(* standard path, with a guide it accepted, or failing.                    *)
Before  == {"start", "missed"} \cup Structured
Loop    == {"attempt", "generate", "enrich", "judge"}
Chosen  == {"accepted", "caption", "captioned", "beat", "hook", "stamp"}
Failing == {"transient", "permanent"}

(* The most a run can have spent without its job when it is at a point: it *)
(* spends nothing before its next heartbeat, and every heartbeat is passed *)
(* with the job in hand.                                                   *)
Spent(x) ==
  /\ x.pc \in {"start", "s_enrich", "generate", "beat", "hook"} => x.lost = 0
  /\ x.pc \in {"s_conflict", "enrich", "stamp"}      => x.lost <= 1
  /\ x.pc \in {"s_visuals", "judge"}                 => x.lost <= 2
  /\ x.pc \in {"s_caption", "accepted", "caption"}   => x.lost <= 3
  /\ x.pc = "s_judge"                                => x.lost <= 4
  /\ x.pc = "attempt" => x.lost <= IF x.meta.script /\ x.attempt = 0 THEN 5 ELSE 3
  /\ x.pc \in {"missed", "captioned"} \cup Failing  => x.lost <= IF x.meta.script THEN 5 ELSE 4

(* What a run carries, by where it is.                                     *)
Candidates(x) ==
  /\ x.pc \in Before => x.seen = {} /\ x.guide = 0 /\ x.best = 0 /\ x.attempt = 0
  /\ x.pc \in Loop =>
       /\ x.guide = 0 /\ x.best < Threshold
       /\ \A s \in x.seen : s <= x.best
       /\ x.best > 0 => x.seen # {}
       /\ x.pc # "attempt" => x.attempt < 3
  /\ x.pc \in Chosen => x.guide > 0
  /\ x.guide > 0 => \A s \in x.seen : s <= x.guide

Annotated(x) ==
  /\ x.pc \in Structured \cup {"missed"} => x.meta.script = TRUE
  /\ x.pc \in {"start"} \cup Structured => x.fell = FALSE
  /\ x.pc \in Loop => x.meta.path = "standard"
  /\ x.pc \in Chosen => x.meta.path = IF x.seen = {} THEN "structured" ELSE "standard"
  /\ x.pc \notin {"start"} \cup Failing => x.meta.fallback = x.fell

Sound(x) ==
  /\ x \in Execution
  /\ Candidates(x) /\ Annotated(x)
  /\ Spent(x)

RunsOK ==
  \A r \in Runs : Executing(r) =>
    /\ Candidates(run[r]) /\ Annotated(run[r])
    /\ Spent(run[r])
    /\ Live(r) => run[r].lost = 0

IInv == TypeOK /\ GuideFollowsReel /\ RunsOK

(* A run at one of the points of PC is executing.                          *)
LEMMA AtPoint ==
  ASSUME TypeOK, NEW r \in Runs, run[r].pc \in PC
  PROVE  Executing(r)
BY DEF Executing, Unused, Over, PC, Stages, Structured, Standard

(* An executing run is sound, and counts no loss while it holds its job.   *)
LEMMA ExecutingIsSound ==
  ASSUME IInv, NEW r \in Runs, Executing(r)
  PROVE  Sound(run[r]) /\ (Live(r) => run[r].lost = 0)
BY DEF IInv, TypeOK, RunsOK, Executing, Sound

(* A run that lost its job never holds it again: only a run that starts    *)
(* takes a job.                                                            *)
LEMMA LostForGood ==
  ASSUME IInv, [Next]_vars, NEW s \in Runs, Executing(s), Live(s)'
  PROVE  Live(s)
<1>1. CASE job' # "running" \/ (job = "running" /\ holder' = holder)
  BY <1>1 DEF Live
<1>2. ASSUME NEW r \in Runs, Start(r) PROVE FALSE
  BY <1>2 DEF Start, Live, Executing
<1>3. ASSUME NEW r \in Runs, Body(r)
      PROVE job' # "running" \/ (job = "running" /\ holder' = holder)
  BY <1>3 DEF Body, TryStructured, EnterStandard, StructuredStage, ScoreStructured, Attempt,
       Generate, Enrich, Judge, Decide, BestEffort, BestEffortEnds, HeartbeatAccepted, Stamp, Live
<1>4. ASSUME NEW r \in Runs, Raise(r) \/ SoftLimit(r) \/ Settle(r) \/ Kill(r)
      PROVE job' # "running" \/ (job = "running" /\ holder' = holder)
  BY <1>4 DEF Raise, SoftLimit, Settle, Kill
<1>5. QED
  BY <1>1, <1>2, <1>3, <1>4 DEF Next, GiveUp, Resume, vars

-----------------------------------------------------------------------------
(* What one run does, as the record it has afterwards.                     *)

Becomes(r, y) == run' = [run EXCEPT ![r] = y]

(* A step that moves one run to a sound state, or ends it, keeps all       *)
(* sound.                                                                  *)
LEMMA OneRunMoves ==
  ASSUME IInv, [Next]_vars, NEW r \in Runs, NEW y, Becomes(r, y),
         y = Over \/ (Sound(y) /\ (Live(r)' => y.lost = 0))
  PROVE  run' \in [Runs -> Execution \cup {Unused, Over}] /\ RunsOK'
<1>1. run' \in [Runs -> Execution \cup {Unused, Over}]
  BY DEF Becomes, IInv, TypeOK, Sound
<1>2. ASSUME NEW s \in Runs, Executing(s)'
      PROVE  Sound(run'[s]) /\ (Live(s)' => run'[s].lost = 0)
  <2>1. CASE s = r
    BY <1>2, <2>1 DEF Becomes, Executing, IInv, TypeOK
  <2>2. CASE s # r
    <3>1. run'[s] = run[s] /\ Executing(s)
      BY <1>2, <2>2 DEF Becomes, Executing, IInv, TypeOK
    <3>2. QED
      BY <3>1, LostForGood, ExecutingIsSound
  <2>3. QED
    BY <2>1, <2>2
<1>3. QED
  BY <1>1, <1>2 DEF RunsOK, Sound

(* A call is counted against a run that lost its job, and only then.       *)
LEMMA Count ==
  ASSUME IInv, NEW r \in Runs, Executing(r), UNCHANGED <<job, holder>>
  PROVE  /\ Counted(r) \in Nat /\ Counted(r) <= run[r].lost + 1
         /\ Live(r)' => Counted(r) = 0
BY ExecutingIsSound DEF Counted, Live, Sound, Execution

(* A control step changes a run's place only.                              *)
LEMMA GotoBecomes ==
  ASSUME IInv, NEW r \in Runs, NEW p, Goto(r, p)
  PROVE  Becomes(r, [run[r] EXCEPT !.pc = p])
BY DEF Goto, Becomes, IInv, TypeOK

(* A call that ends adds to the losses of a run without its job.           *)
LEMMA CallBecomes ==
  ASSUME IInv, NEW r \in Runs, NEW p, CallEnds(r, p)
  PROVE  Becomes(r, [run[r] EXCEPT !.pc = p, !.lost = Counted(r)])
BY DEF CallEnds, Becomes, IInv, TypeOK

(* Failing keeps everything sound.                                         *)
LEMMA GotoFailing ==
  ASSUME IInv, [Next]_vars, NEW r \in Runs, NEW p \in Failing, Goto(r, p),
         run[r].pc \in PC, UNCHANGED <<job, holder>>
  PROVE  run' \in [Runs -> Execution \cup {Unused, Over}] /\ RunsOK'
<1> DEFINE y == [run[r] EXCEPT !.pc = p]
<1>1. Executing(r) /\ Sound(run[r]) /\ (Live(r) => run[r].lost = 0)
  BY AtPoint, ExecutingIsSound DEF IInv
<1>2. y \in Execution
  BY <1>1 DEF Sound, Execution, Failing, PC
<1>3. Spent(y)
  BY <1>1 DEF Sound, Spent, Annotated, Execution, Failing, Meta, PC, Stages, Structured, Standard
<1>4. Candidates(y) /\ Annotated(y)
  BY <1>1 DEF Sound, Candidates, Annotated, Execution, Failing, Before, Loop, Chosen, Structured
<1>5. Live(r)' => y.lost = 0
  BY <1>1 DEF Live, Sound, Execution
<1>6. QED
  BY <1>2, <1>3, <1>4, <1>5, GotoBecomes, OneRunMoves DEF Sound

(* A failed call leads where its stage sends it.                           *)
LEMMA CallFails ==
  ASSUME IInv, [Next]_vars, NEW r \in Runs, NEW p \in Failing, CallEnds(r, p),
         run[r].pc \in Stages, UNCHANGED <<job, holder>>,
         run[r].pc \in Structured => run[r].pc \in {"s_visuals", "s_caption"}
  PROVE  run' \in [Runs -> Execution \cup {Unused, Over}] /\ RunsOK'
<1>0. Executing(r)
  BY AtPoint DEF IInv, PC, Stages, Structured, Standard
<1>1. /\ Sound(run[r])
      /\ Counted(r) \in Nat /\ Counted(r) <= run[r].lost + 1 /\ (Live(r)' => Counted(r) = 0)
  BY <1>0, Count, ExecutingIsSound
<1> DEFINE n == Counted(r)
<1> HIDE DEF n
<1>n. n = Counted(r)
  BY DEF n
<1> DEFINE z == [run[r] EXCEPT !.pc = p, !.lost = n]
<1>2. z \in Execution
  BY <1>n, <1>1 DEF Sound, Execution, Failing, PC
<1>3. Spent(z)
  BY <1>n, <1>1 DEF Sound, Spent, Annotated, Execution, Failing, Meta, Stages, Structured, Standard
<1>4. Candidates(z) /\ Annotated(z)
  BY <1>1 DEF Sound, Candidates, Annotated, Execution, Failing, Before, Loop, Chosen, Structured
<1>5. Live(r)' => z.lost = 0
  BY <1>n, <1>1 DEF Sound, Execution
<1>6. Becomes(r, z)
  BY <1>n, CallBecomes
<1>7. QED
  BY <1>2, <1>3, <1>4, <1>5, <1>6, OneRunMoves DEF Sound

(* The structured path, stage by stage.                                    *)
LEMMA EnterStructuredOK ==
  ASSUME IInv, [Next]_vars, NEW r \in Runs, TryStructured(r)
  PROVE  run' \in [Runs -> Execution \cup {Unused, Over}] /\ RunsOK'
<1>1. Sound(run[r]) /\ (Live(r) => run[r].lost = 0)
  BY AtPoint, ExecutingIsSound DEF IInv, TryStructured, PC, Stages
<1> DEFINE p == IF Beats(r) THEN "s_enrich" ELSE "permanent"
           y == [run[r] EXCEPT !.meta = Stripped(run[r].meta), !.pc = p]
<1>2. Becomes(r, y)
  BY DEF TryStructured, Becomes, IInv, TypeOK
<1>3. run[r].pc = "start" /\ run[r].meta.script = TRUE
  BY <1>1 DEF TryStructured, Sound, Execution, Meta
<1>4. p \in {"s_enrich", "permanent"}
  OBVIOUS
<1> HIDE DEF p
<1>5. y \in Execution
  BY <1>1, <1>4 DEF Sound, Execution, Meta, Paths, Stripped, PC, Stages, Structured
<1>6. Spent(y)
  BY <1>1, <1>3, <1>4 DEF Sound, Spent, Execution, Meta, Stripped, Failing
<1>7. Candidates(y) /\ Annotated(y)
  BY <1>1, <1>3, <1>4
  DEF Sound, Candidates, Annotated, Execution, Meta, Stripped, Failing, Before, Loop, Chosen, Structured
<1>8. Live(r)' => y.lost = 0
  BY <1>1 DEF TryStructured, Live, Sound, Execution
<1>9. QED
  BY <1>2, <1>5, <1>6, <1>7, <1>8, OneRunMoves DEF Sound

LEMMA EnterStandardOK ==
  ASSUME IInv, [Next]_vars, NEW r \in Runs, EnterStandard(r)
  PROVE  run' \in [Runs -> Execution \cup {Unused, Over}] /\ RunsOK'
<1>1. Sound(run[r]) /\ (Live(r) => run[r].lost = 0)
  BY AtPoint, ExecutingIsSound DEF IInv, EnterStandard, PC, Stages
<1> DEFINE m == IF run[r].pc = "start" THEN Stripped(run[r].meta) ELSE run[r].meta
           y == [run[r] EXCEPT !.meta = [m EXCEPT !.path = "standard"], !.pc = "attempt"]
<1>2. Becomes(r, y)
  BY DEF EnterStandard, Becomes, IInv, TypeOK
<1>3. /\ m \in Meta /\ m.script = run[r].meta.script
      /\ m.fallback = run[r].fell
  <2>1. CASE run[r].pc = "start"
    BY <1>1, <2>1 DEF Sound, Annotated, Execution, Meta, Stripped, Paths
  <2>2. CASE run[r].pc = "missed"
    BY <1>1, <2>2 DEF Sound, Annotated, Execution, Failing
  <2>3. QED
    BY <2>1, <2>2 DEF EnterStandard
<1>4. run[r].pc \in {"start", "missed"}
  BY DEF EnterStandard
<1> HIDE DEF m
<1>5. y \in Execution
  BY <1>1, <1>3 DEF Sound, Execution, Meta, Paths, PC
<1>6. Spent(y)
  BY <1>1, <1>3, <1>4 DEF Sound, Spent, Candidates, Before, Execution, Meta, Failing, Annotated
<1>7. Candidates(y) /\ Annotated(y)
  BY <1>1, <1>3, <1>4, GuideGenerationAssumption
  DEF Sound, Candidates, Annotated, Execution, Meta, Failing, Before, Loop, Chosen, Structured
<1>8. Live(r)' => y.lost = 0
  BY <1>1 DEF EnterStandard, Live, Sound, Execution
<1>9. QED
  BY <1>2, <1>5, <1>6, <1>7, <1>8, OneRunMoves DEF Sound

LEMMA StructuredStageOK ==
  ASSUME IInv, [Next]_vars, NEW r \in Runs, StructuredStage(r)
  PROVE  run' \in [Runs -> Execution \cup {Unused, Over}] /\ RunsOK'
<1>0. Executing(r) /\ UNCHANGED <<job, holder>>
  BY AtPoint DEF IInv, StructuredStage, PC, Stages, Structured
<1>1. /\ Sound(run[r])
      /\ Counted(r) \in Nat /\ Counted(r) <= run[r].lost + 1 /\ (Live(r)' => Counted(r) = 0)
  BY <1>0, Count, ExecutingIsSound
<1>2. \E p : CallEnds(r, p) /\ \/ run[r].pc = "s_enrich" /\ p \in {"s_conflict", "s_visuals", "missed"}
                               \/ run[r].pc = "s_conflict" /\ p \in {"s_visuals", "missed"}
                               \/ run[r].pc = "s_visuals" /\ p \in {"s_caption", "missed"}
                               \/ run[r].pc = "s_caption" /\ p \in {"s_judge", "missed"}
  BY DEF StructuredStage, Structured
<1>3. PICK p : CallEnds(r, p) /\ \/ run[r].pc = "s_enrich" /\ p \in {"s_conflict", "s_visuals", "missed"}
                                 \/ run[r].pc = "s_conflict" /\ p \in {"s_visuals", "missed"}
                                 \/ run[r].pc = "s_visuals" /\ p \in {"s_caption", "missed"}
                                 \/ run[r].pc = "s_caption" /\ p \in {"s_judge", "missed"}
  BY <1>2
<1> DEFINE n == Counted(r)
           y == [run[r] EXCEPT !.pc = p, !.lost = n]
<1>4. Becomes(r, y)
  BY <1>3, CallBecomes
<1>n. n \in Nat /\ n <= run[r].lost + 1 /\ (Live(r)' => n = 0)
  BY <1>1
<1> HIDE DEF n
<1>5. y \in Execution
  BY <1>n, <1>1, <1>3 DEF Sound, Execution, PC, Stages, Structured
<1>6. Spent(y)
  BY <1>n, <1>1, <1>3 DEF Sound, Spent, Annotated, Execution, Structured, Failing
<1>7. Candidates(y) /\ Annotated(y)
  BY <1>1, <1>3 DEF Sound, Candidates, Annotated, Execution, Failing, Before, Loop, Chosen, Structured
<1>8. Live(r)' => y.lost = 0
  BY <1>n, <1>1 DEF Sound, Execution
<1>9. QED
  BY <1>4, <1>5, <1>6, <1>7, <1>8, OneRunMoves DEF Sound

LEMMA ScoreStructuredOK ==
  ASSUME IInv, [Next]_vars, NEW r \in Runs, ScoreStructured(r)
  PROVE  run' \in [Runs -> Execution \cup {Unused, Over}] /\ RunsOK'
<1>0. Executing(r) /\ UNCHANGED <<job, holder>>
  BY AtPoint DEF IInv, ScoreStructured, PC, Stages, Structured
<1>1. /\ Sound(run[r])
      /\ Counted(r) \in Nat /\ Counted(r) <= run[r].lost + 1 /\ (Live(r)' => Counted(r) = 0)
  BY <1>0, Count, ExecutingIsSound
<1> DEFINE n == Counted(r)
           m == [run[r].meta EXCEPT !.path = "structured"]
           y(s) == [run[r] EXCEPT !.pc    = IF s >= Threshold THEN "captioned" ELSE "missed",
                                  !.guide = IF s >= Threshold THEN s ELSE 0,
                                  !.fell  = s < Threshold,
                                  !.meta  = [m EXCEPT !.fallback = @ \/ s < Threshold],
                                  !.lost  = n]
<1>2. PICK s \in Scores : Becomes(r, y(s))
  <2>1. meta' = m /\ run \in [Runs -> Execution \cup {Unused, Over}]
    BY DEF ScoreStructured, IInv, TypeOK
  <2>2. PICK s \in IF run[r].pc = "s_judge" THEN Scores ELSE 0 .. Threshold - 1 :
          run' = [run EXCEPT ![r].pc    = IF s >= Threshold THEN "captioned" ELSE "missed",
                             ![r].guide = IF s >= Threshold THEN s ELSE 0,
                             ![r].fell  = s < Threshold,
                             ![r].meta  = [meta' EXCEPT !.fallback = @ \/ s < Threshold],
                             ![r].lost  = Counted(r)]
    BY DEF ScoreStructured
  <2>3. s \in Scores
    BY <2>2, GuideGenerationAssumption DEF Scores
  <2>4. Becomes(r, y(s))
    BY <2>1, <2>2 DEF Becomes
  <2>5. QED
    BY <2>3, <2>4
<1>n. n \in Nat /\ n <= run[r].lost + 1 /\ (Live(r)' => n = 0)
  BY <1>1
<1>3. /\ m \in Meta /\ m.path = "structured" /\ m.script = TRUE /\ m.fallback = FALSE
      /\ run[r].fell = FALSE /\ run[r].seen = {} /\ run[r].pc \in {"s_caption", "s_judge"}
  BY <1>1 DEF ScoreStructured, Sound, Annotated, Candidates, Execution, Meta, Paths, Structured,
              Before, Failing
<1>t. s \in Nat /\ 0 \in Scores /\ (s >= Threshold => s > 0)
  BY GuideGenerationAssumption DEF Scores
<1> HIDE DEF n, m
<1>4. CASE s >= Threshold
  <2> DEFINE z == [run[r] EXCEPT !.pc = "captioned", !.guide = s, !.fell = FALSE,
                                 !.meta = [m EXCEPT !.fallback = FALSE], !.lost = n]
  <2>1. Becomes(r, z)
    <3>1. (s < Threshold) = FALSE /\ (s >= Threshold) = TRUE
      BY <1>4, GuideGenerationAssumption DEF Scores
    <3>2. y(s) = z
      BY <3>1, <1>3
    <3>3. QED
      BY <1>2, <3>2
  <2>2. z \in Execution
    BY <1>n, <1>1, <1>3 DEF Sound, Execution, Meta, PC
  <2>3. Spent(z) /\ (Live(r)' => z.lost = 0)
    BY <1>n, <1>1, <1>3 DEF Sound, Spent, Execution, Meta, Failing
  <2>4. Candidates(z) /\ Annotated(z)
    BY <1>1, <1>3, <1>4, <1>t
    DEF Sound, Candidates, Annotated, Execution, Meta, Failing, Before, Loop, Chosen, Structured
  <2>5. QED
    BY <2>1, <2>2, <2>3, <2>4, OneRunMoves DEF Sound
<1>5. CASE ~(s >= Threshold)
  <2> DEFINE z == [run[r] EXCEPT !.pc = "missed", !.guide = 0, !.fell = TRUE,
                                 !.meta = [m EXCEPT !.fallback = TRUE], !.lost = n]
  <2>1. Becomes(r, z)
    <3>1. (s < Threshold) = TRUE /\ (s >= Threshold) = FALSE
      BY <1>5, GuideGenerationAssumption DEF Scores
    <3>2. y(s) = z
      BY <3>1, <1>3
    <3>3. QED
      BY <1>2, <3>2
  <2>2. z \in Execution
    BY <1>n, <1>1, <1>3, <1>t DEF Sound, Execution, Meta, PC
  <2>3. Spent(z) /\ (Live(r)' => z.lost = 0)
    BY <1>n, <1>1, <1>3 DEF Sound, Spent, Execution, Meta, Failing
  <2>4. Candidates(z) /\ Annotated(z)
    BY <1>1, <1>3
    DEF Sound, Candidates, Annotated, Execution, Meta, Failing, Before, Loop, Chosen, Structured
  <2>5. QED
    BY <2>1, <2>2, <2>3, <2>4, OneRunMoves DEF Sound
<1>6. QED
  BY <1>4, <1>5

(* The standard path: an attempt is checked, generated, enriched, judged   *)
(* and decided.                                                            *)
LEMMA AttemptOK ==
  ASSUME IInv, [Next]_vars, NEW r \in Runs, Attempt(r)
  PROVE  run' \in [Runs -> Execution \cup {Unused, Over}] /\ RunsOK'
<1>1. Sound(run[r]) /\ (Live(r) => run[r].lost = 0)
  BY AtPoint, ExecutingIsSound DEF IInv, Attempt, PC, Stages
<1>2. CASE Goto(r, "permanent")
  BY <1>2, GotoFailing DEF Attempt, PC, Failing
<1>3. CASE Goto(r, "generate") /\ Live(r)
  <2> DEFINE y == [run[r] EXCEPT !.pc = "generate"]
  <2>1. run[r].pc = "attempt" /\ run[r].attempt < 3 /\ run[r].lost = 0
    BY <1>1, <1>3 DEF Attempt
  <2>2. y \in Execution
    BY <1>1 DEF Sound, Execution, PC, Stages, Standard
  <2>3. Spent(y) /\ (Live(r)' => y.lost = 0)
    BY <1>1, <2>1 DEF Sound, Spent, Execution, Failing
  <2>4. Candidates(y) /\ Annotated(y)
    BY <1>1, <2>1 DEF Sound, Candidates, Annotated, Execution, Failing, Before, Loop, Chosen, Structured
  <2>5. QED
    BY <1>3, <2>2, <2>3, <2>4, GotoBecomes, OneRunMoves DEF Sound
<1>4. QED
  BY <1>2, <1>3 DEF Attempt, Beats

LEMMA GenerateOK ==
  ASSUME IInv, [Next]_vars, NEW r \in Runs, Generate(r)
  PROVE  run' \in [Runs -> Execution \cup {Unused, Over}] /\ RunsOK'
<1>0. Executing(r) /\ UNCHANGED <<job, holder>>
  BY AtPoint DEF IInv, Generate, PC, Stages, Standard
<1>1. /\ Sound(run[r])
      /\ Counted(r) \in Nat /\ Counted(r) <= run[r].lost + 1 /\ (Live(r)' => Counted(r) = 0)
  BY <1>0, Count, ExecutingIsSound
<1> DEFINE n == Counted(r)
<1>n. n \in Nat /\ n <= run[r].lost + 1 /\ (Live(r)' => n = 0)
  BY <1>1
<1>2. run[r].pc = "generate"
  BY DEF Generate
<1>3. CASE CallEnds(r, "enrich")
  <2> DEFINE y == [run[r] EXCEPT !.pc = "enrich", !.lost = n]
  <2>1. Becomes(r, y)
    BY <1>3, CallBecomes
  <2> HIDE DEF n
  <2>2. y \in Execution
    BY <1>n, <1>1 DEF Sound, Execution, PC, Stages, Standard
  <2>3. Spent(y) /\ (Live(r)' => y.lost = 0)
    BY <1>n, <1>1, <1>2 DEF Sound, Spent, Execution, Failing
  <2>4. Candidates(y) /\ Annotated(y)
    BY <1>1, <1>2 DEF Sound, Candidates, Annotated, Execution, Failing, Before, Loop, Chosen, Structured
  <2>5. QED
    BY <2>1, <2>2, <2>3, <2>4, OneRunMoves DEF Sound
<1>4. CASE run' = [run EXCEPT ![r].pc = "attempt", ![r].attempt = @ + 1, ![r].lost = Counted(r)]
  <2> DEFINE y == [run[r] EXCEPT !.pc = "attempt", !.attempt = @ + 1, !.lost = n]
  <2>1. Becomes(r, y)
    BY <1>4 DEF Becomes, IInv, TypeOK
  <2> HIDE DEF n
  <2>a. run[r].attempt + 1 \in 0 .. 3
    BY <1>1, <1>2 DEF Sound, Candidates, Loop, Execution
  <2>2. y \in Execution
    BY <1>n, <1>1, <2>a DEF Sound, Execution, PC
  <2>3. Spent(y) /\ (Live(r)' => y.lost = 0)
    BY <1>n, <1>1, <1>2 DEF Sound, Spent, Execution, Failing
  <2>4. Candidates(y) /\ Annotated(y)
    BY <1>1, <1>2 DEF Sound, Candidates, Annotated, Execution, Failing, Before, Loop, Chosen, Structured
  <2>5. QED
    BY <2>1, <2>2, <2>3, <2>4, OneRunMoves DEF Sound
<1>5. QED
  BY <1>3, <1>4 DEF Generate

(* The best of what was seen stays the best when one more is seen.         *)
LEMMA BestOfIsBest ==
  ASSUME NEW x, Sound(x), x.pc \in Loop, NEW s \in 0 .. Threshold - 1
  PROVE  /\ s \in Scores /\ BestOf(x.best, s) \in Scores
         /\ BestOf(x.best, s) < Threshold
         /\ \A t \in x.seen \cup {s} : t <= BestOf(x.best, s)
BY GuideGenerationAssumption DEF Sound, Candidates, Execution, Scores, BestOf

(* A candidate below the threshold costs an attempt.                       *)
LEMMA MissOK ==
  ASSUME IInv, [Next]_vars, NEW r \in Runs, run[r].pc \in {"enrich", "judge"},
         UNCHANGED <<job, holder>>, NEW s \in 0 .. Threshold - 1,
         Becomes(r, [run[r] EXCEPT !.pc = "attempt", !.attempt = @ + 1, !.seen = @ \cup {s},
                                   !.best = BestOf(@, s), !.lost = Counted(r)])
  PROVE  run' \in [Runs -> Execution \cup {Unused, Over}] /\ RunsOK'
<1>0. Executing(r)
  BY AtPoint DEF IInv, PC, Stages, Standard
<1>1. /\ Sound(run[r])
      /\ Counted(r) \in Nat /\ Counted(r) <= run[r].lost + 1 /\ (Live(r)' => Counted(r) = 0)
  BY <1>0, Count, ExecutingIsSound
<1> DEFINE n == Counted(r)
           b == BestOf(run[r].best, s)
           y == [run[r] EXCEPT !.pc = "attempt", !.attempt = @ + 1, !.seen = @ \cup {s},
                               !.best = b, !.lost = n]
<1>2. Becomes(r, y)
  OBVIOUS
<1>3. s \in Scores /\ b \in Scores /\ b < Threshold /\ \A t \in run[r].seen \cup {s} : t <= b
  BY <1>1, BestOfIsBest DEF Loop
<1>n. n \in Nat /\ n <= run[r].lost + 1 /\ (Live(r)' => n = 0)
  BY <1>1
<1> HIDE DEF n, b
<1>a. run[r].attempt + 1 \in 0 .. 3
  BY <1>1 DEF Sound, Candidates, Loop, Execution
<1>4. y \in Execution
  BY <1>n, <1>1, <1>3, <1>a DEF Sound, Execution, PC
<1>5. Spent(y) /\ (Live(r)' => y.lost = 0)
  BY <1>n, <1>1 DEF Sound, Spent, Execution, Failing
<1>6. Candidates(y)
  BY <1>1, <1>3 DEF Sound, Candidates, Execution, Before, Loop, Chosen, Structured
<1>7. Annotated(y)
  BY <1>1 DEF Sound, Annotated, Execution, Failing, Loop, Chosen, Structured
<1>8. QED
  BY <1>2, <1>4, <1>5, <1>6, <1>7, OneRunMoves DEF Sound

LEMMA EnrichOK ==
  ASSUME IInv, [Next]_vars, NEW r \in Runs, Enrich(r)
  PROVE  run' \in [Runs -> Execution \cup {Unused, Over}] /\ RunsOK'
<1>0. Executing(r) /\ UNCHANGED <<job, holder>>
  BY AtPoint DEF IInv, Enrich, PC, Stages, Standard
<1>1. /\ Sound(run[r])
      /\ Counted(r) \in Nat /\ Counted(r) <= run[r].lost + 1 /\ (Live(r)' => Counted(r) = 0)
  BY <1>0, Count, ExecutingIsSound
<1>2. CASE CallEnds(r, "judge")
  <2> DEFINE n == Counted(r)
             y == [run[r] EXCEPT !.pc = "judge", !.lost = n]
  <2>1. Becomes(r, y) /\ run[r].pc = "enrich"
    BY <1>2, CallBecomes DEF Enrich
  <2>n. n \in Nat /\ n <= run[r].lost + 1 /\ (Live(r)' => n = 0)
    BY <1>1
  <2> HIDE DEF n
  <2>2. y \in Execution
    BY <2>n, <1>1 DEF Sound, Execution, PC, Stages, Standard
  <2>3. Spent(y) /\ (Live(r)' => y.lost = 0)
    BY <2>n, <1>1, <2>1 DEF Sound, Spent, Execution, Failing
  <2>4. Candidates(y) /\ Annotated(y)
    BY <1>1, <2>1 DEF Sound, Candidates, Annotated, Execution, Failing, Before, Loop, Chosen, Structured
  <2>5. QED
    BY <2>1, <2>2, <2>3, <2>4, OneRunMoves DEF Sound
<1>3. ASSUME NEW s \in 0 .. Threshold - 1,
             run' = [run EXCEPT ![r].pc = "attempt", ![r].attempt = @ + 1,
                                ![r].seen = @ \cup {s}, ![r].best = BestOf(@, s),
                                ![r].lost = Counted(r)]
      PROVE  run' \in [Runs -> Execution \cup {Unused, Over}] /\ RunsOK'
  <2>1. Becomes(r, [run[r] EXCEPT !.pc = "attempt", !.attempt = @ + 1, !.seen = @ \cup {s},
                                  !.best = BestOf(@, s), !.lost = Counted(r)])
    BY <1>3 DEF Becomes, IInv, TypeOK
  <2>2. run[r].pc = "enrich"
    BY DEF Enrich
  <2>3. QED
    BY <1>0, <2>1, <2>2, MissOK
<1>4. QED
  BY <1>2, <1>3 DEF Enrich

LEMMA JudgeOK ==
  ASSUME IInv, [Next]_vars, NEW r \in Runs, Judge(r)
  PROVE  run' \in [Runs -> Execution \cup {Unused, Over}] /\ RunsOK'
<1>0. Executing(r) /\ UNCHANGED <<job, holder>>
  BY AtPoint DEF IInv, Judge, PC, Stages, Standard
<1>1. /\ Sound(run[r])
      /\ Counted(r) \in Nat /\ Counted(r) <= run[r].lost + 1 /\ (Live(r)' => Counted(r) = 0)
  BY <1>0, Count, ExecutingIsSound
<1>2. run[r].pc = "judge" /\ run \in [Runs -> Execution \cup {Unused, Over}]
  BY DEF Judge, IInv, TypeOK
<1>3. PICK s \in Scores :
        run' = [run EXCEPT
          ![r].pc = IF s >= Threshold THEN "accepted" ELSE "attempt",
          ![r].guide = IF s >= Threshold THEN s ELSE 0,
          ![r].attempt = IF s >= Threshold THEN @ ELSE @ + 1,
          ![r].seen = @ \cup {s},
          ![r].best = IF s >= Threshold THEN @ ELSE BestOf(@, s),
          ![r].lost = Counted(r)]
  BY DEF Judge
<1>4. CASE s >= Threshold
  <2> DEFINE n == Counted(r)
             y == [run[r] EXCEPT !.pc = "accepted", !.guide = s, !.seen = @ \cup {s}, !.lost = n]
  <2>1. Becomes(r, y)
    <3>1. y = [run[r] EXCEPT !.pc = "accepted", !.guide = s, !.attempt = @,
                             !.seen = @ \cup {s}, !.best = @, !.lost = n]
      BY <1>1 DEF Sound, Execution
    <3>2. QED
      BY <1>2, <1>3, <1>4, <3>1 DEF Becomes
  <2>2. s \in Nat /\ s > 0
    BY <1>4, GuideGenerationAssumption DEF Scores
  <2>n. n \in Nat /\ n <= run[r].lost + 1 /\ (Live(r)' => n = 0)
    BY <1>1
  <2> HIDE DEF n
  <2>3. y \in Execution
    BY <2>n, <1>1 DEF Sound, Execution, PC
  <2>4. Spent(y) /\ (Live(r)' => y.lost = 0)
    BY <2>n, <1>1, <1>2 DEF Sound, Spent, Execution, Failing
  <2>5. \A t \in run[r].seen : t <= s
    <3>1. /\ \A t \in run[r].seen : t \in Nat /\ t <= run[r].best
          /\ run[r].best < Threshold /\ run[r].best \in Nat
      BY <1>1, <1>2 DEF Sound, Candidates, Loop, Execution, Scores
    <3>2. QED
      BY <3>1, <2>2, <1>4, GuideGenerationAssumption
  <2>6. Candidates(y)
    BY <1>1, <1>2, <2>2, <2>5 DEF Sound, Candidates, Execution, Before, Loop, Chosen, Structured
  <2>7. Annotated(y)
    BY <1>1, <1>2 DEF Sound, Annotated, Execution, Failing, Loop, Chosen, Structured
  <2>8. QED
    BY <2>1, <2>3, <2>4, <2>6, <2>7, OneRunMoves DEF Sound
<1>5. CASE ~(s >= Threshold)
  <2>1. s \in 0 .. Threshold - 1
    BY <1>5, GuideGenerationAssumption DEF Scores
  <2> DEFINE y == [run[r] EXCEPT !.pc = "attempt", !.attempt = @ + 1, !.seen = @ \cup {s},
                                 !.best = BestOf(@, s), !.lost = Counted(r)]
  <2>2. Becomes(r, y)
    <3>1. run[r].guide = 0
      BY <1>1, <1>2 DEF Sound, Candidates, Loop
    <3>2. y = [run[r] EXCEPT !.pc = "attempt", !.guide = 0, !.attempt = @ + 1,
                             !.seen = @ \cup {s}, !.best = BestOf(@, s), !.lost = Counted(r)]
      BY <1>1, <3>1 DEF Sound, Execution
    <3>3. QED
      BY <1>2, <1>3, <1>5, <3>2 DEF Becomes
  <2>3. QED
    BY <1>0, <1>2, <2>1, <2>2, MissOK
<1>6. QED
  BY <1>4, <1>5

LEMMA DecideOK ==
  ASSUME IInv, [Next]_vars, NEW r \in Runs, Decide(r)
  PROVE  run' \in [Runs -> Execution \cup {Unused, Over}] /\ RunsOK'
<1>1. Sound(run[r]) /\ (Live(r) => run[r].lost = 0)
  BY AtPoint, ExecutingIsSound DEF IInv, Decide, PC, Stages
<1> DEFINE g == run[r].best
           p == IF g > 0 THEN "accepted" ELSE "permanent"
           y == [run[r] EXCEPT !.guide = g, !.pc = p]
<1>2. Becomes(r, y)
  BY DEF Decide, Becomes, IInv, TypeOK
<1>3. /\ run[r].pc = "attempt" /\ run[r].attempt = 3
      /\ g \in Scores /\ \A s \in run[r].seen : s <= g
      /\ g > 0 => run[r].seen # {}
  BY <1>1 DEF Decide, Sound, Candidates, Execution, Loop
<1>4. (p = "accepted" /\ g > 0) \/ p = "permanent"
  OBVIOUS
<1> HIDE DEF g, p
<1>5. y \in Execution
  BY <1>1, <1>3, <1>4 DEF Sound, Execution, PC
<1>6. Spent(y) /\ (Live(r)' => y.lost = 0)
  BY <1>1, <1>3, <1>4 DEF Sound, Spent, Execution, Meta, Failing, Decide, Live
<1>7. Candidates(y)
  BY <1>1, <1>3, <1>4 DEF Sound, Candidates, Execution, Before, Loop, Chosen, Structured
<1>8. Annotated(y)
  BY <1>1, <1>3, <1>4 DEF Sound, Annotated, Execution, Failing, Loop, Chosen, Structured
<1>9. QED
  BY <1>2, <1>5, <1>6, <1>7, <1>8, OneRunMoves DEF Sound

(* A run that has its guide moves on: to a call it may make, past one it   *)
(* skips, or through the heartbeat.                                        *)
LEMMA ChosenOK ==
  ASSUME IInv, [Next]_vars, NEW r \in Runs, UNCHANGED <<job, holder>>, NEW p, Goto(r, p),
         \/ run[r].pc = "accepted"  /\ p \in {"caption", "captioned"}
         \/ run[r].pc = "beat"      /\ p \in {"hook", "stamp"}
         \/ run[r].pc = "captioned" /\ p = "beat" /\ Live(r)
  PROVE  run' \in [Runs -> Execution \cup {Unused, Over}] /\ RunsOK'
<1>1. Sound(run[r]) /\ (Live(r) => run[r].lost = 0)
  BY AtPoint, ExecutingIsSound DEF IInv, PC, Stages
<1> DEFINE y == [run[r] EXCEPT !.pc = p]
<1>2. y \in Execution
  BY <1>1 DEF Sound, Execution, PC, Stages, Standard
<1>3. Spent(y) /\ (Live(r)' => y.lost = 0)
  BY <1>1 DEF Sound, Spent, Execution, Meta, Failing, Live
<1>4. Candidates(y) /\ Annotated(y)
  BY <1>1 DEF Sound, Candidates, Annotated, Execution, Failing, Before, Loop, Chosen, Structured
<1>5. QED
  BY <1>2, <1>3, <1>4, GotoBecomes, OneRunMoves DEF Sound

(* The calls after a guide was accepted.                                   *)
LEMMA BestEffortOK ==
  ASSUME IInv, [Next]_vars, NEW r \in Runs, BestEffort(r)
  PROVE  run' \in [Runs -> Execution \cup {Unused, Over}] /\ RunsOK'
<1>1. \E p : /\ Goto(r, p)
             /\ \/ run[r].pc = "accepted" /\ p \in {"caption", "captioned"}
                \/ run[r].pc = "beat"     /\ p \in {"hook", "stamp"}
  BY DEF BestEffort
<1>2. QED
  BY <1>1, ChosenOK DEF BestEffort

LEMMA HeartbeatAcceptedOK ==
  ASSUME IInv, [Next]_vars, NEW r \in Runs, HeartbeatAccepted(r)
  PROVE  run' \in [Runs -> Execution \cup {Unused, Over}] /\ RunsOK'
<1>1. CASE Goto(r, "permanent")
  BY <1>1, GotoFailing DEF HeartbeatAccepted, PC, Failing
<1>2. CASE Goto(r, "beat") /\ Live(r)
  BY <1>2, ChosenOK DEF HeartbeatAccepted
<1>3. QED
  BY <1>1, <1>2 DEF HeartbeatAccepted, Beats

LEMMA BestEffortEndsOK ==
  ASSUME IInv, [Next]_vars, NEW r \in Runs, BestEffortEnds(r)
  PROVE  run' \in [Runs -> Execution \cup {Unused, Over}] /\ RunsOK'
<1>0. Executing(r) /\ UNCHANGED <<job, holder>>
  BY AtPoint DEF IInv, BestEffortEnds, PC, Stages, Standard
<1>1. /\ Sound(run[r])
      /\ Counted(r) \in Nat /\ Counted(r) <= run[r].lost + 1 /\ (Live(r)' => Counted(r) = 0)
  BY <1>0, Count, ExecutingIsSound
<1> DEFINE n == Counted(r)
           p == IF run[r].pc = "caption" THEN "captioned" ELSE "stamp"
           y == [run[r] EXCEPT !.pc = p, !.lost = n]
<1>2. Becomes(r, y)
  BY CallBecomes DEF BestEffortEnds
<1>n. n \in Nat /\ n <= run[r].lost + 1 /\ (Live(r)' => n = 0)
  BY <1>1
<1>3. (run[r].pc = "caption" /\ p = "captioned") \/ (run[r].pc = "hook" /\ p = "stamp")
  BY DEF BestEffortEnds
<1> HIDE DEF n, p
<1>4. y \in Execution
  BY <1>n, <1>1, <1>3 DEF Sound, Execution, PC
<1>5. Spent(y) /\ (Live(r)' => y.lost = 0)
  BY <1>n, <1>1, <1>3 DEF Sound, Spent, Execution, Meta, Failing
<1>6. Candidates(y) /\ Annotated(y)
  BY <1>1, <1>3 DEF Sound, Candidates, Annotated, Execution, Failing, Before, Loop, Chosen, Structured
<1>7. QED
  BY <1>2, <1>4, <1>5, <1>6, OneRunMoves DEF Sound

(* A run that raises or meets the soft limit, and one that starts.         *)
LEMMA RaiseOK ==
  ASSUME IInv, [Next]_vars, NEW r \in Runs, Raise(r)
  PROVE  run' \in [Runs -> Execution \cup {Unused, Over}] /\ RunsOK'
<1>1. PICK kind \in Failing : IF run[r].pc \in Stages THEN CallEnds(r, kind) ELSE Goto(r, kind)
  BY DEF Raise, Failing
<1>2. run[r].pc \in PC /\ run[r].pc \notin Structured /\ UNCHANGED <<job, holder>>
  BY DEF Raise
<1>3. QED
  BY <1>1, <1>2, CallFails, GotoFailing

LEMMA SoftLimitOK ==
  ASSUME IInv, [Next]_vars, NEW r \in Runs, SoftLimit(r)
  PROVE  run' \in [Runs -> Execution \cup {Unused, Over}] /\ RunsOK'
<1>1. CASE run[r].pc \in Swallowing /\ run' = [run EXCEPT ![r].soft = TRUE]
  <2> DEFINE y == [run[r] EXCEPT !.soft = TRUE]
  <2>1. Sound(run[r]) /\ (Live(r) => run[r].lost = 0)
    BY AtPoint, ExecutingIsSound DEF IInv, SoftLimit, PC, Stages, Structured, Standard
  <2>2. Becomes(r, y)
    BY <1>1 DEF Becomes, IInv, TypeOK
  <2>3. y \in Execution
    BY <2>1 DEF Sound, Execution
  <2>4. Spent(y) /\ Candidates(y) /\ Annotated(y) /\ (Live(r)' => y.lost = 0)
    BY <2>1 DEF Sound, Spent, Candidates, Annotated, Execution, SoftLimit, Live
  <2>5. QED
    BY <2>2, <2>3, <2>4, OneRunMoves DEF Sound
<1>2. CASE run[r].pc \notin Swallowing /\ CallEnds(r, "permanent")
  BY <1>2, CallFails DEF SoftLimit, Swallowing, Stages, Structured, Failing
<1>3. QED
  BY <1>1, <1>2 DEF SoftLimit

(* A run that is over, and one that starts.                                *)
LEMMA EndOK ==
  ASSUME IInv, [Next]_vars, NEW r \in Runs, Stamp(r) \/ Settle(r) \/ Kill(r)
  PROVE  run' \in [Runs -> Execution \cup {Unused, Over}] /\ RunsOK'
<1>1. Becomes(r, Over)
  BY DEF Stamp, Settle, Kill, Becomes
<1>2. QED
  BY <1>1, OneRunMoves

LEMMA StartOK ==
  ASSUME IInv, [Next]_vars, NEW r \in Runs, Start(r)
  PROVE  run' \in [Runs -> Execution \cup {Unused, Over}] /\ RunsOK'
<1> DEFINE p == IF reel = "generating" /\ WithinBudget THEN "start" ELSE "permanent"
           y == [pc |-> p, attempt |-> 0, best |-> 0, guide |-> 0, seen |-> {}, meta |-> meta,
                 fell |-> FALSE, soft |-> FALSE, lost |-> 0]
<1>1. Becomes(r, y)
  BY DEF Start, Becomes
<1>2. p \in {"start", "permanent"}
  OBVIOUS
<1>3. 0 \in Scores /\ meta \in Meta
  BY GuideGenerationAssumption DEF Scores, IInv, TypeOK
<1> HIDE DEF p
<1>4. y \in Execution
  BY <1>2, <1>3 DEF Execution, PC
<1>s. Spent(y)
  BY <1>2 DEF Spent, Failing
<1>c. Candidates(y)
  BY <1>2 DEF Candidates, Before, Loop, Chosen, Structured
<1>5. Spent(y) /\ Candidates(y) /\ Annotated(y)
  BY <1>2, <1>s, <1>c DEF Annotated, Failing, Loop, Chosen, Structured
<1>6. QED
  BY <1>1, <1>4, <1>5, OneRunMoves DEF Sound

(* Every step keeps every run sound.                                       *)
LEMMA RunsStaySound ==
  ASSUME IInv, [Next]_vars
  PROVE  run' \in [Runs -> Execution \cup {Unused, Over}] /\ RunsOK'
<1>1. ASSUME NEW r \in Runs, Start(r) \/ Body(r)
      PROVE  run' \in [Runs -> Execution \cup {Unused, Over}] /\ RunsOK'
  BY <1>1, StartOK, EnterStructuredOK, EnterStandardOK, StructuredStageOK, ScoreStructuredOK,
     AttemptOK, GenerateOK, EnrichOK, JudgeOK, DecideOK, BestEffortOK, BestEffortEndsOK,
     HeartbeatAcceptedOK, EndOK DEF Body
<1>2. ASSUME NEW r \in Runs, Raise(r) \/ SoftLimit(r) \/ Settle(r) \/ Kill(r)
      PROVE  run' \in [Runs -> Execution \cup {Unused, Over}] /\ RunsOK'
  BY <1>2, RaiseOK, SoftLimitOK, EndOK
<1>3. CASE UNCHANGED run
  <2>1. run' \in [Runs -> Execution \cup {Unused, Over}]
    BY <1>3 DEF IInv, TypeOK
  <2>2. ASSUME NEW r \in Runs, Executing(r)'
        PROVE  Sound(run'[r]) /\ (Live(r)' => run'[r].lost = 0)
    <3>1. Executing(r) /\ run'[r] = run[r]
      BY <1>3, <2>2 DEF Executing
    <3>2. QED
      BY <3>1, LostForGood, ExecutingIsSound
  <2>3. QED
    BY <2>1, <2>2 DEF RunsOK, Sound
<1>4. QED
  BY <1>1, <1>2, <1>3 DEF Next, GiveUp, Resume, vars

-----------------------------------------------------------------------------
(* The rest of the state.                                                  *)
LEMMA TypeHolds == ASSUME IInv, [Next]_vars PROVE TypeOK'
<1>1. run' \in [Runs -> Execution \cup {Unused, Over}]
  BY RunsStaySound
<1>2. ASSUME NEW r \in Runs, Executing(r)
      PROVE  /\ run[r].guide \in Scores /\ run[r].meta \in Meta
  BY <1>2, ExecutingIsSound DEF Sound, Execution
<1>3. ASSUME NEW r \in Runs, Start(r) \/ Body(r)
      PROVE  reel' \in {"generating", "guide_ready", "failed"} /\ saved' \in Scores
             /\ job' \in {"pending", "running", "done", "failed"} /\ meta' \in Meta
             /\ holder' \in Runs \cup {NoRun} /\ events' \in Nat
  <2>1. CASE Start(r) \/ Attempt(r) \/ Decide(r) \/ BestEffort(r) \/ HeartbeatAccepted(r)
    BY <2>1 DEF Start, Attempt, Decide, BestEffort, HeartbeatAccepted, IInv, TypeOK
  <2>2. CASE StructuredStage(r) \/ Generate(r) \/ Enrich(r) \/ Judge(r) \/ BestEffortEnds(r)
    <3>1. events' = events + 1 /\ UNCHANGED <<reel, saved, job, meta, holder>>
      BY <2>2 DEF StructuredStage, Generate, Enrich, Judge, BestEffortEnds, CallEnds
    <3>2. QED
      BY <3>1 DEF IInv, TypeOK
  <2>3. CASE TryStructured(r) \/ EnterStandard(r) \/ ScoreStructured(r)
    <3>1. run[r].meta \in Meta
      BY <2>3, <1>2, AtPoint
      DEF IInv, TryStructured, EnterStandard, ScoreStructured, PC, Stages, Structured
    <3>2. meta' \in Meta
      BY <2>3, <3>1 DEF TryStructured, EnterStandard, ScoreStructured, Stripped, Meta, Paths
    <3>3. events' \in {events, events + 1} /\ UNCHANGED <<reel, saved, job, holder>>
      BY <2>3 DEF TryStructured, EnterStandard, ScoreStructured
    <3>4. QED
      BY <3>2, <3>3 DEF IInv, TypeOK
  <2>4. CASE Stamp(r)
    <3>1. run[r].meta \in Meta /\ run[r].guide \in Scores
      BY <2>4, <1>2, AtPoint DEF IInv, Stamp, PC
    <3>2. [run[r].meta EXCEPT !.score = run[r].guide] \in Meta
      BY <3>1 DEF Meta
    <3>3. QED
      BY <2>4, <3>1, <3>2 DEF Stamp, IInv, TypeOK
  <2>5. QED
    BY <1>3, <2>1, <2>2, <2>3, <2>4 DEF Body
<1>4. ASSUME NEW r \in Runs, Raise(r) \/ SoftLimit(r) \/ Settle(r) \/ Kill(r)
      PROVE  reel' \in {"generating", "guide_ready", "failed"} /\ saved' \in Scores
             /\ job' \in {"pending", "running", "done", "failed"} /\ meta' \in Meta
             /\ holder' \in Runs \cup {NoRun} /\ events' \in Nat
  BY <1>4 DEF Raise, SoftLimit, Settle, Kill, CallEnds, IInv, TypeOK
<1>5. CASE GiveUp \/ Resume \/ UNCHANGED vars
  BY <1>5, <1>1 DEF GiveUp, Resume, vars, IInv, TypeOK
<1>6. QED
  BY <1>1, <1>3, <1>4, <1>5 DEF Next, TypeOK

(* Every step keeps the guide in step with its reel.                       *)
LEMMA FollowsHolds == ASSUME IInv, [Next]_vars PROVE GuideFollowsReel'
<1>1. ASSUME NEW r \in Runs, Stamp(r), Live(r) PROVE GuideFollowsReel'
  <2>1. run[r].guide > 0
    BY <1>1, AtPoint, ExecutingIsSound DEF IInv, Stamp, PC, Sound, Candidates, Chosen
  <2>2. QED
    BY <1>1, <2>1 DEF Stamp, GuideFollowsReel
<1>2. ASSUME NEW r \in Runs, Start(r) \/ (Body(r) /\ ~(Stamp(r) /\ Live(r)))
      PROVE  GuideFollowsReel'
  BY <1>2 DEF Start, Body, TryStructured, EnterStandard, StructuredStage, ScoreStructured, Attempt,
       Generate, Enrich, Judge, Decide, BestEffort, BestEffortEnds, HeartbeatAccepted, Stamp,
       IInv, GuideFollowsReel
<1>3. ASSUME NEW r \in Runs, Raise(r) \/ SoftLimit(r) \/ Settle(r) \/ Kill(r)
      PROVE  GuideFollowsReel'
  BY <1>3 DEF Raise, SoftLimit, Settle, Kill, Live, IInv, GuideFollowsReel
<1>4. CASE GiveUp \/ Resume \/ UNCHANGED vars
  BY <1>4 DEF GiveUp, Resume, vars, IInv, GuideFollowsReel
<1>5. QED
  BY <1>1, <1>2, <1>3, <1>4 DEF Next

LEMMA InitOK == ASSUME Init PROVE IInv
<1>1. 0 \in Scores
  BY GuideGenerationAssumption DEF Scores
<1>2. QED
  BY <1>1, GuideGenerationAssumption DEF Init, IInv, TypeOK, GuideFollowsReel, RunsOK, Executing

(* The inductive invariant of generation, for any executions, scores,      *)
(* threshold and cap: types, guide and reel in step, and every run sound,  *)
(* with what it may have spent since it lost its job.                      *)
THEOREM Inductive == Spec => []IInv
<1>1. IInv /\ [Next]_vars => IInv'
  BY TypeHolds, FollowsHolds, RunsStaySound DEF IInv
<1>2. QED
  BY InitOK, <1>1, PTL DEF Spec


-----------------------------------------------------------------------------
(* GuideFollowsReel, for any number of executions: the cuts have a guide   *)
(* exactly when the reel is guide_ready, and a reel is generating exactly  *)
(* while its job is in flight (tasks/generate.py, one commit for both).    *)
THEOREM GuideAndReelAgree == Spec => []GuideFollowsReel
<1>1. IInv => GuideFollowsReel
  BY DEF IInv
<1>2. QED
  BY Inductive, <1>1, PTL

(* BestAccepted, for any scores and threshold: no candidate of the         *)
(* standard path is better than the one kept, or than the one accepted.    *)
THEOREM BestIsAccepted == Spec => []BestAccepted
<1>1. IInv => BestAccepted
  BY ExecutingIsSound DEF BestAccepted, Sound, Candidates, Loop
<1>2. QED
  BY Inductive, <1>1, PTL

(* ZombieSpendBounded, for any number of executions: what a run spends     *)
(* after it lost its job never passes five calls, or four when it has no   *)
(* structured script.                                                      *)
THEOREM ZombieSpendIsBounded == Spec => []ZombieSpendBounded
<1>1. ASSUME IInv, NEW r \in Runs, Executing(r)
      PROVE  run[r].lost <= IF run[r].meta.script THEN 5 ELSE 4
  <2>1. Sound(run[r]) /\ run[r].pc \in PC /\ run[r].lost \in Nat /\ run[r].meta.script \in BOOLEAN
    BY <1>1, ExecutingIsSound DEF Sound, Execution, Meta
  <2>2. CASE run[r].pc \in Structured
    BY <2>1, <2>2 DEF Sound, Spent, Annotated, Structured
  <2>3. CASE run[r].pc \in PC \ Structured
    BY <2>1, <2>3 DEF Sound, Spent, PC, Stages, Standard, Failing
  <2>4. QED
    BY <2>1, <2>2, <2>3
<1>2. IInv => ZombieSpendBounded
  BY <1>1 DEF ZombieSpendBounded
<1>3. QED
  BY Inductive, <1>2, PTL

(* MetaDescribesGuide, for every step of every execution: the path, the    *)
(* fallback and the score job.meta gives at the done-stamp are those of    *)
(* the run that stamps it, whatever earlier runs of the job left there.    *)
THEOREM MetaIsTrue == Spec => MetaDescribesGuide
<1> DEFINE A == job' = "done" /\ job # "done" =>
                  /\ meta'.path = IF run[holder].seen = {} THEN "structured" ELSE "standard"
                  /\ meta'.fallback = run[holder].fell
                  /\ meta'.score = saved'
<1>1. ASSUME IInv, Next, job' = "done", job # "done" PROVE A
  <2>1. PICK r \in Runs : Stamp(r) /\ Live(r)
    <3>1. ASSUME NEW r \in Runs, Start(r) \/ Body(r) PROVE Stamp(r) /\ Live(r)
      BY <1>1, <3>1 DEF Start, Body, TryStructured, EnterStandard, StructuredStage,
           ScoreStructured, Attempt, Generate, Enrich, Judge, Decide, BestEffort, BestEffortEnds,
           HeartbeatAccepted, Stamp
    <3>2. ASSUME NEW r \in Runs, Raise(r) \/ SoftLimit(r) \/ Settle(r) \/ Kill(r) PROVE FALSE
      BY <1>1, <3>2 DEF Raise, SoftLimit, Settle, Kill
    <3>3. ~GiveUp /\ ~Resume
      BY <1>1 DEF GiveUp, Resume
    <3>4. QED
      BY <1>1, <3>1, <3>2, <3>3 DEF Next
  <2>2. Sound(run[r]) /\ run[r].pc = "stamp" /\ holder = r
    BY <1>1, <2>1, AtPoint, ExecutingIsSound DEF IInv, Stamp, PC, Live
  <2>3. saved' = run[r].guide /\ meta' = [run[r].meta EXCEPT !.score = run[r].guide]
    BY <2>1 DEF Stamp
  <2>4. QED
    BY <2>2, <2>3 DEF Sound, Execution, Meta, Annotated, Chosen, Structured, Failing
<1>2. IInv /\ [Next]_vars => [A]_vars
  BY <1>1
<1>3. QED
  BY Inductive, <1>2, PTL DEF Spec, MetaDescribesGuide

-----------------------------------------------------------------------------
(* The calls each run may still make before its next check of the budget;  *)
(* five for one that has not started.                                      *)
Ahead(x) ==
  CASE x.pc \in {"unused", "start", "s_enrich"} -> 5
    [] x.pc = "s_conflict" -> 4
    [] x.pc \in {"s_visuals", "generate"} -> 3
    [] x.pc \in {"s_caption", "enrich"} -> 2
    [] x.pc \in {"s_judge", "judge", "caption", "hook"} -> 1
    [] OTHER -> 0

(* ... as a set with one element per call.                                 *)
Due == {d \in Runs \X (1 .. 5) : d[2] <= Ahead(run[d[1]])}

Spending == events + Cardinality(Due) <= 5 * Cardinality(Runs) + (IF Cap > 3 THEN Cap - 3 ELSE 0)

(* A finite set without one of its members.                                *)
LEMMA OneLess ==
  ASSUME NEW S, NEW x \in S, IsFiniteSet(S)
  PROVE  IsFiniteSet(S \ {x}) /\ Cardinality(S \ {x}) = Cardinality(S) - 1
BY FS_RemoveElement

(* A run has at most five calls ahead that no check stops.                 *)
LEMMA AheadIsSmall == \A x : Ahead(x) \in 0 .. 5
BY DEF Ahead

(* Five calls for each run.                                                *)
LEMMA AllCalls ==
  /\ IsFiniteSet(Runs) /\ Cardinality(Runs) \in Nat
  /\ IsFiniteSet(Runs \X (1 .. 5))
  /\ Cardinality(Runs \X (1 .. 5)) = 5 * Cardinality(Runs)
<1>1. IsFiniteSet(1 .. 5) /\ Cardinality(1 .. 5) = 5
  <2>1. 1 \in Int /\ 5 \in Int /\ (IF 1 > 5 THEN 0 ELSE 5 - 1 + 1) = 5
    OBVIOUS
  <2>2. IsFiniteSet(1 .. 5) /\ Cardinality(1 .. 5) = IF 1 > 5 THEN 0 ELSE 5 - 1 + 1
    BY <2>1, FS_Interval, Zenon
  <2>3. QED
    BY <2>1, <2>2
<1>2. IsFiniteSet(Runs) /\ Cardinality(Runs) \in Nat
  BY GuideGenerationAssumption, FS_CardinalityType
<1>3. /\ IsFiniteSet(Runs \X (1 .. 5))
      /\ Cardinality(Runs \X (1 .. 5)) = Cardinality(Runs) * Cardinality(1 .. 5)
  BY <1>1, <1>2, FS_Product
<1>4. Cardinality(Runs) * 5 = 5 * Cardinality(Runs)
  BY <1>2
<1>5. QED
  BY <1>1, <1>2, <1>3, <1>4

(* The calls ahead can be counted.                                         *)
LEMMA DueIsFinite ==
  /\ IsFiniteSet(Due) /\ Cardinality(Due) \in Nat
  /\ Due' \subseteq Runs \X (1 .. 5)
  /\ IsFiniteSet(Due') /\ Cardinality(Due') \in Nat
<1>1. Due \subseteq Runs \X (1 .. 5) /\ Due' \subseteq Runs \X (1 .. 5)
  BY DEF Due
<1>2. QED
  BY <1>1, AllCalls, FS_Subset, FS_CardinalityType

(* A step that makes no call keeps the bound when it puts no call ahead ... *)
LEMMA NothingAhead ==
  ASSUME Spending, TypeOK, UNCHANGED events, NEW r \in Runs,
         \A s \in Runs \ {r} : run'[s] = run[s], Ahead(run'[r]) <= Ahead(run[r])
  PROVE  Spending'
<1>1. Due' \subseteq Due
  BY AheadIsSmall DEF Due
<1>2. Cardinality(Due') <= Cardinality(Due)
  BY <1>1, DueIsFinite, FS_Subset
<1>3. QED
  BY <1>2, DueIsFinite, AllCalls, GuideGenerationAssumption DEF Spending, TypeOK

(* ... or puts at most three there, right after the check of the budget. A *)
(* call takes one away.                                                    *)
LEMMA BudgetChecked ==
  ASSUME Spending, TypeOK, UNCHANGED events, NEW r \in Runs, WithinBudget, Ahead(run'[r]) <= 3
  PROVE  Spending'
<1> DEFINE All == Runs \X (1 .. 5)
           Four == All \ {<<r, 4>>}
           Both == Four \ {<<r, 5>>}
<1>1. Due' \subseteq Both
  BY AheadIsSmall DEF Due
<1>2. IsFiniteSet(All) /\ Cardinality(All) = 5 * Cardinality(Runs)
  BY AllCalls
<1>3. IsFiniteSet(Four) /\ Cardinality(Four) = Cardinality(All) - 1
  <2>1. <<r, 4>> \in All
    OBVIOUS
  <2>2. QED
    BY <2>1, <1>2, OneLess
<1>4. IsFiniteSet(Both) /\ Cardinality(Both) = Cardinality(Four) - 1
  <2>1. <<r, 5>> \in Four
    OBVIOUS
  <2>2. QED
    BY <2>1, <1>3, OneLess
<1>5. Cardinality(Due') <= Cardinality(Both)
  BY <1>1, <1>4, FS_Subset
<1> HIDE DEF All, Four, Both
<1>6. QED
  BY <1>2, <1>3, <1>4, <1>5, DueIsFinite, AllCalls, GuideGenerationAssumption
  DEF Spending, TypeOK, WithinBudget

(* A counted call is no longer ahead.                                      *)
LEMMA CallMade ==
  ASSUME Spending, TypeOK, events' = events + 1, NEW r \in Runs,
         \A s \in Runs \ {r} : run'[s] = run[s], Ahead(run'[r]) < Ahead(run[r])
  PROVE  Spending'
<1> DEFINE d == <<r, Ahead(run[r])>>
<1>1. d \in Due /\ Due' \subseteq Due \ {d}
  BY AheadIsSmall DEF Due
<1>2. /\ IsFiniteSet(Due \ {d})
      /\ Cardinality(Due \ {d}) = Cardinality(Due) - 1
  BY <1>1, DueIsFinite, FS_RemoveElement
<1>3. Cardinality(Due') <= Cardinality(Due \ {d})
  BY <1>1, <1>2, FS_Subset
<1>4. QED
  BY <1>2, <1>3, DueIsFinite, AllCalls, GuideGenerationAssumption DEF Spending, TypeOK

(* A run's step moves no other run.                                        *)
LEMMA OthersStay ==
  ASSUME TypeOK, NEW r \in Runs,
         \/ Start(r) \/ Body(r) \/ Raise(r) \/ SoftLimit(r) \/ Settle(r) \/ Kill(r)
  PROVE  \A s \in Runs \ {r} : run'[s] = run[s]
<1>1. CASE Start(r) \/ Settle(r) \/ Kill(r) \/ Stamp(r)
  BY <1>1 DEF Start, Settle, Kill, Stamp, TypeOK
<1>2. CASE Body(r) /\ ~Stamp(r)
  BY <1>2 DEF Body, TryStructured, EnterStandard, StructuredStage, ScoreStructured, Attempt,
       Generate, Enrich, Judge, Decide, BestEffort, BestEffortEnds, HeartbeatAccepted,
       CallEnds, Goto, TypeOK
<1>3. CASE Raise(r) \/ SoftLimit(r)
  BY <1>3 DEF Raise, SoftLimit, CallEnds, Goto, TypeOK
<1>4. QED
  BY <1>1, <1>2, <1>3

(* Calls made and calls ahead stay within the bound.                       *)
LEMMA SpendingHolds == ASSUME IInv, Spending, [Next]_vars PROVE Spending'
<1>1. ASSUME NEW r \in Runs, Start(r) \/ Settle(r) \/ Kill(r) \/ Stamp(r) PROVE Spending'
  <2>1. Ahead(run'[r]) <= Ahead(run[r])
    <3>1. CASE Start(r)
      BY <3>1, AheadIsSmall DEF Start, Ahead, Unused, IInv, TypeOK
    <3>2. CASE Settle(r) \/ Kill(r) \/ Stamp(r)
      <4>1. run'[r] = Over
        BY <3>2 DEF Settle, Kill, Stamp, IInv, TypeOK
      <4>2. Ahead(Over) = 0
        BY DEF Ahead, Over
      <4>3. QED
        BY <4>1, <4>2, AheadIsSmall
    <3>3. QED
      BY <1>1, <3>1, <3>2
  <2>2. UNCHANGED events
    BY <1>1 DEF Start, Settle, Kill, Stamp
  <2>3. QED
    BY <1>1, <2>1, <2>2, OthersStay, NothingAhead DEF IInv, Body
<1>2. ASSUME NEW r \in Runs, Body(r) \/ Raise(r) \/ SoftLimit(r), ~Stamp(r) PROVE Spending'
  <2>1. run \in [Runs -> Execution \cup {Unused, Over}]
    BY DEF IInv, TypeOK
  <2>2. run[r] \in Execution
    <3>1. run[r].pc \in PC
      BY <1>2 DEF Body, TryStructured, EnterStandard, StructuredStage, ScoreStructured, Attempt,
           Generate, Enrich, Judge, Decide, BestEffort, BestEffortEnds, HeartbeatAccepted,
           Raise, SoftLimit, PC, Stages, Structured, Standard
    <3>2. QED
      BY <3>1, AtPoint, ExecutingIsSound DEF IInv, Sound
  <2>3. CASE TryStructured(r) \/ EnterStandard(r) \/ Decide(r) \/ HeartbeatAccepted(r)
    <3>1. UNCHANGED events /\ Ahead(run'[r]) <= Ahead(run[r])
      BY <2>1, <2>2, <2>3
      DEF TryStructured, EnterStandard, Decide, HeartbeatAccepted, Goto, Execution, Ahead
    <3>2. QED
      BY <1>2, <3>1, OthersStay, NothingAhead DEF IInv
  <2>4. CASE Attempt(r) \/ BestEffort(r)
    <3>1. /\ UNCHANGED events
          /\ \/ WithinBudget /\ Ahead(run'[r]) <= 3
             \/ Ahead(run'[r]) <= Ahead(run[r])
      BY <2>1, <2>2, <2>4 DEF Attempt, BestEffort, Goto, Execution, Ahead
    <3>2. QED
      BY <1>2, <3>1, OthersStay, NothingAhead, BudgetChecked DEF IInv
  <2>5. CASE StructuredStage(r) \/ ScoreStructured(r)
    <3>1. CASE StructuredStage(r)
      <4>1. \/ run[r].pc = "s_enrich" /\ run'[r].pc \in {"s_conflict", "s_visuals", "missed"}
            \/ run[r].pc = "s_conflict" /\ run'[r].pc \in {"s_visuals", "missed"}
            \/ run[r].pc = "s_visuals" /\ run'[r].pc \in {"s_caption", "missed"}
            \/ run[r].pc = "s_caption" /\ run'[r].pc \in {"s_judge", "missed"}
        BY <2>1, <2>2, <3>1 DEF StructuredStage, CallEnds, Execution, Structured
      <4>2. events' = events + 1 /\ Ahead(run'[r]) < Ahead(run[r])
        BY <3>1, <4>1 DEF StructuredStage, CallEnds, Ahead
      <4>3. QED
        BY <1>2, <4>2, OthersStay, CallMade DEF IInv
    <3>2. CASE ScoreStructured(r)
      <4>1. run[r].pc \in {"s_caption", "s_judge"} /\ run'[r].pc \in {"captioned", "missed"}
        BY <2>1, <2>2, <3>2 DEF ScoreStructured, Execution
      <4>2. events' = events + 1 /\ Ahead(run'[r]) < Ahead(run[r])
        BY <3>2, <4>1 DEF ScoreStructured, Ahead
      <4>3. QED
        BY <1>2, <4>2, OthersStay, CallMade DEF IInv
    <3>3. QED
      BY <2>5, <3>1, <3>2
  <2>6. CASE Generate(r) \/ Enrich(r) \/ Judge(r) \/ BestEffortEnds(r)
    <3>1. events' = events + 1
      BY <2>6 DEF Generate, Enrich, Judge, BestEffortEnds, CallEnds
    <3>2. CASE Generate(r)
      <4>1. run[r].pc = "generate" /\ run'[r].pc \in {"enrich", "attempt"}
        BY <2>1, <2>2, <3>2 DEF Generate, CallEnds, Execution
      <4>2. QED
        BY <1>2, <3>1, <4>1, OthersStay, CallMade DEF IInv, Ahead
    <3>3. CASE Enrich(r)
      <4>1. run[r].pc = "enrich" /\ run'[r].pc \in {"judge", "attempt"}
        <5>1. CASE CallEnds(r, "judge")
          BY <2>1, <2>2, <3>3, <5>1 DEF Enrich, CallEnds, Execution
        <5>2. CASE \E s \in 0 .. Threshold - 1 :
                     run' = [run EXCEPT ![r].pc = "attempt", ![r].attempt = @ + 1,
                                        ![r].seen = @ \cup {s}, ![r].best = BestOf(@, s),
                                        ![r].lost = Counted(r)]
          <6>1. PICK s : run'[r] = [run[r] EXCEPT !.pc = "attempt", !.attempt = @ + 1,
                                      !.seen = @ \cup {s}, !.best = BestOf(@, s),
                                      !.lost = Counted(r)]
            BY <2>1, <5>2
          <6> DEFINE best == BestOf(run[r].best, s)
                     n == Counted(r)
          <6>2. run'[r] = [run[r] EXCEPT !.pc = "attempt", !.attempt = @ + 1,
                                      !.seen = @ \cup {s}, !.best = best, !.lost = n]
            BY <6>1
          <6> HIDE DEF best, n
          <6>3. QED
            BY <2>2, <3>3, <6>2 DEF Enrich, Execution
        <5>3. QED
          BY <3>3, <5>1, <5>2 DEF Enrich
      <4>2. QED
        BY <1>2, <3>1, <4>1, OthersStay, CallMade DEF IInv, Ahead
    <3>4. CASE Judge(r)
      <4>1. run[r].pc = "judge" /\ run'[r].pc \in {"accepted", "attempt"}
        BY <2>1, <2>2, <3>4 DEF Judge, Execution
      <4>2. QED
        BY <1>2, <3>1, <4>1, OthersStay, CallMade DEF IInv, Ahead
    <3>5. CASE BestEffortEnds(r)
      <4>1. run[r].pc \in {"caption", "hook"} /\ run'[r].pc \in {"captioned", "stamp"}
        BY <2>1, <2>2, <3>5 DEF BestEffortEnds, CallEnds, Execution
      <4>2. QED
        BY <1>2, <3>1, <4>1, OthersStay, CallMade DEF IInv, Ahead
    <3>6. QED
      BY <2>6, <3>2, <3>3, <3>4, <3>5
  <2>7. CASE Raise(r) \/ SoftLimit(r)
    <3>1. CASE events' = events + 1 /\ run[r].pc \in Stages /\ run'[r].pc \in Failing
      <4>1. Ahead(run'[r]) = 0 /\ Ahead(run[r]) > 0
        BY <3>1 DEF Ahead, Failing, Stages, Structured, Standard
      <4>2. QED
        BY <1>2, <3>1, <4>1, OthersStay, CallMade DEF IInv
    <3>2. CASE UNCHANGED events /\ (run'[r].pc \in Failing \/ run'[r].pc = run[r].pc)
      <4>1. Ahead(run'[r]) <= Ahead(run[r])
        BY <3>2, AheadIsSmall DEF Ahead, Failing
      <4>2. QED
        BY <1>2, <3>2, <4>1, OthersStay, NothingAhead DEF IInv
    <3>3. QED
      BY <2>1, <2>2, <2>7, <3>1, <3>2 DEF Raise, SoftLimit, CallEnds, Goto, Execution, Failing
  <2>8. QED
    BY <1>2, <2>3, <2>4, <2>5, <2>6, <2>7 DEF Body
<1>3. CASE GiveUp \/ Resume \/ UNCHANGED vars
  <2>1. UNCHANGED <<run, events>>
    BY <1>3 DEF GiveUp, Resume, vars
  <2>2. QED
    BY <2>1 DEF Spending, Due
<1>4. QED
  BY <1>1, <1>2, <1>3 DEF Next, Body

(* OvershootBounded, for any cap and any number of executions: whatever is *)
(* in flight when the budget runs out, the calls of a job never pass it by *)
(* more than the calls the other executions may still have ahead.          *)
THEOREM OvershootIsBounded == Spec => []OvershootBounded
<1>1. Init => Spending
  <2>1. Init => events = 0
    BY DEF Init
  <2>2. Cardinality(Due) <= 5 * Cardinality(Runs)
    BY AllCalls, FS_Subset DEF Due
  <2>3. QED
    BY <2>1, <2>2, AllCalls, DueIsFinite, GuideGenerationAssumption DEF Spending
<1>2. IInv /\ Spending /\ [Next]_vars => Spending'
  BY SpendingHolds
<1>3. IInv /\ Spending => OvershootBounded
  BY AllCalls, DueIsFinite, GuideGenerationAssumption DEF IInv, TypeOK, Spending, OvershootBounded
<1>4. QED
  BY Inductive, <1>1, <1>2, <1>3, PTL DEF Spec


-----------------------------------------------------------------------------
(* The job seen from outside: it holds the reel while the reel is          *)
(* generating.                                                             *)
Life == INSTANCE JobLifecycle WITH phase <- job, held <- (reel = "generating")

(* Retries, resumes, kills and superseded runs are invisible outside: the  *)
(* generate job is a JobLifecycle, which holds its reel to the very commit *)
(* that makes it terminal (tasks/generate.py: guide, reel and done-stamp   *)
(* are one commit; common.py: a failing job and its owner are too).        *)
THEOREM GenerateJobIsALifecycle == Spec => Life!Spec
<1>1. Init => Life!Init
  BY DEF Init, Life!Init
<1>2. IInv /\ [Next]_vars => [Life!Next]_<<job, reel = "generating">>
  <2> SUFFICES ASSUME IInv, [Next]_vars
               PROVE  Life!Next \/ UNCHANGED <<job, reel = "generating">>
    OBVIOUS
  <2> USE DEF Life!Next, Life!Start, Life!HandBack, Life!Succeed, Life!Fail
  <2>1. job \in {"pending", "running"} => reel = "generating"
    BY DEF IInv, GuideFollowsReel
  <2>2. ASSUME NEW r \in Runs, Start(r) PROVE Life!Next
    BY <2>2 DEF Start
  <2>3. ASSUME NEW r \in Runs, Stamp(r)
        PROVE  Life!Next \/ UNCHANGED <<job, reel>>
    BY <2>1, <2>3 DEF Stamp, Live
  <2>4. ASSUME NEW r \in Runs, Settle(r)
        PROVE  Life!Next \/ UNCHANGED <<job, reel>>
    BY <2>1, <2>4 DEF Settle, Live
  <2>5. ASSUME NEW r \in Runs,
               \/ TryStructured(r) \/ EnterStandard(r) \/ StructuredStage(r)
               \/ ScoreStructured(r) \/ Attempt(r) \/ Generate(r) \/ Enrich(r) \/ Judge(r)
               \/ Decide(r) \/ BestEffort(r) \/ BestEffortEnds(r) \/ HeartbeatAccepted(r)
               \/ Raise(r) \/ SoftLimit(r) \/ Kill(r)
        PROVE  UNCHANGED <<job, reel>>
    BY <2>5 DEF TryStructured, EnterStandard, StructuredStage, ScoreStructured, Attempt,
         Generate, Enrich, Judge, Decide, BestEffort, BestEffortEnds, HeartbeatAccepted, Raise,
         SoftLimit, Kill
  <2>6. CASE GiveUp \/ Resume
    BY <2>1, <2>6 DEF GiveUp, Resume
  <2>7. CASE UNCHANGED vars
    BY <2>7 DEF vars
  <2>8. QED
    BY <2>2, <2>3, <2>4, <2>5, <2>6, <2>7 DEF Next, Body
<1>3. QED
  BY Inductive, <1>1, <1>2, PTL DEF Spec, Life!Spec
=============================================================================
