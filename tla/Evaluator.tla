----------------------------- MODULE Evaluator -----------------------------
(***************************************************************************)
(* score_guide (engine/generation/evaluator.py): seventeen axes that each  *)
(* deduct points from a generated guide, and their sum under the           *)
(* operator's multipliers. The regular expressions and word lists are      *)
(* data: a voice-over line and a visual direction are given by what they   *)
(* match. Ratios are exact here and floats in the code, so a rounding tie  *)
(* may fall the other way there.                                           *)
(*                                                                         *)
(* The state is a guide; a step is one difference between the guides that  *)
(* successive attempts (or two cuts of one attempt) may have.              *)
(***************************************************************************)
EXTENDS Integers, Sequences, FiniteSets, FiniteSetsExt, SequencesExt

CONSTANTS
  Says,    \* what each voice-over line matches, a record per line
  Shows,   \* what each visual direction matches, a record per direction
  Takes,   \* for each beat type, the beats it can have
  Source,  \* keyword sets of the sentences of the operator's context
  Target   \* target_length_s

VARIABLE cuts \* MasterGuide.cuts

LineFields == {"words", "sents", "question", "exclaim", "trigger", "stakes", "you",
               "direct", "loop", "action", "context", "analysis", "conflict",
               "conclusion", "stat", "number", "causal", "compare", "ctaHigh",
               "ctaLow", "article", "names", "tactical", "pos", "neg", "keys"}
ShotFields == {"words", "names", "action", "tactical", "context", "abstract",
               "generic", "category"}

(* The sets of words that a line is searched for.                          *)
WordFields == {"names", "tactical", "pos", "neg", "keys"}

ASSUME EvaluatorAssumption ==
  /\ \A l \in DOMAIN Says :
       /\ DOMAIN Says[l] = LineFields
       /\ Says[l].words \in Nat /\ Says[l].sents \in Seq(Nat) /\ Says[l].article \in Nat
       /\ \A f \in WordFields : IsFiniteSet(Says[l][f])
  \* no word is both in _EMOTION_POSITIVE and in _EMOTION_NEGATIVE
  /\ \A l, m \in DOMAIN Says : Says[l].pos \intersect Says[m].neg = {}
  /\ \A s \in DOMAIN Shows :
       /\ DOMAIN Shows[s] = ShotFields
       /\ Shows[s].words \in Nat /\ IsFiniteSet(Shows[s].names)
  /\ DOMAIN Takes = {"hook", "body", "cta"}
  /\ \A t \in DOMAIN Takes :
       Takes[t] \subseteq [vo : DOMAIN Says, visual : DOMAIN Shows, dur : Nat]
  /\ Source \in Seq(SUBSET STRING) /\ \A i \in DOMAIN Source : IsFiniteSet(Source[i])
  /\ Target \in Nat \ {0}

-----------------------------------------------------------------------------
(* Arithmetic.                                                             *)

(* Python's round() of p / q: half to even.                                *)
RoundDiv(p, q) ==
  LET f == p \div q
      r == 2 * (p % q)
  IN  IF r < q \/ (r = q /\ f % 2 = 0) THEN f ELSE f + 1

Count(beats, P(_)) == Cardinality({i \in DOMAIN beats : P(beats[i])})
Some(beats, P(_))  == \E i \in DOMAIN beats : P(beats[i])
SumOf(ns)          == LET sum[i \in 0..Len(ns)] == IF i = 0 THEN 0 ELSE sum[i - 1] + ns[i]
                      IN  sum[Len(ns)]
Total(s, f(_))     == SumOf([i \in DOMAIN s |-> f(s[i])])
Abs(n)             == IF n < 0 THEN -n ELSE n
Points(b, n)       == IF b THEN n ELSE 0

-----------------------------------------------------------------------------
(* _build_scoring_context.                                                 *)

Filmed(cs) == FlattenSeq([c \in DOMAIN cs |-> cs[c].beats])

Alike(a, b) == a.index = b.index /\ a.vo = b.vo /\ a.visual = b.visual

(* The beats of a sequence, those alike once.                              *)
Distinct(beats) ==
  LET seen[i \in 0..Len(beats)] ==
        IF i = 0 THEN << >>
        ELSE LET before == seen[i - 1]
             IN  IF Some(before, LAMBDA b : Alike(b, beats[i])) THEN before
                 ELSE Append(before, beats[i])
  IN  seen[Len(beats)]

(* Mutant: a beat counts once for each cut it is in.                       *)
EveryBeat(cs) == Filmed(cs)

(* The beats of all cuts, those alike (index, voice-over, visual) once.    *)
AllBeats(cs) == Distinct(Filmed(cs))

OfType(bs, t) == {i \in DOMAIN bs : bs[i].type = t}

Vo(b)  == Says[b.vo]
Vis(b) == Shows[b.visual]

(* The voice-over of the hook, or of the first beat.                       *)
FirstVo(bs) ==
  LET hooks == OfType(bs, "hook") IN Vo(bs[IF hooks # {} THEN Min(hooks) ELSE 1])

(* Words of the first sentence; 99 when there is none.                     *)
Opener(bs) == IF FirstVo(bs).sents = << >> THEN 99 ELSE FirstVo(bs).sents[1]

Union(beats, f(_)) == UNION {f(beats[i]) : i \in DOMAIN beats}

-----------------------------------------------------------------------------
(* The axes; bs is AllBeats of the guide's cuts.                           *)

(* A question mark decides first, then an exclamation mark, then the length. *)
Energy(l) == IF l.question         THEN "question"
             ELSE IF l.exclaim     THEN "exclamation"
             ELSE IF l.words <= 10 THEN "punchy"
             ELSE IF l.words >= 25 THEN "expansive"
             ELSE "standard"

HookPoints(bs) ==
  LET l == FirstVo(bs)
  IN  Min({10, Points(Opener(bs) <= 12, 3) + Points(Opener(bs) \in 13..16, 1)
               + Points(l.question, 3) + Points(l.trigger, 2)
               + Points(l.stakes, 2) + Points(l.you, 1)})

LoopPoints(bs) ==
  LET n == Count(bs, LAMBDA b : Vo(b).loop) IN Points(n >= 2, 5) + Points(n = 1, 3)

Spoken(b) == Vo(b).words > 0

MomentumPoints(bs) ==
  LET energies == {Energy(Vo(bs[i])) : i \in {k \in DOMAIN bs : Spoken(bs[k])}}
  IN  Max({0, Min({5, Cardinality(energies) - 1
                      + Points(Some(bs, LAMBDA b : Spoken(b) /\ Vo(b).words <= 10), 1)
                      + Points(Some(bs, LAMBDA b : Vo(b).words >= 25), 1)})})

Retention(bs) == (10 - HookPoints(bs)) + (5 - LoopPoints(bs)) + (5 - MomentumPoints(bs))

Body(b) == b.type = "body"

Narrative(bs) ==
  LET told == [hook       |-> OfType(bs, "hook") # {},
               context    |-> Some(bs, LAMBDA b : Body(b) /\ (Vo(b).names # {} \/ Vo(b).context)),
               analysis   |-> Some(bs, LAMBDA b : Body(b) /\ Vo(b).analysis),
               conflict   |-> Some(bs, LAMBDA b : Body(b) /\ Vo(b).conflict),
               conclusion |-> \/ OfType(bs, "cta") # {}
                              \/ \E i \in DOMAIN bs : i >= Len(bs) - 1 /\ Vo(bs[i]).conclusion]
      missing == {stage \in DOMAIN told : ~told[stage]}
  IN  Min({15, 3 * Cardinality(missing)})

(* A source sentence is echoed when 30% of its keywords are said.          *)
ContextCoverage(bs) ==
  LET said == Union(bs, LAMBDA b : Vo(b).keys)
      n == Len(Source)
      m == Count(Source, LAMBDA kw : 10 * Cardinality(kw \intersect said) >= 3 * Cardinality(kw))
  IN  IF 2 * m < n THEN Min({10, (20 * (n - 2 * m)) \div n}) ELSE 0

TacticalTerms(bs) == Union(bs, LAMBDA b : Vo(b).tactical)

InsightWith(bs, baseline) ==
  LET hits == Cardinality(TacticalTerms(bs))
  IN  Max({0, 15 - Min({5, 2 * Count(bs, LAMBDA b : Vo(b).stat)})
                 - Min({4, Count(bs, LAMBDA b : Body(b) /\ Vo(b).causal)})
                 - (IF hits > 0 THEN Min({4, hits}) ELSE baseline)
                 - Min({2, Count(bs, LAMBDA b : Vo(b).compare)})})

(* Mutant: a script without tactical terms gets all of their points.       *)
InsightFullBaseline(bs) == InsightWith(bs, 4)

(* Narrative reels get 2 of the 4 tactical points.                         *)
Insight(bs) == InsightWith(bs, 2)

(* Each of three signals counts only if some voice-over has it. Entities   *)
(* give partial credit: 60 is a common denominator of up to 6 names.       *)
Alignment(bs) ==
  LET e == Count(bs, LAMBDA b : Vo(b).names # {})
      a == Count(bs, LAMBDA b : Vo(b).action)
      c == Count(bs, LAMBDA b : Vo(b).context)
      eHit == Total(bs, LAMBDA b :
                IF Vo(b).names = {} THEN 0
                ELSE (60 * Cardinality(Vo(b).names \intersect Vis(b).names))
                       \div Cardinality(Vo(b).names))
      aHit == Count(bs, LAMBDA b : Vo(b).action /\ Vis(b).action)
      cHit == Count(bs, LAMBDA b : Vo(b).context /\ Vis(b).context)
      \* over the common denominator 60 * d
      d == Max({1, e}) * Max({1, a}) * Max({1, c})
      score == (IF e = 0 THEN 0 ELSE 8 * eHit * (d \div e))
             + (IF a = 0 THEN 0 ELSE 8 * 60 * aHit * (d \div a))
             + (IF c = 0 THEN 0 ELSE 4 * 60 * cHit * (d \div c))
      applicable == (Points(e > 0, 8) + Points(a > 0, 8) + Points(c > 0, 4)) * 60 * d
  IN  IF applicable = 0 THEN 0
      ELSE RoundDiv(20 * (applicable - score), applicable)

Sourceable(v) ==
  LET acts == v.action \/ v.tactical
  IN  IF v.abstract                                             THEN 0
      ELSE IF v.names # {} /\ (acts \/ v.context)               THEN 3
      ELSE IF v.names # {} \/ (acts /\ v.words >= 5)            THEN 2
      ELSE Points(v.words >= 4, 1)

ClipAvailability(bs) ==
  LET pts == Total(bs, LAMBDA b : Sourceable(Vis(b)))
      most == 3 * Len(bs)
  IN  IF 100 * pts < 55 * most
        THEN Min({10, RoundDiv(22 * (55 * most - 100 * pts), 100 * most)}) ELSE 0

Editability(bs) ==
  LET n == Len(bs)
      vague == Count(bs, LAMBDA b : Vis(b).generic \/ Vis(b).words < 4)
      pts == Total(bs, LAMBDA b : IF Vis(b).generic THEN 0
                                   ELSE Points(Vis(b).words >= 5, 1) + Points(Vis(b).words >= 8, 1))
  IN  IF pts < n \/ 10 * vague > 3 * n
        THEN Min({10, Max({RoundDiv(10 * Max({0, n - pts}), n), RoundDiv(12 * vague, n)})})
        ELSE 0

EmotionWords(bs) == Union(bs, LAMBDA b : Vo(b).pos \union Vo(b).neg)

Emotion(bs) ==
  LET pos == Union(bs, LAMBDA b : Vo(b).pos)
      neg == Union(bs, LAMBDA b : Vo(b).neg)
      hits == Cardinality(pos) + Cardinality(neg)
      spread == Count(bs, LAMBDA b : Vo(b).pos \union Vo(b).neg # {})
      clustered == /\ hits >= 4 /\ Len(bs) >= 3
                   /\ spread < Max({2, (4 * Len(bs)) \div 10})
  IN  (IF hits < 2                    THEN Min({10, 4 * (3 - hits)})
       ELSE IF hits < 4               THEN 4
       ELSE Points(pos = {} \/ neg = {}, 2))
      + Points(clustered, 3)

Monotone(bs) ==
  LET n == Count(bs, Spoken)
      sum == Total(bs, LAMBDA b : Vo(b).words)
  IN  n >= 3 /\ \A i \in DOMAIN bs :
        Spoken(bs[i]) => 4 * Abs(n * Vo(bs[i]).words - sum) < Max({sum, n})

(* Pacing is judged per cut, rhythm and sentences once.                    *)
PacingPoints(cs, bs) ==
  LET hooks == Count(Filmed(cs), LAMBDA b : b.type = "hook" /\ Vo(b).words > 3 * b.dur)
      others == Count(Filmed(cs), LAMBDA b :
                  \/ b.type # "hook" /\ Vo(b).words > 4 * b.dur
                  \/ Spoken(b) /\ 10 * Vo(b).words < 8 * b.dur /\ b.dur >= 4)
      sents == FlattenSeq([i \in DOMAIN bs |-> Vo(bs[i]).sents])
      n == Len(sents)
      tiring == \/ Total(sents, LAMBDA w : w) > 18 * n
                \/ 100 * Count(sents, LAMBDA w : w > 22) > 35 * n
  IN  4 * hooks + 2 * (others + Points(Monotone(bs), 1) + Points(tiring, 1)
                       + Points(FirstVo(bs).sents # << >> /\ Opener(bs) > 16, 1))

(* Mutant: the pacing problems of every platform's cut add up without end. *)
AudioUncapped(cs, bs) == PacingPoints(cs, bs)

Audio(cs, bs) == Min({10, PacingPoints(cs, bs)})

Variety(bs) ==
  LET categories == {Vis(bs[i]).category : i \in DOMAIN bs}
  IN  IF categories = {"other"} THEN 0
      ELSE Points(Cardinality(categories) = 1, 5) + Points(Cardinality(categories) = 2, 2)

Duration(cs) ==
  Total(cs, LAMBDA c :
    LET actual == Total(c.beats, LAMBDA b : b.dur)
    IN  IF 10 * actual < 7 * Target \/ 10 * actual > 13 * Target
          THEN Min({5, RoundDiv(10 * Abs(Target - actual), Target)}) ELSE 0)

CaptionHashtag(cs) ==
  Total(cs, LAMBDA c : Points(c.shortCaption, 2) + Points(c.fewHashtags, 2))

Cta(bs) ==
  LET ctas == OfType(bs, "cta")
  IN  IF ctas = {} \/ \E i \in ctas : Vo(bs[i]).ctaHigh THEN 0
      ELSE IF \E i \in ctas : Vo(bs[i]).ctaLow THEN 1 ELSE 3

Tone(bs) ==
  Min({10, Min({6, 2 * Total(bs, LAMBDA b : Vo(b).article)})
           + Points(~Some(bs, LAMBDA b : Vo(b).you), 3)
           + Points(~FirstVo(bs).direct /\ ~FirstVo(bs).question, 1)})

Throughline(bs) ==
  LET ctas == OfType(bs, "cta")
      names == UNION {Vo(bs[i]).names : i \in ctas}
      keys == UNION {Vo(bs[i]).keys : i \in ctas}
  IN  IF /\ ctas # {} /\ OfType(bs, "hook") # {}
         /\ FirstVo(bs).names \intersect names = {}
         /\ Cardinality(FirstVo(bs).keys \intersect keys) < 2
        THEN 5 ELSE 0

Specificity(bs) ==
  LET n == Cardinality(OfType(bs, "body"))
      vague == Count(bs, LAMBDA b : LET l == Vo(b) IN
                 Body(b) /\ ~(l.number \/ l.causal \/ l.action \/ l.compare \/ l.conflict))
  IN  IF vague > 0 /\ 10 * vague >= 4 * n THEN Min({5, RoundDiv(8 * vague, n)}) ELSE 0

(* Pairs of body beats, and those that share over half of the smaller set. *)
Repetition(bs) ==
  LET body == OfType(bs, "body")
      keys(i) == Vo(bs[i]).keys
      pairs == {p \in body \X body :
                  p[1] < p[2] /\ keys(p[1]) # {} /\ keys(p[2]) # {}}
      alike == {p \in pairs : 2 * Cardinality(keys(p[1]) \intersect keys(p[2]))
                                > Min({Cardinality(keys(p[1])), Cardinality(keys(p[2]))})}
      n == Cardinality(pairs)
      m == Cardinality(alike)
  IN  IF Cardinality(body) >= 3 /\ n > 0 /\ 10 * m > 4 * n THEN Min({5, RoundDiv(10 * m, n)}) ELSE 0

(* _AXIS_SCORERS: what each axis deducts.                                  *)
Deductions(cs) ==
  LET bs == AllBeats(cs)
  IN  [retention       |-> Retention(bs),
       narrative       |-> Narrative(bs),
       context         |-> ContextCoverage(bs),
       insight         |-> Insight(bs),
       alignment       |-> Alignment(bs),
       clip            |-> ClipAvailability(bs),
       editability     |-> Editability(bs),
       emotion         |-> Emotion(bs),
       audio           |-> Audio(cs, bs),
       variety         |-> Variety(bs),
       duration        |-> Duration(cs),
       caption_hashtag |-> CaptionHashtag(cs),
       cta             |-> Cta(bs),
       tone            |-> Tone(bs),
       throughline     |-> Throughline(bs),
       specificity     |-> Specificity(bs),
       repetition      |-> Repetition(bs)]

-----------------------------------------------------------------------------
(* score_guide.                                                            *)

Clamp(n) == Max({0, Min({100, n})})

Sum(f) ==
  f.retention + f.narrative + f.context + f.insight + f.alignment + f.clip + f.editability
  + f.emotion + f.audio + f.variety + f.duration + f.caption_hashtag + f.cta + f.tone
  + f.throughline + f.specificity + f.repetition

(* The deductions that are recorded.                                       *)
Taken(d) == [k \in DOMAIN d |-> Points(d[k] > 0, d[k])]

(* Every recorded deduction is taken, what the multipliers give back is    *)
(* added, and the result clamped. d gives the deductions, m the multiplier *)
(* of some axes; an axis without one keeps its points.                     *)
Score(d, m) ==
  LET t == Taken(d)
      back == [k \in DOMAIN t |-> IF k \in DOMAIN m THEN t[k] * (1 - m[k]) ELSE 0]
  IN  Clamp(100 - Sum(t) + Sum(back))

-----------------------------------------------------------------------------
(* Guides.                                                                 *)

Shape == <<"hook", "body", "body", "body", "cta">>

(* A cut as generated: a beat of each type from Takes.                     *)
Cut(takes) ==
  [beats |-> [i \in DOMAIN Shape |->
                [index |-> i, type |-> Shape[i], vo |-> takes[i].vo,
                 visual |-> takes[i].visual, dur |-> takes[i].dur]],
   shortCaption |-> FALSE, fewHashtags |-> FALSE]

Init == \E h \in Takes["hook"], b \in Takes["body"], c \in Takes["cta"] :
  cuts = <<Cut(<<h, b, b, b, c>>)>>

(* Another beat in its place, in the first cut.                            *)
Rewrite ==
  /\ Len(cuts) = 1
  /\ \E i \in DOMAIN cuts[1].beats : \E t \in Takes[cuts[1].beats[i].type] :
       cuts' = [cuts EXCEPT ![1].beats[i] =
                  [@ EXCEPT !.vo = t.vo, !.visual = t.visual, !.dur = t.dur]]

(* A guide without a call to action.                                       *)
DropCta ==
  /\ Len(cuts) = 1 /\ OfType(cuts[1].beats, "cta") # {}
  /\ cuts' = [cuts EXCEPT ![1].beats = Front(@)]

(* The second platform's caption or hashtags are too short.                *)
Recaption ==
  /\ Len(cuts) = 2
  /\ \/ ~cuts[2].shortCaption /\ cuts' = [cuts EXCEPT ![2].shortCaption = TRUE]
     \/ ~cuts[2].fewHashtags /\ cuts' = [cuts EXCEPT ![2].fewHashtags = TRUE]

(* The second platform's cut of the same stubs, its hook timed otherwise.  *)
SecondCut ==
  /\ Len(cuts) = 1
  /\ cuts' = Append(cuts, [cuts[1] EXCEPT !.beats[1].dur = @ + 4])

Next == Rewrite \/ DropCta \/ Recaption \/ SecondCut

Spec == Init /\ [][Next]_cuts

-----------------------------------------------------------------------------
(* Properties.                                                             *)

PerCut == {"duration", "caption_hashtag", "audio"}

(* The score with the axes of A at multiplier w.                           *)
Weighed(d, A, w) == Score(d, [k \in A |-> w])

(* A platform more, with the same script and footage, changes what each    *)
(* cut is judged by (length, caption, pacing) and nothing else: the beats  *)
(* are not counted again, nor each compared with its own copy. An operator *)
(* who mutes those three axes gets the score of one platform, also when    *)
(* the deductions of both pass 100.                                        *)
SecondCutCountsOnce ==
  Len(cuts) > 1 =>
    LET both == Deductions(cuts)
        one  == Deductions(<<cuts[1]>>)
    IN  /\ \A k \in DOMAIN both \ PerCut : both[k] = one[k]
        /\ Weighed(both, PerCut, 0) = Weighed(one, PerCut, 0)

(* The points each axis may take, by the table of docs/evaluation.md;      *)
(* length, caption and hashtags are judged for each of n cuts.             *)
Weight(n) ==
  [retention |-> 20, narrative |-> 15, context |-> 10, insight |-> 15, alignment |-> 20,
   clip |-> 10, editability |-> 10, emotion |-> 13, audio |-> 10, variety |-> 5,
   duration |-> 5 * n, caption_hashtag |-> 5 * n, cta |-> 3, tone |-> 10, throughline |-> 5,
   specificity |-> 5, repetition |-> 5]

(* What an operator's multiplier can do: whatever the guide, an axis that  *)
(* is muted (0) or doubled (2) moves the score by at most the points       *)
(* docs/evaluation.md gives the axis, muted upwards and doubled downwards. *)
(* No axis outgrows its weight, although its parts add up over the beats   *)
(* and over the platforms.                                                 *)
MultiplierReach ==
  LET d == Deductions(cuts)
      most == Weight(Len(cuts))
      score == Weighed(d, {}, 1)
  IN  \A a \in DOMAIN d :
        /\ Weighed(d, {a}, 0) \in score..(score + most[a])
        /\ Weighed(d, {a}, 2) \in (score - most[a])..score

(* Line m has every signal of line l that an issue asks for.               *)
SaysMore(l, m) ==
  /\ \A f \in {"stat", "causal", "compare", "context", "analysis", "conflict", "conclusion"} :
       l[f] => m[f]
  /\ \A f \in WordFields : l[f] \subseteq m[f]

(* Each beat of cs says at least what its beat of bs does.                  *)
AddsSignals(bs, cs) ==
  /\ DOMAIN bs = DOMAIN cs
  /\ \A i \in DOMAIN bs : SaysMore(Vo(bs[i]), Vo(cs[i]))

(* Adding what the issues ask for never costs points, with the two         *)
(* exceptions of this code, a point each: the first tactical term gives up *)
(* the two points of a narrative reel for one, and a fourth emotion word   *)
(* in a script that keeps them all in one beat and of one polarity.        *)
SignalsNeverCost ==
  [][ LET before == AllBeats(cuts)
          after == AllBeats(cuts')
          fourth == Cardinality(EmotionWords(before)) < 4 /\ Cardinality(EmotionWords(after)) >= 4
          first == TacticalTerms(before) = {} /\ TacticalTerms(after) # {}
      IN  AddsSignals(before, after) =>
            /\ Narrative(after) <= Narrative(before)
            /\ ContextCoverage(after) <= ContextCoverage(before)
            /\ Insight(after) <= Insight(before) + Points(first, 1)
            /\ Emotion(after) <= Emotion(before) + Points(fourth, 1) ]_cuts

=============================================================================
