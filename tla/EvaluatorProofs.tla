-------------------------- MODULE EvaluatorProofs --------------------------
(***************************************************************************)
(* What multipliers, a second platform and better lines do to a score, for *)
(* any lines, directions, beats and source.                                *)
(***************************************************************************)
EXTENDS Evaluator, FiniteSetTheorems, TLAPS

-----------------------------------------------------------------------------
(* Numbers.                                                                *)

(* A set of naturals that is not empty has a least element.                *)
LEMMA Least ==
  ASSUME NEW T, T \subseteq Nat, T # {}
  PROVE  \E x \in T : \A y \in T : x <= y
<1>1. PICK R : R = OpToRel(<, Nat)
  OBVIOUS
<1>2. \E x \in T : \A y \in T : ~(<<y, x>> \in R)
  <2>1. IsWellFoundedOn(R, Nat)
    BY <1>1, NatLessThanWellFounded
  <2>2. QED
    BY <2>1, WFMin
<1>3. \A x, y \in Nat : ~(<<y, x>> \in R) => x <= y
  BY <1>1 DEF OpToRel
<1>4. QED
  BY <1>2, <1>3

(* Induction over the positions of a sequence, with a set for the property. *)
LEMMA Steps ==
  ASSUME NEW n \in Nat, NEW S, 0 \in S,
         \A i \in 0..n : i # 0 /\ i - 1 \in S => i \in S
  PROVE  \A i \in 0..n : i \in S
<1> DEFINE Bad == {i \in 0..n : i \notin S}
<1>1. SUFFICES ASSUME Bad # {} PROVE FALSE
  OBVIOUS
<1>2. Bad \subseteq Nat
  OBVIOUS
<1>3. PICK m \in Bad : \A k \in Bad : m <= k
  BY <1>1, <1>2, Least
<1>4. m \in 0..n /\ m \notin S
  OBVIOUS
<1>5. m # 0 /\ m - 1 \in 0..n
  BY <1>4
<1>6. m - 1 \in S
  BY <1>3, <1>5
<1>7. QED
  BY <1>4, <1>5, <1>6

LEMMA MinType ==
  ASSUME NEW a \in Int, NEW b \in Int
  PROVE  Min({a, b}) = IF a <= b THEN a ELSE b
<1>1. PICK S : S = {a, b}
  OBVIOUS
<1>2. \E x \in S : \A y \in S : x <= y
  BY <1>1
<1>3. PICK x : x = CHOOSE z \in S : \A y \in S : z <= y
  OBVIOUS
<1>4. x \in S /\ \A y \in S : x <= y
  BY <1>2, <1>3
<1>5. Min(S) = x
  BY <1>3 DEF Min
<1>6. QED
  BY <1>1, <1>4, <1>5

LEMMA MaxType ==
  ASSUME NEW a \in Int, NEW b \in Int
  PROVE  Max({a, b}) = IF a >= b THEN a ELSE b
<1>1. PICK S : S = {a, b}
  OBVIOUS
<1>2. \E x \in S : \A y \in S : x >= y
  BY <1>1
<1>3. PICK x : x = CHOOSE z \in S : \A y \in S : z >= y
  OBVIOUS
<1>4. x \in S /\ \A y \in S : x >= y
  BY <1>2, <1>3
<1>5. Max(S) = x
  BY <1>3 DEF Max
<1>6. QED
  BY <1>1, <1>4, <1>5

LEMMA RoundType ==
  ASSUME NEW p \in Int, NEW q \in Nat \ {0}
  PROVE  RoundDiv(p, q) \in Int /\ (p <= 20 * q => RoundDiv(p, q) <= 20)
<1>1. PICK f \in Int, r \in Int : f = p \div q /\ r = p % q
  OBVIOUS
<1>2. RoundDiv(p, q) = IF 2 * r < q \/ (2 * r = q /\ f % 2 = 0) THEN f ELSE f + 1
  BY <1>1 DEF RoundDiv
<1>3. ASSUME p <= 20 * q PROVE f <= 19 \/ (f = 20 /\ r = 0)
  <2>1. p = q * f + r /\ 0 <= r /\ r < q
    BY <1>1
  <2>2. f <= 20
    <3>1. ASSUME f >= 21 PROVE q * f >= q * 21
      BY <3>1
    <3>2. QED
      BY <1>3, <2>1, <3>1
  <2>3. QED
    BY <1>3, <2>1, <2>2
<1>4. QED
  BY <1>1, <1>2, <1>3

(* A sum of integers is an integer, and grows no faster than its terms.    *)
LEMMA SumType ==
  ASSUME NEW ns \in Seq(Int)
  PROVE  /\ SumOf(ns) \in Int
         /\ (\A i \in DOMAIN ns : ns[i] >= 0) => SumOf(ns) >= 0
         /\ (\A i \in DOMAIN ns : ns[i] <= 5) => SumOf(ns) <= 5 * Len(ns)
<1>1. PICK n \in Nat : n = Len(ns)
  OBVIOUS
<1> DEFINE Rec(f, m) == f = [i \in 0..m |-> IF i = 0 THEN 0 ELSE f[i - 1] + ns[i]]
           Made == {m \in 0..n : \E f : Rec(f, m)}
<1>2. \A m \in 0..n : m \in Made
  <2>1. 0 \in Made
    <3>1. PICK f : f = [i \in 0..0 |-> 0]
      OBVIOUS
    <3>2. Rec(f, 0)
      BY <3>1
    <3>3. 0 \in 0..n
      OBVIOUS
    <3>4. QED
      BY <3>2, <3>3
  <2>2. ASSUME NEW m \in 0..n, m # 0, m - 1 \in Made PROVE m \in Made
    <3>1. PICK g : Rec(g, m - 1)
      BY <2>2
    <3>2. PICK f : f = [i \in 0..m |-> IF i < m THEN g[i] ELSE g[m - 1] + ns[m]]
      OBVIOUS
    <3>3. Rec(f, m)
      BY <2>2, <3>1, <3>2
    <3>4. QED
      BY <3>3
  <2> HIDE DEF Made
  <2>3. QED
    BY <2>1, <2>2, Steps
<1>3. \E f : Rec(f, n)
  BY <1>1, <1>2
<1>4. PICK sum : sum = CHOOSE f : Rec(f, n)
  OBVIOUS
<1>5. Rec(sum, n)
  BY <1>3, <1>4
<1>6. SumOf(ns) = sum[n]
  BY <1>1, <1>4 DEF SumOf
<1> DEFINE Good == {i \in 0..n : /\ sum[i] \in Int
                                 /\ (\A k \in 1..n : ns[k] >= 0) => sum[i] >= 0
                                 /\ (\A k \in 1..n : ns[k] <= 5) => sum[i] <= 5 * i}
<1>7. \A i \in 0..n : i \in Good
  <2>1. 0 \in Good
    BY <1>5
  <2>2. ASSUME NEW m \in 0..n, m # 0, m - 1 \in Good PROVE m \in Good
    <3>1. sum[m] = sum[m - 1] + ns[m]
      BY <1>5, <2>2
    <3>2. ns[m] \in Int /\ m \in 1..n
      BY <1>1, <2>2
    <3>3. QED
      BY <2>2, <3>1, <3>2
  <2> HIDE DEF Good
  <2>3. QED
    BY <2>1, <2>2, Steps
<1>8. n \in Good /\ DOMAIN ns = 1..n
  BY <1>1, <1>7
<1>9. QED
  BY <1>1, <1>6, <1>8


(* One sequence, or two, concatenated.                                     *)
LEMMA FlattenOne ==
  ASSUME NEW T, NEW s \in Seq(T)
  PROVE  FlattenSeq(<<s>>) = s
BY DEF FlattenSeq

LEMMA FlattenTwo ==
  ASSUME NEW T, NEW s \in Seq(T), NEW t \in Seq(T)
  PROVE  FlattenSeq(<<s, t>>) = s \o t
<1> DEFINE Rec(f) == f = [i \in 1..2 |-> IF i = 1 THEN <<s, t>>[i] ELSE f[i - 1] \o <<s, t>>[i]]
<1>1. PICK g : g = [i \in 1..2 |-> IF i = 1 THEN s ELSE s \o t]
  OBVIOUS
<1>2. Rec(g)
  BY <1>1
<1>3. PICK flat : flat = CHOOSE f : Rec(f)
  OBVIOUS
<1>4. Rec(flat)
  BY <1>2, <1>3
<1>5. FlattenSeq(<<s, t>>) = flat[2]
  BY <1>3 DEF FlattenSeq
<1>6. flat[2] = s \o t
  <2>1. \A i \in 1..2 : flat[i] = IF i = 1 THEN <<s, t>>[i] ELSE flat[i - 1] \o <<s, t>>[i]
    BY <1>4, Zenon
  <2>2. flat[1] = s
    BY <2>1
  <2>3. flat[2] = flat[1] \o t
    BY <2>1
  <2>4. QED
    BY <2>2, <2>3
<1>7. QED
  BY <1>5, <1>6

-----------------------------------------------------------------------------
(* The beats of a guide.                                                   *)

(* The first i elements of a sequence.                                     *)
LEMMA Prefix ==
  ASSUME NEW T, NEW s \in Seq(T), NEW i \in 0..Len(s)
  PROVE  /\ SubSeq(s, 1, i) \in Seq(T) /\ Len(SubSeq(s, 1, i)) = i
         /\ DOMAIN SubSeq(s, 1, i) = 1..i
         /\ \A k \in 1..i : SubSeq(s, 1, i)[k] = s[k]
OBVIOUS

LEMMA Joined ==
  ASSUME NEW T, NEW s \in Seq(T), NEW t \in Seq(T)
  PROVE  /\ s \o t \in Seq(T) /\ Len(s \o t) = Len(s) + Len(t)
         /\ \A i \in 1..Len(s) : (s \o t)[i] = s[i]
         /\ \A i \in (Len(s) + 1)..(Len(s) + Len(t)) : (s \o t)[i] = t[i - Len(s)]
         /\ SubSeq(s \o t, 1, Len(s)) = s
OBVIOUS

LEMMA PrefixGrows ==
  ASSUME NEW T, NEW s \in Seq(T), NEW i \in 1..Len(s)
  PROVE  Append(SubSeq(s, 1, i - 1), s[i]) = SubSeq(s, 1, i)
OBVIOUS

(* If the first n beats have an index each and those after them are alike  *)
(* one of them, they are the distinct ones.                                *)
LEMMA DistinctIs ==
  ASSUME NEW T, NEW s \in Seq(T), NEW n \in 0..Len(s),
         \A i, k \in 1..n : s[i].index = s[k].index => i = k,
         \A i \in (n + 1)..Len(s) : \E k \in 1..n : Alike(s[k], s[i])
  PROVE  Distinct(s) = SubSeq(s, 1, n)
<1>1. PICK l \in Nat : l = Len(s)
  OBVIOUS
<1> DEFINE After(before, i) ==
             IF \E j \in DOMAIN before : Alike(before[j], s[i]) THEN before
             ELSE Append(before, s[i])
           Rec(f) == f = [i \in 0..l |-> IF i = 0 THEN << >> ELSE After(f[i - 1], i)]
           Take(i) == SubSeq(s, 1, IF i < n THEN i ELSE n)
<1>2. ASSUME NEW i \in 1..l PROVE Take(i) = After(Take(i - 1), i)
  <2>1. CASE i <= n
    <3>1. Take(i - 1) = SubSeq(s, 1, i - 1) /\ Take(i) = SubSeq(s, 1, i)
      BY <1>1, <2>1
    <3>2. /\ DOMAIN SubSeq(s, 1, i - 1) = 1..(i - 1)
          /\ \A k \in 1..(i - 1) : SubSeq(s, 1, i - 1)[k] = s[k]
      <4>1. i - 1 \in 0..Len(s)
        BY <1>1
      <4>2. QED
        BY <4>1, Prefix
    <3>3. ~\E j \in DOMAIN SubSeq(s, 1, i - 1) : Alike(SubSeq(s, 1, i - 1)[j], s[i])
      <4>1. \A k \in 1..(i - 1) : ~Alike(s[k], s[i])
        BY <1>1, <2>1 DEF Alike
      <4>2. QED
        BY <3>2, <4>1
    <3>4. Append(SubSeq(s, 1, i - 1), s[i]) = SubSeq(s, 1, i)
      BY <1>1, PrefixGrows
    <3>5. QED
      BY <3>1, <3>3, <3>4
  <2>2. CASE i > n
    <3>1. Take(i - 1) = SubSeq(s, 1, n) /\ Take(i) = SubSeq(s, 1, n)
      BY <1>1, <2>2
    <3>2. /\ DOMAIN SubSeq(s, 1, n) = 1..n
          /\ \A k \in 1..n : SubSeq(s, 1, n)[k] = s[k]
      BY Prefix
    <3>3. \E j \in DOMAIN SubSeq(s, 1, n) : Alike(SubSeq(s, 1, n)[j], s[i])
      <4>1. \E k \in 1..n : Alike(s[k], s[i])
        BY <1>1, <2>2
      <4>2. QED
        BY <3>2, <4>1
    <3>4. QED
      BY <3>1, <3>3
  <2>3. QED
    BY <1>1, <2>1, <2>2
<1>3. Take(0) = << >>
  BY <1>1
<1> HIDE DEF Take, After
<1>4. PICK g : g = [i \in 0..l |-> Take(i)]
  OBVIOUS
<1>5. Rec(g)
  <2>1. \A i \in 0..l : g[i] = IF i = 0 THEN << >> ELSE After(g[i - 1], i)
    <3>1. ASSUME NEW i \in 0..l, i # 0 PROVE g[i] = After(g[i - 1], i)
      <4>1. g[i] = Take(i) /\ g[i - 1] = Take(i - 1) /\ i \in 1..l
        BY <1>1, <1>4, <3>1
      <4>2. QED
        BY <1>2, <4>1
    <3>2. QED
      BY <1>3, <1>4, <3>1
  <2>2. QED
    BY <1>4, <2>1
<1>6. PICK seen : seen = CHOOSE f : Rec(f)
  OBVIOUS
<1>7. Rec(seen)
  BY <1>5, <1>6
<1>8. Distinct(s) = seen[l]
  BY <1>1, <1>6 DEF Distinct, Some, After
<1> DEFINE Same == {i \in 0..l : seen[i] = Take(i)}
<1>9. \A i \in 0..l : i \in Same
  <2>1. 0 \in Same
    <3>1. 0 \in 0..l
      OBVIOUS
    <3>2. QED
      BY <1>3, <1>7, <3>1
  <2>2. ASSUME NEW i \in 0..l, i # 0, i - 1 \in Same PROVE i \in Same
    <3>1. seen[i] = After(seen[i - 1], i)
      BY <1>7, <2>2
    <3>2. seen[i - 1] = Take(i - 1) /\ i \in 1..l
      BY <2>2
    <3>3. QED
      BY <1>2, <3>1, <3>2
  <2> HIDE DEF Same
  <2>3. QED
    BY <2>1, <2>2, Steps
<1>10. seen[l] = Take(l)
  <2>1. l \in 0..l
    OBVIOUS
  <2>2. QED
    BY <1>9, <2>1
<1>11. Take(l) = SubSeq(s, 1, n)
  BY <1>1 DEF Take
<1>12. QED
  BY <1>8, <1>10, <1>11

-----------------------------------------------------------------------------
(* The inductive invariant: the beats of a cut are numbered and follow the *)
(* shape of a guide, the last one perhaps left out, and those of a second  *)
(* cut say and show what those of the first do.                            *)
Beat == [index : Nat, type : {"hook", "body", "cta"}, vo : DOMAIN Says, visual : DOMAIN Shows,
         dur : Nat]

OneCut == [beats : Seq(Beat), shortCaption : BOOLEAN, fewHashtags : BOOLEAN]

InShape(beats) ==
  /\ Len(beats) \in {4, 5}
  /\ \A i \in 1..Len(beats) : beats[i].index = i /\ beats[i].type = Shape[i]

SameStubs(a, b) == Len(a) = Len(b) /\ \A i \in 1..Len(a) : Alike(a[i], b[i])

Guide(cs) ==
  /\ cs \in Seq(OneCut) /\ Len(cs) \in {1, 2}
  /\ \A c \in 1..Len(cs) : InShape(cs[c].beats)
  /\ Len(cs) = 2 => SameStubs(cs[1].beats, cs[2].beats)

GuideInv == Guide(cuts)

LEMMA OneIsGuide ==
  ASSUME NEW c \in OneCut, InShape(c.beats)
  PROVE  Guide(<<c>>)
<1>1. <<c>> \in Seq(OneCut) /\ Len(<<c>>) = 1 /\ <<c>>[1] = c
  OBVIOUS
<1>2. QED
  BY <1>1 DEF Guide

LEMMA TwoAreGuide ==
  ASSUME NEW c \in OneCut, InShape(c.beats), NEW d \in OneCut, InShape(d.beats),
         SameStubs(c.beats, d.beats)
  PROVE  Guide(<<c, d>>)
<1>1. /\ <<c, d>> \in Seq(OneCut) /\ Len(<<c, d>>) = 2
      /\ <<c, d>>[1] = c /\ <<c, d>>[2] = d
  OBVIOUS
<1>2. QED
  BY <1>1 DEF Guide

LEMMA GuideIs ==
  ASSUME NEW cs, Guide(cs)
  PROVE  /\ cs[1] \in OneCut /\ InShape(cs[1].beats) /\ cs[1].beats \in Seq(Beat)
         /\ Len(cs) = 1 => cs = <<cs[1]>>
         /\ Len(cs) = 2 => /\ cs = <<cs[1], cs[2]>>
                           /\ cs[2] \in OneCut /\ InShape(cs[2].beats)
                           /\ cs[2].beats \in Seq(Beat)
                           /\ SameStubs(cs[1].beats, cs[2].beats)
<1>1. /\ cs \in Seq(OneCut) /\ Len(cs) \in {1, 2}
      /\ \A c \in 1..Len(cs) : InShape(cs[c].beats)
  BY DEF Guide
<1>2. \A c \in 1..Len(cs) : cs[c] \in OneCut
  BY <1>1
<1>3. \A c \in OneCut : c.beats \in Seq(Beat)
  BY DEF OneCut
<1>4. 1 \in 1..Len(cs) /\ (Len(cs) = 2 => 2 \in 1..Len(cs))
  BY <1>1
<1>5. Len(cs) = 1 => cs = <<cs[1]>>
  BY <1>1
<1>6. Len(cs) = 2 => cs = <<cs[1], cs[2]>>
  BY <1>1
<1>7. QED
  BY <1>1, <1>2, <1>3, <1>4, <1>5, <1>6 DEF Guide

(* A cut with other beats, and one with another caption.                   *)
LEMMA CutWith ==
  ASSUME NEW c \in OneCut, NEW beats \in Seq(Beat)
  PROVE  /\ [c EXCEPT !.beats = beats] \in OneCut /\ [c EXCEPT !.beats = beats].beats = beats
         /\ [c EXCEPT !.shortCaption = TRUE] \in OneCut
         /\ [c EXCEPT !.shortCaption = TRUE].beats = c.beats
         /\ [c EXCEPT !.fewHashtags = TRUE] \in OneCut
         /\ [c EXCEPT !.fewHashtags = TRUE].beats = c.beats
BY DEF OneCut

(* Another voice-over, direction and length for one beat.                  *)
LEMMA Rewritten ==
  ASSUME NEW beats \in Seq(Beat), InShape(beats), NEW i \in 1..Len(beats),
         NEW t \in Takes[beats[i].type], NEW b,
         b = [beats[i] EXCEPT !.vo = t.vo, !.visual = t.visual, !.dur = t.dur]
  PROVE  /\ b \in Beat /\ b.index = i /\ b.type = Shape[i]
         /\ [beats EXCEPT ![i] = b] \in Seq(Beat)
         /\ InShape([beats EXCEPT ![i] = b])
<1>1. beats[i] \in Beat
  OBVIOUS
<1>2. t \in [vo : DOMAIN Says, visual : DOMAIN Shows, dur : Nat]
  BY <1>1, EvaluatorAssumption DEF Beat
<1>3. b \in Beat /\ b.index = i /\ b.type = Shape[i]
  BY <1>1, <1>2 DEF Beat, InShape
<1>4. [beats EXCEPT ![i] = b] \in Seq(Beat)
  BY <1>3
<1>5. InShape([beats EXCEPT ![i] = b])
  BY <1>3, <1>4 DEF InShape
<1>6. QED
  BY <1>3, <1>4, <1>5

LEMMA GuideInit == Init => GuideInv
<1> SUFFICES ASSUME NEW h \in Takes["hook"], NEW b \in Takes["body"], NEW c \in Takes["cta"],
                    cuts = <<Cut(<<h, b, b, b, c>>)>>
             PROVE  GuideInv
  BY DEF Init
<1>1. {h, b, c} \subseteq [vo : DOMAIN Says, visual : DOMAIN Shows, dur : Nat]
  BY EvaluatorAssumption
<1> DEFINE takes == <<h, b, b, b, c>>
           beats == [i \in DOMAIN Shape |->
                       [index |-> i, type |-> Shape[i], vo |-> takes[i].vo,
                        visual |-> takes[i].visual, dur |-> takes[i].dur]]
<1>2. DOMAIN Shape = 1..5 /\ \A i \in 1..5 : Shape[i] \in {"hook", "body", "cta"}
  BY DEF Shape
<1>3. \A i \in 1..5 : takes[i] \in {h, b, c}
  OBVIOUS
<1> HIDE DEF takes
<1>4. \A i \in 1..5 : beats[i] \in Beat
  BY <1>1, <1>2, <1>3 DEF Beat
<1>5. beats \in Seq(Beat) /\ Len(beats) = 5
  BY <1>2, <1>4
<1>6. InShape(beats)
  BY <1>2, <1>5 DEF InShape
<1>7. cuts = <<[beats |-> beats, shortCaption |-> FALSE, fewHashtags |-> FALSE]>>
  BY DEF Cut, takes
<1> HIDE DEF beats
<1>8. PICK cut : cut = [beats |-> beats, shortCaption |-> FALSE, fewHashtags |-> FALSE]
  OBVIOUS
<1>9. cut \in OneCut /\ cut.beats = beats
  BY <1>5, <1>8 DEF OneCut
<1>10. QED
  BY <1>6, <1>7, <1>8, <1>9, OneIsGuide DEF GuideInv

LEMMA GuideStep == GuideInv /\ [Next]_cuts => GuideInv'
<1> SUFFICES ASSUME GuideInv, [Next]_cuts PROVE Guide(cuts')
  BY DEF GuideInv
<1>1. /\ cuts[1] \in OneCut /\ InShape(cuts[1].beats) /\ cuts[1].beats \in Seq(Beat)
      /\ Len(cuts) = 1 => cuts = <<cuts[1]>>
      /\ Len(cuts) = 2 => /\ cuts = <<cuts[1], cuts[2]>>
                          /\ cuts[2] \in OneCut /\ InShape(cuts[2].beats)
                          /\ SameStubs(cuts[1].beats, cuts[2].beats)
  BY GuideIs DEF GuideInv
<1>2. ASSUME NEW beats \in Seq(Beat), InShape(beats), Len(cuts) = 1,
             cuts' = [cuts EXCEPT ![1] = [@ EXCEPT !.beats = beats]]
      PROVE  Guide(cuts')
  <2>1. PICK c : c = [cuts[1] EXCEPT !.beats = beats]
    OBVIOUS
  <2>2. cuts' = <<c>>
    <3>1. cuts' = [<<cuts[1]>> EXCEPT ![1] = c]
      BY <1>1, <1>2, <2>1
    <3>2. QED
      BY <3>1
  <2>3. QED
    BY <1>1, <1>2, <2>1, <2>2, CutWith, OneIsGuide
<1>3. CASE Rewrite
  <2>1. PICK i \in DOMAIN cuts[1].beats : \E t \in Takes[cuts[1].beats[i].type] :
          cuts' = [cuts EXCEPT ![1].beats[i] =
                     [@ EXCEPT !.vo = t.vo, !.visual = t.visual, !.dur = t.dur]]
    BY <1>3 DEF Rewrite
  <2>2. PICK t \in Takes[cuts[1].beats[i].type] :
          cuts' = [cuts EXCEPT ![1].beats[i] =
                     [@ EXCEPT !.vo = t.vo, !.visual = t.visual, !.dur = t.dur]]
    BY <2>1
  <2>3. PICK b : b = [cuts[1].beats[i] EXCEPT !.vo = t.vo, !.visual = t.visual, !.dur = t.dur]
    OBVIOUS
  <2>4. PICK beats : beats = [cuts[1].beats EXCEPT ![i] = b]
    OBVIOUS
  <2>5. beats \in Seq(Beat) /\ InShape(beats)
    <3>1. i \in 1..Len(cuts[1].beats)
      BY <1>1
    <3>2. PICK bs \in Seq(Beat) : bs = cuts[1].beats
      BY <1>1
    <3>3. t \in Takes[bs[i].type] /\ i \in 1..Len(bs) /\ InShape(bs)
      BY <1>1, <3>1, <3>2
    <3>4. b = [bs[i] EXCEPT !.vo = t.vo, !.visual = t.visual, !.dur = t.dur]
      BY <2>3, <3>2
    <3>5. [bs EXCEPT ![i] = b] \in Seq(Beat) /\ InShape([bs EXCEPT ![i] = b])
      BY <3>3, <3>4, Rewritten
    <3>6. QED
      BY <2>4, <3>2, <3>5
  <2>6. Len(cuts) = 1 /\ cuts' = [cuts EXCEPT ![1] = [@ EXCEPT !.beats = beats]]
    BY <1>3, <2>2, <2>3, <2>4 DEF Rewrite
  <2>7. QED
    BY <1>2, <2>5, <2>6
<1>4. CASE DropCta
  <2>1. PICK beats : beats = Front(cuts[1].beats)
    OBVIOUS
  <2>2. Len(cuts[1].beats) = 5
    BY <1>1, <1>4 DEF DropCta, OfType, InShape, Shape
  <2>3. beats \in Seq(Beat) /\ InShape(beats)
    <3>1. PICK bs \in Seq(Beat) : bs = cuts[1].beats
      BY <1>1
    <3>2. beats = SubSeq(bs, 1, 4) /\ Len(bs) = 5
      BY <2>1, <2>2, <3>1 DEF Front
    <3>3. beats \in Seq(Beat) /\ Len(beats) = 4 /\ \A i \in 1..4 : beats[i] = bs[i]
      BY <3>2, Prefix
    <3>4. InShape(bs)
      BY <1>1, <3>1
    <3>5. QED
      BY <3>2, <3>3, <3>4 DEF InShape
  <2>4. Len(cuts) = 1 /\ cuts' = [cuts EXCEPT ![1] = [@ EXCEPT !.beats = beats]]
    BY <1>4, <2>1 DEF DropCta
  <2>5. QED
    BY <1>2, <2>3, <2>4
<1>5. CASE Recaption
  <2>1. PICK c : cuts' = [cuts EXCEPT ![2] = c] /\ c \in OneCut /\ c.beats = cuts[2].beats
    <3>1. CASE cuts' = [cuts EXCEPT ![2].shortCaption = TRUE]
      <4>1. cuts' = [cuts EXCEPT ![2] = [cuts[2] EXCEPT !.shortCaption = TRUE]]
        BY <3>1
      <4>2. QED
        BY <1>1, <1>5, <4>1, CutWith DEF Recaption
    <3>2. CASE cuts' = [cuts EXCEPT ![2].fewHashtags = TRUE]
      <4>1. cuts' = [cuts EXCEPT ![2] = [cuts[2] EXCEPT !.fewHashtags = TRUE]]
        BY <3>2
      <4>2. QED
        BY <1>1, <1>5, <4>1, CutWith DEF Recaption
    <3>3. QED
      BY <1>5, <3>1, <3>2 DEF Recaption
  <2>2. cuts' = <<cuts[1], c>>
    <3>1. cuts' = [<<cuts[1], cuts[2]>> EXCEPT ![2] = c]
      BY <1>1, <1>5, <2>1 DEF Recaption
    <3>2. QED
      BY <3>1
  <2>3. QED
    BY <1>1, <1>5, <2>1, <2>2, TwoAreGuide DEF Recaption
<1>6. CASE SecondCut
  <2>1. PICK bs \in Seq(Beat) : bs = cuts[1].beats /\ InShape(bs)
    BY <1>1
  <2>2. 1 \in 1..Len(bs) /\ bs[1] \in Beat
    BY <2>1 DEF InShape
  <2>3. PICK b : b = [bs[1] EXCEPT !.dur = bs[1].dur + 4]
    OBVIOUS
  <2>4. b \in Beat /\ b.index = bs[1].index /\ b.type = bs[1].type /\ Alike(bs[1], b)
    BY <2>2, <2>3 DEF Beat, Alike
  <2>5. PICK beats : beats = [bs EXCEPT ![1] = b]
    OBVIOUS
  <2>6. beats \in Seq(Beat) /\ InShape(beats) /\ SameStubs(bs, beats)
    <3>1. beats \in Seq(Beat) /\ Len(beats) = Len(bs)
      BY <2>2, <2>4, <2>5
    <3>2. \A i \in 1..Len(bs) : beats[i] = IF i = 1 THEN b ELSE bs[i]
      BY <2>2, <2>5
    <3>3. InShape(beats)
      BY <2>1, <2>4, <3>1, <3>2 DEF InShape
    <3>4. SameStubs(bs, beats)
      BY <2>4, <3>1, <3>2 DEF SameStubs, Alike
    <3>5. QED
      BY <3>1, <3>3, <3>4
  <2>7. PICK d : d = [cuts[1] EXCEPT !.beats = beats]
    OBVIOUS
  <2>8. cuts' = <<cuts[1], d>>
    <3>1. [cuts[1] EXCEPT !.beats[1].dur = @ + 4] = d
      BY <2>1, <2>3, <2>5, <2>7
    <3>2. cuts' = Append(cuts, d)
      BY <1>6, <3>1 DEF SecondCut
    <3>3. ASSUME NEW c \in OneCut, NEW e \in OneCut PROVE Append(<<c>>, e) = <<c, e>>
      <4>0. <<c>> \in Seq(OneCut)
        OBVIOUS
      <4>1. PICK s \in Seq(OneCut) : s = <<c>>
        BY <4>0
      <4>2. PICK t : t = Append(s, e)
        OBVIOUS
      <4>3. Len(s) = 1 /\ s[1] = c
        BY <4>1
      <4>4. t \in Seq(OneCut) /\ Len(t) = 2 /\ t[1] = c /\ t[2] = e
        <5>1. t \in Seq(OneCut) /\ Len(t) = Len(s) + 1
          BY <4>2
        <5>2. t[1] = s[1]
          BY <4>2, <4>3
        <5>3. t[Len(s) + 1] = e
          BY <4>2
        <5>4. QED
          BY <4>3, <5>1, <5>2, <5>3
      <4>5. t = <<t[1], t[2]>>
        BY <4>4
      <4>6. QED
        BY <4>1, <4>2, <4>4, <4>5
    <3>4. d \in OneCut
      BY <1>1, <2>6, <2>7, CutWith
    <3>5. PICK c \in OneCut : c = cuts[1]
      BY <1>1
    <3>6. cuts = <<c>>
      BY <1>1, <1>6, <3>5 DEF SecondCut
    <3>7. QED
      BY <3>2, <3>3, <3>4, <3>5, <3>6, Zenon
  <2>9. d \in OneCut /\ d.beats = beats
    BY <1>1, <2>6, <2>7, CutWith
  <2>10. QED
    BY <1>1, <2>1, <2>6, <2>8, <2>9, TwoAreGuide
<1>7. CASE UNCHANGED cuts
  BY <1>7 DEF GuideInv
<1>8. QED
  BY <1>3, <1>4, <1>5, <1>6, <1>7 DEF Next

LEMMA GuideInvHolds == Spec => []GuideInv
BY GuideInit, GuideStep, PTL DEF Spec

-----------------------------------------------------------------------------
(* The beats that are scored are those of the first cut.                   *)
LEMMA FilmedIs ==
  ASSUME NEW cs, Guide(cs)
  PROVE  /\ Filmed(cs) \in Seq(Beat)
         /\ Len(cs) = 1 => Filmed(cs) = cs[1].beats
         /\ Len(cs) = 2 => Filmed(cs) = cs[1].beats \o cs[2].beats
<1>1. PICK b : b = [c \in DOMAIN cs |-> cs[c].beats]
  OBVIOUS
<1>2. Filmed(cs) = FlattenSeq(b)
  BY <1>1 DEF Filmed
<1>3. cs \in Seq(OneCut) /\ Len(cs) \in {1, 2}
  BY DEF Guide
<1>4. b \in Seq(Seq(Beat)) /\ Len(b) = Len(cs)
  <2>1. \A c \in DOMAIN cs : cs[c] \in OneCut
    BY <1>3
  <2>2. \A c \in DOMAIN cs : cs[c].beats \in Seq(Beat)
    BY <2>1 DEF OneCut
  <2>3. QED
    BY <1>1, <1>3, <2>2
<1>5. CASE Len(cs) = 1
  <2>1. b = <<b[1]>> /\ b[1] = cs[1].beats /\ b[1] \in Seq(Beat)
    BY <1>1, <1>3, <1>4, <1>5
  <2>2. QED
    BY <1>2, <1>5, <2>1, FlattenOne
<1>6. CASE Len(cs) = 2
  <2>1. b = <<b[1], b[2]>> /\ b[1] = cs[1].beats /\ b[2] = cs[2].beats
    BY <1>1, <1>3, <1>4, <1>6
  <2>2. b[1] \in Seq(Beat) /\ b[2] \in Seq(Beat)
    BY <1>4, <1>6
  <2>3. PICK s \in Seq(Beat), t \in Seq(Beat) : s = b[1] /\ t = b[2]
    BY <2>2
  <2>4. FlattenSeq(<<s, t>>) = s \o t /\ s \o t \in Seq(Beat)
    <3>1. FlattenSeq(<<s, t>>) = s \o t
      BY FlattenTwo, Zenon
    <3>2. s \o t \in Seq(Beat)
      BY Joined
    <3>3. QED
      BY <3>1, <3>2
  <2>5. b = <<s, t>>
    BY <2>1, <2>3
  <2>6. Filmed(cs) = s \o t /\ s = cs[1].beats /\ t = cs[2].beats
    BY <1>2, <2>1, <2>3, <2>4, <2>5
  <2>7. Filmed(cs) \in Seq(Beat) /\ Filmed(cs) = cs[1].beats \o cs[2].beats
    BY <2>4, <2>6, Zenon
  <2>8. QED
    BY <1>6, <2>7
<1>7. QED
  BY <1>3, <1>5, <1>6

LEMMA AllBeatsAre ==
  ASSUME NEW cs, Guide(cs)
  PROVE  AllBeats(cs) = cs[1].beats
<1>1. PICK s \in Seq(Beat) : s = cs[1].beats /\ InShape(s)
  BY GuideIs
<1>2. PICK n \in Nat : n = Len(s)
  OBVIOUS
<1>3. PICK f \in Seq(Beat) : f = Filmed(cs)
  BY FilmedIs
<1>4. SubSeq(s, 1, n) = s
  BY <1>2
<1>5. /\ n \in 0..Len(f) /\ SubSeq(f, 1, n) = s
      /\ \A i \in 1..n : f[i] = s[i]
      /\ \A i \in (n + 1)..Len(f) : Alike(f[i - n], f[i]) /\ i - n \in 1..n
  <2>1. CASE Len(cs) = 1
    <3>1. f = s
      BY <1>1, <1>3, <2>1, FilmedIs
    <3>2. QED
      BY <1>2, <1>4, <3>1
  <2>2. CASE Len(cs) = 2
    <3>1. PICK t \in Seq(Beat) : t = cs[2].beats /\ SameStubs(s, t)
      BY <1>1, <2>2, GuideIs
    <3>2. f = s \o t
      <4>1. f = cs[1].beats \o cs[2].beats
        BY <1>3, <2>2, FilmedIs, Zenon
      <4>2. QED
        BY <1>1, <3>1, <4>1, Zenon
    <3>3. Len(t) = n /\ \A i \in 1..n : Alike(s[i], t[i])
      BY <1>2, <3>1 DEF SameStubs
    <3>4. /\ Len(f) = n + n /\ SubSeq(f, 1, n) = s
          /\ \A i \in 1..n : f[i] = s[i]
          /\ \A i \in (n + 1)..(n + n) : f[i] = t[i - n]
      <4>1. /\ Len(f) = Len(s) + Len(t) /\ SubSeq(f, 1, Len(s)) = s
            /\ \A i \in 1..Len(s) : f[i] = s[i]
            /\ \A i \in (Len(s) + 1)..(Len(s) + Len(t)) : f[i] = t[i - Len(s)]
        BY <3>2, Joined, Zenon
      <4>2. QED
        BY <1>2, <3>3, <4>1
    <3>5. \A i \in (n + 1)..(n + n) : i - n \in 1..n
      OBVIOUS
    <3>6. \A i \in (n + 1)..(n + n) : Alike(f[i - n], f[i])
      BY <3>3, <3>4, <3>5
    <3>7. QED
      BY <3>4, <3>5, <3>6
  <2>3. QED
    BY <2>1, <2>2 DEF Guide
<1>6. \A i, k \in 1..n : f[i].index = f[k].index => i = k
  BY <1>1, <1>2, <1>5 DEF InShape
<1>7. Distinct(f) = SubSeq(f, 1, n)
  BY <1>5, <1>6, DistinctIs
<1>8. QED
  BY <1>1, <1>3, <1>5, <1>7 DEF AllBeats

-----------------------------------------------------------------------------
(* The points of every axis: integers, and no more than its weight.        *)

(* Some positions of a sequence are finitely many.                         *)
LEMMA CountType ==
  ASSUME NEW T, NEW s \in Seq(T), NEW S, S \subseteq DOMAIN s
  PROVE  IsFiniteSet(S) /\ Cardinality(S) \in Nat
<1>1. DOMAIN s = 1..Len(s) /\ Len(s) \in Int
  OBVIOUS
<1>2. IsFiniteSet(DOMAIN s)
  BY <1>1, FS_Interval
<1>3. QED
  BY <1>2, FS_Subset, FS_CardinalityType

(* The values of a function over finitely many arguments, and their union. *)
LEMMA ImageType ==
  ASSUME NEW f, IsFiniteSet(DOMAIN f)
  PROVE  /\ IsFiniteSet({f[x] : x \in DOMAIN f}) /\ Cardinality({f[x] : x \in DOMAIN f}) \in Nat
         /\ (\A x \in DOMAIN f : IsFiniteSet(f[x])) =>
              /\ IsFiniteSet(UNION {f[x] : x \in DOMAIN f})
              /\ Cardinality(UNION {f[x] : x \in DOMAIN f}) \in Nat
<1>1. PICK S : S = {f[x] : x \in DOMAIN f}
  OBVIOUS
<1>2. PICK g : g = [x \in DOMAIN f |-> f[x]]
  OBVIOUS
<1>3. g \in Surjection(DOMAIN f, S)
  BY <1>1, <1>2 DEF Surjection
<1>4. IsFiniteSet(S)
  BY <1>3, FS_Surjection
<1>5. ASSUME \A x \in DOMAIN f : IsFiniteSet(f[x]) PROVE IsFiniteSet(UNION S)
  BY <1>1, <1>4, <1>5, FS_UNION
<1>6. QED
  BY <1>1, <1>4, <1>5, FS_CardinalityType

(* What is known of a beat's line and direction.                           *)
LEMMA BeatType ==
  ASSUME NEW b \in Beat
  PROVE  /\ Vo(b).words \in Nat /\ Vo(b).sents \in Seq(Nat) /\ Vo(b).article \in Nat
         /\ IsFiniteSet(Vo(b).names) /\ IsFiniteSet(Vo(b).tactical) /\ IsFiniteSet(Vo(b).pos)
         /\ IsFiniteSet(Vo(b).neg) /\ IsFiniteSet(Vo(b).keys)
         /\ Vis(b).words \in Nat /\ IsFiniteSet(Vis(b).names)
         /\ b.dur \in Nat
<1>1. b.vo \in DOMAIN Says /\ b.visual \in DOMAIN Shows /\ b.dur \in Nat
  BY DEF Beat
<1>2. \A f \in WordFields : IsFiniteSet(Says[b.vo][f])
  BY <1>1, EvaluatorAssumption
<1>3. QED
  BY <1>1, <1>2, EvaluatorAssumption DEF Vo, Vis, WordFields

(* The voice-over that is judged as the hook is that of a beat.            *)
LEMMA FirstIs ==
  ASSUME NEW bs \in Seq(Beat), Len(bs) > 0
  PROVE  /\ \E i \in DOMAIN bs : FirstVo(bs) = Vo(bs[i])
         /\ Opener(bs) \in Nat
<1>1. PICK hooks : hooks = OfType(bs, "hook")
  OBVIOUS
<1>2. hooks \subseteq DOMAIN bs /\ hooks \subseteq Nat
  BY <1>1 DEF OfType
<1>3. hooks # {} => Min(hooks) \in hooks
  BY <1>2, Least DEF Min
<1>4. 1 \in DOMAIN bs
  OBVIOUS
<1>5. \E i \in DOMAIN bs : FirstVo(bs) = Vo(bs[i])
  BY <1>1, <1>2, <1>3, <1>4 DEF FirstVo
<1>6. PICK i \in DOMAIN bs : FirstVo(bs) = Vo(bs[i])
  BY <1>5
<1>7. FirstVo(bs).sents \in Seq(Nat)
  BY <1>6, BeatType
<1>8. Opener(bs) \in Nat
  BY <1>7 DEF Opener
<1>9. QED
  BY <1>5, <1>8


LEMMA RetentionType ==
  ASSUME NEW bs \in Seq(Beat), Len(bs) > 0
  PROVE  Retention(bs) \in Int /\ Retention(bs) <= 20
<1>1. HookPoints(bs) \in Nat
  <2>1. PICK o \in Nat : o = Opener(bs)
    BY FirstIs
  <2>2. PICK n \in Nat : n = Points(o <= 12, 3) + Points(o \in 13..16, 1)
                              + Points(FirstVo(bs).question, 3) + Points(FirstVo(bs).trigger, 2)
                              + Points(FirstVo(bs).stakes, 2) + Points(FirstVo(bs).you, 1)
    BY DEF Points
  <2>3. HookPoints(bs) = Min({10, n})
    BY <2>1, <2>2 DEF HookPoints
  <2>4. QED
    BY <2>3, MinType
<1>2. LoopPoints(bs) \in Nat
  BY DEF LoopPoints, Points
<1>3. MomentumPoints(bs) \in Nat
  <2>1. PICK S : S = {i \in DOMAIN bs : Spoken(bs[i])}
    OBVIOUS
  <2>2. PICK f : f = [i \in S |-> Energy(Vo(bs[i]))]
    OBVIOUS
  <2>3. IsFiniteSet(S)
    BY <2>1, CountType
  <2>4. Cardinality({f[i] : i \in DOMAIN f}) \in Nat
    BY <2>2, <2>3, ImageType
  <2>5. {f[i] : i \in DOMAIN f} = {Energy(Vo(bs[i])) : i \in S}
    BY <2>2
  <2>6. PICK c \in Nat : c = Cardinality({Energy(Vo(bs[i])) : i \in S})
    BY <2>4, <2>5
  <2>7. PICK p \in Int :
          p = IF \E i \in DOMAIN bs : Spoken(bs[i]) /\ Vo(bs[i]).words <= 10 THEN 1 ELSE 0
    OBVIOUS
  <2>8. PICK q \in Int : q = IF \E i \in DOMAIN bs : Vo(bs[i]).words >= 25 THEN 1 ELSE 0
    OBVIOUS
  <2>9. MomentumPoints(bs) = Max({0, Min({5, c - 1 + p + q})})
    BY <2>1, <2>6, <2>7, <2>8 DEF MomentumPoints, Some, Points
  <2>10. PICK m \in Int : m = Min({5, c - 1 + p + q})
    BY MinType
  <2>11. MomentumPoints(bs) = Max({0, m})
    BY <2>9, <2>10
  <2>12. Max({0, m}) \in Nat
    BY MaxType
  <2>13. QED
    BY <2>11, <2>12
<1>4. QED
  BY <1>1, <1>2, <1>3 DEF Retention

LEMMA ContextType ==
  ASSUME NEW bs \in Seq(Beat)
  PROVE  ContextCoverage(bs) \in Int /\ ContextCoverage(bs) <= 10
<1>1. PICK n \in Nat : n = Len(Source)
  BY EvaluatorAssumption
<1>2. PICK said : said = Union(bs, LAMBDA b : Vo(b).keys)
  OBVIOUS
<1>3. PICK m \in Nat :
        m = Count(Source, LAMBDA kw : 10 * Cardinality(kw \intersect said) >= 3 * Cardinality(kw))
  BY CountType, EvaluatorAssumption DEF Count
<1>4. ContextCoverage(bs) = IF 2 * m < n THEN Min({10, (20 * (n - 2 * m)) \div n}) ELSE 0
  BY <1>1, <1>2, <1>3 DEF ContextCoverage
<1>5. CASE 2 * m < n
  <2>1. PICK k \in Int : k = (20 * (n - 2 * m)) \div n
    BY <1>5
  <2>2. Min({10, k}) \in Int /\ Min({10, k}) <= 10
    BY MinType
  <2>3. QED
    BY <1>4, <1>5, <2>1, <2>2
<1>6. QED
  BY <1>4, <1>5

(* The words of one kind that a script says.                               *)
Words(bs, f) == UNION {Vo(bs[i])[f] : i \in DOMAIN bs}

LEMMA WordsType ==
  ASSUME NEW bs \in Seq(Beat), NEW f \in WordFields
  PROVE  IsFiniteSet(Words(bs, f)) /\ Cardinality(Words(bs, f)) \in Nat
<1>1. PICK g : g = [i \in DOMAIN bs |-> Vo(bs[i])[f]]
  OBVIOUS
<1>2. IsFiniteSet(DOMAIN g)
  BY <1>1, CountType
<1>3. \A i \in DOMAIN g : IsFiniteSet(g[i])
  BY <1>1, BeatType DEF WordFields
<1>4. {g[i] : i \in DOMAIN g} = {Vo(bs[i])[f] : i \in DOMAIN bs}
  BY <1>1
<1>5. QED
  BY <1>2, <1>3, <1>4, ImageType DEF Words

LEMMA WordsAre ==
  ASSUME NEW bs \in Seq(Beat)
  PROVE  /\ TacticalTerms(bs) = Words(bs, "tactical")
         /\ Union(bs, LAMBDA b : Vo(b).pos) = Words(bs, "pos")
         /\ Union(bs, LAMBDA b : Vo(b).neg) = Words(bs, "neg")
         /\ EmotionWords(bs) = Words(bs, "pos") \cup Words(bs, "neg")
BY DEF TacticalTerms, EmotionWords, Union, Words

(* The beats with a figure, a cause in the body, or a comparison.          *)
Stats(bs)  == {i \in DOMAIN bs : Vo(bs[i]).stat}
Causes(bs) == {i \in DOMAIN bs : Body(bs[i]) /\ Vo(bs[i]).causal}
Likens(bs) == {i \in DOMAIN bs : Vo(bs[i]).compare}

(* The points of an insight, up to fifteen.                                *)
Earned(s, k, h, l) ==
  Min({5, 2 * s}) + Min({4, k}) + (IF h > 0 THEN Min({4, h}) ELSE 2) + Min({2, l})

LEMMA InsightType ==
  ASSUME NEW bs \in Seq(Beat)
  PROVE  /\ Cardinality(Stats(bs)) \in Nat /\ Cardinality(Causes(bs)) \in Nat
         /\ Cardinality(Likens(bs)) \in Nat /\ Cardinality(Words(bs, "tactical")) \in Nat
         /\ Insight(bs) = Max({0, 15 - Earned(Cardinality(Stats(bs)), Cardinality(Causes(bs)),
                                              Cardinality(Words(bs, "tactical")),
                                              Cardinality(Likens(bs)))})
         /\ Insight(bs) \in Int /\ Insight(bs) <= 15
<1>1. PICK s \in Nat : s = Cardinality(Stats(bs))
  BY CountType DEF Stats
<1>2. PICK k \in Nat : k = Cardinality(Causes(bs))
  BY CountType DEF Causes
<1>3. PICK h \in Nat : h = Cardinality(Words(bs, "tactical"))
  BY WordsType DEF WordFields
<1>4. PICK l \in Nat : l = Cardinality(Likens(bs))
  BY CountType DEF Likens
<1>5. /\ Min({5, 2 * s}) \in Nat /\ Min({4, k}) \in Nat /\ Min({2, l}) \in Nat
      /\ (IF h > 0 THEN Min({4, h}) ELSE 2) \in Nat
  BY MinType
<1>6. Insight(bs) = Max({0, 15 - Min({5, 2 * s}) - Min({4, k})
                               - (IF h > 0 THEN Min({4, h}) ELSE 2) - Min({2, l})})
  BY <1>1, <1>2, <1>3, <1>4, WordsAre DEF Insight, InsightWith, Count, Stats, Causes, Likens
<1>7. PICK n \in Int : n = 15 - Earned(s, k, h, l) /\ n <= 15
  BY <1>5 DEF Earned
<1>8. n = 15 - Min({5, 2 * s}) - Min({4, k}) - (IF h > 0 THEN Min({4, h}) ELSE 2) - Min({2, l})
  BY <1>5, <1>7 DEF Earned
<1>9. Insight(bs) = Max({0, n})
  BY <1>6, <1>8
<1>10. Max({0, n}) \in Int /\ Max({0, n}) <= 15
  BY <1>7, MaxType
<1>11. QED
  BY <1>1, <1>2, <1>3, <1>4, <1>7, <1>9, <1>10

(* Which of the stages of a story are told.                                *)
Stages == {"hook", "context", "analysis", "conflict", "conclusion"}

Told(bs) ==
  [hook       |-> OfType(bs, "hook") # {},
   context    |-> \E i \in DOMAIN bs :
                    Body(bs[i]) /\ (Vo(bs[i]).names # {} \/ Vo(bs[i]).context),
   analysis   |-> \E i \in DOMAIN bs : Body(bs[i]) /\ Vo(bs[i]).analysis,
   conflict   |-> \E i \in DOMAIN bs : Body(bs[i]) /\ Vo(bs[i]).conflict,
   conclusion |-> \/ OfType(bs, "cta") # {}
                  \/ \E i \in DOMAIN bs : i >= Len(bs) - 1 /\ Vo(bs[i]).conclusion]

LEMMA NarrativeType ==
  ASSUME NEW bs \in Seq(Beat)
  PROVE  /\ Cardinality({stage \in Stages : ~Told(bs)[stage]}) \in Nat
         /\ IsFiniteSet({stage \in Stages : ~Told(bs)[stage]})
         /\ Narrative(bs) = Min({15, 3 * Cardinality({stage \in Stages : ~Told(bs)[stage]})})
         /\ Narrative(bs) \in Int /\ Narrative(bs) <= 15
<1>1. PICK missing : missing = {stage \in Stages : ~Told(bs)[stage]}
  OBVIOUS
<1>2. IsFiniteSet(Stages)
  <2>1. \A S, x : IsFiniteSet(S) => IsFiniteSet(S \cup {x})
    BY FS_AddElement
  <2>2. IsFiniteSet({"hook"})
    BY FS_Singleton
  <2>3. IsFiniteSet((({"hook"} \cup {"context"}) \cup {"analysis"}) \cup {"conflict"})
    BY <2>1, <2>2
  <2>4. PICK S : S = (({"hook"} \cup {"context"}) \cup {"analysis"}) \cup {"conflict"}
    OBVIOUS
  <2>5. IsFiniteSet(S \cup {"conclusion"})
    BY <2>1, <2>3, <2>4
  <2>6. Stages = S \cup {"conclusion"}
    BY <2>4 DEF Stages
  <2>7. QED
    BY <2>5, <2>6
<1>3. PICK n \in Nat : n = Cardinality(missing) /\ IsFiniteSet(missing)
  BY <1>1, <1>2, FS_Subset, FS_CardinalityType
<1>4. Narrative(bs) = Min({15, 3 * n})
  <2>1. DOMAIN Told(bs) = Stages
    BY DEF Told, Stages
  <2>2. Narrative(bs) = Min({15, 3 * Cardinality({stage \in DOMAIN Told(bs) : ~Told(bs)[stage]})})
    BY Zenon DEF Narrative, Told, Some
  <2>3. QED
    BY <1>1, <1>3, <2>1, <2>2
<1>5. Min({15, 3 * n}) \in Int /\ Min({15, 3 * n}) <= 15
  BY MinType
<1>6. QED
  BY <1>1, <1>3, <1>4, <1>5

LEMMA CtaType ==
  ASSUME NEW bs \in Seq(Beat)
  PROVE  Cta(bs) \in Int /\ Cta(bs) <= 3
BY DEF Cta

LEMMA VarietyType ==
  ASSUME NEW bs \in Seq(Beat)
  PROVE  Variety(bs) \in Int /\ Variety(bs) <= 5
BY DEF Variety, Points

LEMMA ThroughlineType ==
  ASSUME NEW bs \in Seq(Beat)
  PROVE  Throughline(bs) \in Int /\ Throughline(bs) <= 5
BY DEF Throughline

(* The beats with an emotion word, and whether they are too few.           *)
Moved(bs) == {i \in DOMAIN bs : Vo(bs[i]).pos \cup Vo(bs[i]).neg # {}}

Clustered(hits, spread, n) == hits >= 4 /\ n >= 3 /\ spread < Max({2, (4 * n) \div 10})

LEMMA EmotionType ==
  ASSUME NEW bs \in Seq(Beat), NEW pos, pos = Words(bs, "pos"), NEW neg, neg = Words(bs, "neg"),
         NEW hits, hits = Cardinality(pos) + Cardinality(neg)
  PROVE  /\ Cardinality(pos) \in Nat /\ Cardinality(neg) \in Nat /\ hits \in Nat
         /\ Cardinality(Moved(bs)) \in Nat
         /\ Emotion(bs) = (IF hits < 2      THEN Min({10, 4 * (3 - hits)})
                           ELSE IF hits < 4 THEN 4
                           ELSE IF pos = {} \/ neg = {} THEN 2 ELSE 0)
                          + (IF Clustered(hits, Cardinality(Moved(bs)), Len(bs)) THEN 3 ELSE 0)
         /\ Emotion(bs) \in Int /\ Emotion(bs) <= 13
<1>1. Cardinality(pos) \in Nat /\ Cardinality(neg) \in Nat /\ hits \in Nat
  BY WordsType DEF WordFields
<1>2. Cardinality(Moved(bs)) \in Nat
  BY CountType DEF Moved
<1>3. PICK m \in Int : m = Min({10, 4 * (3 - hits)}) /\ m <= 10
  <2>1. PICK k \in Int : k = 4 * (3 - hits)
    BY <1>1
  <2>2. Min({10, k}) \in Int /\ Min({10, k}) <= 10
    BY MinType
  <2>3. QED
    BY <2>1, <2>2
<1>4. Emotion(bs) = (IF hits < 2      THEN m
                     ELSE IF hits < 4 THEN 4
                     ELSE IF pos = {} \/ neg = {} THEN 2 ELSE 0)
                    + (IF Clustered(hits, Cardinality(Moved(bs)), Len(bs)) THEN 3 ELSE 0)
  <2> DEFINE P == Union(bs, LAMBDA b : Vo(b).pos)
             N == Union(bs, LAMBDA b : Vo(b).neg)
             H == Cardinality(P) + Cardinality(N)
             S == Count(bs, LAMBDA b : Vo(b).pos \union Vo(b).neg # {})
  <2>1. Emotion(bs) = (IF H < 2 THEN Min({10, 4 * (3 - H)})
                       ELSE IF H < 4 THEN 4
                       ELSE Points(P = {} \/ N = {}, 2))
                      + Points(H >= 4 /\ Len(bs) >= 3 /\ S < Max({2, (4 * Len(bs)) \div 10}), 3)
    BY Zenon DEF Emotion
  <2>2. P = pos /\ N = neg
    BY WordsAre
  <2>3. S = Cardinality(Moved(bs))
    BY DEF Count, Moved
  <2> HIDE DEF P, N, S
  <2>4. H = hits
    BY <2>2
  <2>5. QED
    BY <1>3, <2>1, <2>2, <2>3, <2>4 DEF Clustered, Points
<1>5. Emotion(bs) \in Int /\ Emotion(bs) <= 13
  BY <1>1, <1>3, <1>4
<1>6. QED
  BY <1>1, <1>2, <1>3, <1>4, <1>5

LEMMA ClipType ==
  ASSUME NEW bs \in Seq(Beat), Len(bs) > 0
  PROVE  ClipAvailability(bs) \in Int /\ ClipAvailability(bs) <= 10
<1>1. PICK pts \in Int : pts = Total(bs, LAMBDA b : Sourceable(Vis(b)))
  <2>1. PICK ns : ns = [i \in DOMAIN bs |-> Sourceable(Vis(bs[i]))]
    OBVIOUS
  <2>2. \A i \in DOMAIN bs : Sourceable(Vis(bs[i])) \in Int
    BY DEF Sourceable, Points
  <2>3. ns \in Seq(Int)
    BY <2>1, <2>2
  <2>4. QED
    BY <2>1, <2>3, SumType DEF Total
<1>2. PICK most \in Nat \ {0} : most = 3 * Len(bs)
  OBVIOUS
<1>3. PICK n \in Int : n = RoundDiv(22 * (55 * most - 100 * pts), 100 * most)
  <2>1. 22 * (55 * most - 100 * pts) \in Int /\ 100 * most \in Nat \ {0}
    OBVIOUS
  <2>2. QED
    BY <2>1, RoundType
<1>4. ClipAvailability(bs) = IF 100 * pts < 55 * most THEN Min({10, n}) ELSE 0
  BY <1>1, <1>2, <1>3 DEF ClipAvailability
<1>5. Min({10, n}) \in Int /\ Min({10, n}) <= 10
  BY MinType
<1>6. QED
  BY <1>4, <1>5

LEMMA EditabilityType ==
  ASSUME NEW bs \in Seq(Beat), Len(bs) > 0
  PROVE  Editability(bs) \in Int /\ Editability(bs) <= 10
<1>1. PICK n \in Nat \ {0} : n = Len(bs)
  OBVIOUS
<1>2. PICK vague \in Nat : vague = Cardinality({i \in DOMAIN bs : Vis(bs[i]).generic \/ Vis(bs[i]).words < 4})
  BY CountType
<1>3. PICK pts \in Int : pts = Total(bs, LAMBDA b : IF Vis(b).generic THEN 0
                                 ELSE Points(Vis(b).words >= 5, 1) + Points(Vis(b).words >= 8, 1))
  <2>1. PICK ns : ns = [i \in DOMAIN bs |-> IF Vis(bs[i]).generic THEN 0
                          ELSE Points(Vis(bs[i]).words >= 5, 1) + Points(Vis(bs[i]).words >= 8, 1)]
    OBVIOUS
  <2>2. \A i \in DOMAIN bs : ns[i] \in Int
    BY <2>1 DEF Points
  <2>3. ns \in Seq(Int)
    BY <2>1, <2>2
  <2>4. QED
    BY <2>1, <2>3, SumType DEF Total
<1>4. PICK p \in Int : p = Max({0, n - pts})
  BY MaxType
<1>5. PICK q \in Int : q = RoundDiv(10 * p, n)
  BY RoundType
<1>6. PICK r \in Int : r = RoundDiv(12 * vague, n)
  BY RoundType
<1>7. PICK m \in Int : m = Max({q, r})
  BY MaxType
<1>8. Editability(bs) = IF pts < n \/ 10 * vague > 3 * n THEN Min({10, m}) ELSE 0
  BY <1>1, <1>2, <1>3, <1>4, <1>5, <1>6, <1>7 DEF Editability, Count
<1>9. Min({10, m}) \in Int /\ Min({10, m}) <= 10
  BY MinType
<1>10. QED
  BY <1>8, <1>9

LEMMA SpecificityType ==
  ASSUME NEW bs \in Seq(Beat)
  PROVE  Specificity(bs) \in Int /\ Specificity(bs) <= 5
<1>1. PICK body : body = OfType(bs, "body")
  OBVIOUS
<1>2. PICK V : V = {i \in DOMAIN bs :
                      Body(bs[i]) /\ ~(\/ Vo(bs[i]).number \/ Vo(bs[i]).causal \/ Vo(bs[i]).action
                                       \/ Vo(bs[i]).compare \/ Vo(bs[i]).conflict)}
  OBVIOUS
<1>3. V \subseteq body /\ body \subseteq DOMAIN bs
  BY <1>1, <1>2 DEF OfType, Body
<1>4. IsFiniteSet(body) /\ Cardinality(V) <= Cardinality(body)
  BY <1>3, CountType, FS_Subset
<1>5. PICK n \in Nat, vague \in Nat : n = Cardinality(body) /\ vague = Cardinality(V) /\ vague <= n
  BY <1>3, <1>4, CountType
<1>6. Specificity(bs) = IF vague > 0 /\ 10 * vague >= 4 * n THEN Min({5, RoundDiv(8 * vague, n)}) ELSE 0
  BY <1>1, <1>2, <1>5 DEF Specificity, Count
<1>7. CASE vague > 0
  <2>1. RoundDiv(8 * vague, n) \in Int
    BY <1>5, <1>7, RoundType
  <2>2. Min({5, RoundDiv(8 * vague, n)}) \in Int /\ Min({5, RoundDiv(8 * vague, n)}) <= 5
    BY <2>1, MinType
  <2>3. QED
    BY <1>6, <2>2
<1>8. QED
  BY <1>6, <1>7

LEMMA RepetitionType ==
  ASSUME NEW bs \in Seq(Beat)
  PROVE  Repetition(bs) \in Int /\ Repetition(bs) <= 5
<1>1. PICK body : body = OfType(bs, "body")
  OBVIOUS
<1>2. PICK pairs : pairs = {p \in body \X body :
                              p[1] < p[2] /\ Vo(bs[p[1]]).keys # {} /\ Vo(bs[p[2]]).keys # {}}
  OBVIOUS
<1>3. PICK alike : alike = {p \in pairs :
          2 * Cardinality(Vo(bs[p[1]]).keys \intersect Vo(bs[p[2]]).keys)
            > Min({Cardinality(Vo(bs[p[1]]).keys), Cardinality(Vo(bs[p[2]]).keys)})}
  OBVIOUS
<1>4. IsFiniteSet(body)
  BY <1>1, CountType DEF OfType
<1>5. IsFiniteSet(body \X body)
  BY <1>4, FS_Product
<1>6. pairs \subseteq body \X body /\ alike \subseteq pairs
  BY <1>2, <1>3
<1>7. IsFiniteSet(pairs)
  BY <1>5, <1>6, FS_Subset
<1>8. PICK n \in Nat : n = Cardinality(pairs)
  BY <1>7, FS_CardinalityType
<1>9. PICK m \in Nat : m = Cardinality(alike)
  BY <1>6, <1>7, FS_Subset, FS_CardinalityType
<1>10. Repetition(bs) = IF Cardinality(body) >= 3 /\ n > 0 /\ 10 * m > 4 * n
                          THEN Min({5, RoundDiv(10 * m, n)}) ELSE 0
  BY <1>1, <1>2, <1>3, <1>8, <1>9 DEF Repetition
<1>11. CASE n > 0
  <2>1. RoundDiv(10 * m, n) \in Int
    BY <1>11, RoundType
  <2>2. Min({5, RoundDiv(10 * m, n)}) \in Int /\ Min({5, RoundDiv(10 * m, n)}) <= 5
    BY <2>1, MinType
  <2>3. QED
    BY <1>10, <2>2
<1>12. QED
  BY <1>10, <1>11

LEMMA ToneType ==
  ASSUME NEW bs \in Seq(Beat)
  PROVE  Tone(bs) \in Int /\ Tone(bs) <= 10
<1>1. PICK t \in Int : t = Total(bs, LAMBDA b : Vo(b).article)
  <2>1. PICK ns : ns = [i \in DOMAIN bs |-> Vo(bs[i]).article]
    OBVIOUS
  <2>2. \A i \in DOMAIN bs : Vo(bs[i]).article \in Int
    BY BeatType
  <2>3. ns \in Seq(Int)
    BY <2>1, <2>2
  <2>4. QED
    BY <2>1, <2>3, SumType DEF Total
<1>2. PICK a \in Int : a = Min({6, 2 * t})
  BY MinType
<1>3. PICK p \in Int : p = IF ~\E i \in DOMAIN bs : Vo(bs[i]).you THEN 3 ELSE 0
  OBVIOUS
<1>4. PICK q \in Int : q = IF ~FirstVo(bs).direct /\ ~FirstVo(bs).question THEN 1 ELSE 0
  OBVIOUS
<1>5. Tone(bs) = Min({10, a + p + q})
  BY <1>1, <1>2, <1>3, <1>4 DEF Tone, Some, Points
<1>6. Min({10, a + p + q}) \in Int /\ Min({10, a + p + q}) <= 10
  BY MinType
<1>7. QED
  BY <1>5, <1>6


LEMMA AlignmentType ==
  ASSUME NEW bs \in Seq(Beat)
  PROVE  Alignment(bs) \in Int /\ Alignment(bs) <= 20
<1> DEFINE e == Count(bs, LAMBDA b : Vo(b).names # {})
           a == Count(bs, LAMBDA b : Vo(b).action)
           c == Count(bs, LAMBDA b : Vo(b).context)
           eHit == Total(bs, LAMBDA b :
                     IF Vo(b).names = {} THEN 0
                     ELSE (60 * Cardinality(Vo(b).names \intersect Vis(b).names))
                            \div Cardinality(Vo(b).names))
           aHit == Count(bs, LAMBDA b : Vo(b).action /\ Vis(b).action)
           cHit == Count(bs, LAMBDA b : Vo(b).context /\ Vis(b).context)
           d == Max({1, e}) * Max({1, a}) * Max({1, c})
           score == (IF e = 0 THEN 0 ELSE 8 * eHit * (d \div e))
                  + (IF a = 0 THEN 0 ELSE 8 * 60 * aHit * (d \div a))
                  + (IF c = 0 THEN 0 ELSE 4 * 60 * cHit * (d \div c))
           applicable == (Points(e > 0, 8) + Points(a > 0, 8) + Points(c > 0, 4)) * 60 * d
<1>1. Alignment(bs) = IF applicable = 0 THEN 0
                      ELSE RoundDiv(20 * (applicable - score), applicable)
  BY Zenon DEF Alignment
<1>2. e \in Nat /\ a \in Nat /\ c \in Nat /\ aHit \in Nat /\ cHit \in Nat
  BY CountType DEF Count
<1>3. eHit \in Nat
  <2> DEFINE Said(i) == Vo(bs[i]).names
             Share(i) == (60 * Cardinality(Said(i) \intersect Vis(bs[i]).names))
                           \div Cardinality(Said(i))
  <2>1. PICK ns : ns = [i \in DOMAIN bs |-> IF Said(i) = {} THEN 0 ELSE Share(i)]
    OBVIOUS
  <2>2. ASSUME NEW i \in DOMAIN bs, Said(i) # {} PROVE Share(i) \in Nat
    <3>1. IsFiniteSet(Said(i))
      BY BeatType
    <3>2. PICK n \in Nat \ {0} : n = Cardinality(Said(i))
      BY <2>2, <3>1, FS_CardinalityType, FS_EmptySet
    <3>3. PICK k \in Nat : k = Cardinality(Said(i) \intersect Vis(bs[i]).names)
      BY <3>1, FS_Intersection, FS_CardinalityType
    <3>4. QED
      BY <3>2, <3>3
  <2>3. ns \in Seq(Int) /\ \A i \in DOMAIN ns : ns[i] >= 0
    <3> HIDE DEF Said, Share
    <3>1. QED
      BY <2>1, <2>2
  <2>4. SumOf(ns) \in Nat
    BY <2>3, SumType
  <2>5. eHit = SumOf(ns)
    BY <2>1 DEF Total
  <2>6. QED
    BY <2>4, <2>5
<1> HIDE DEF e, a, c, eHit, aHit, cHit
<1>4. d \in Nat \ {0}
  <2>1. PICK x \in Nat \ {0}, y \in Nat \ {0}, z \in Nat \ {0} :
          x = Max({1, e}) /\ y = Max({1, a}) /\ z = Max({1, c})
    <3>1. Max({1, e}) \in Nat \ {0} /\ Max({1, a}) \in Nat \ {0} /\ Max({1, c}) \in Nat \ {0}
      BY <1>2, MaxType
    <3>2. QED
      BY <3>1
  <2>2. \A p, q \in Nat \ {0} : p * q \in Nat \ {0}
    OBVIOUS
  <2>3. QED
    BY <2>1, <2>2
<1> HIDE DEF d
<1>5. score \in Nat
  <2>1. \A n \in Nat \ {0} : d \div n \in Nat
    BY <1>4
  <2>2. \A p, q \in Nat : p * q \in Nat
    OBVIOUS
  <2>3. (IF e = 0 THEN 0 ELSE 8 * eHit * (d \div e)) \in Nat
    BY <1>2, <1>3, <2>1, <2>2
  <2>4. (IF a = 0 THEN 0 ELSE 8 * 60 * aHit * (d \div a)) \in Nat
    BY <1>2, <2>1, <2>2
  <2>5. (IF c = 0 THEN 0 ELSE 4 * 60 * cHit * (d \div c)) \in Nat
    BY <1>2, <2>1, <2>2
  <2>6. QED
    BY <2>3, <2>4, <2>5
<1>6. applicable \in Nat
  <2>1. PICK w \in Nat : w = Points(e > 0, 8) + Points(a > 0, 8) + Points(c > 0, 4)
    BY DEF Points
  <2>2. \A p \in Nat, q \in Nat : p * q \in Nat
    OBVIOUS
  <2>3. QED
    BY <1>4, <2>1, <2>2
<1> HIDE DEF score, applicable
<1>7. CASE applicable # 0
  <2>1. PICK p \in Int : p = 20 * (applicable - score) /\ p <= 20 * applicable
    BY <1>5, <1>6
  <2>2. RoundDiv(p, applicable) \in Int /\ RoundDiv(p, applicable) <= 20
    BY <1>6, <1>7, <2>1, RoundType
  <2>3. QED
    BY <1>1, <1>7, <2>1, <2>2
<1>8. QED
  BY <1>1, <1>7

LEMMA AudioType ==
  ASSUME NEW cs, Guide(cs), NEW bs \in Seq(Beat), Len(bs) > 0
  PROVE  Audio(cs, bs) \in Int /\ Audio(cs, bs) <= 10
<1>1. PICK film \in Seq(Beat) : film = Filmed(cs)
  BY FilmedIs
<1>2. PICK hooks \in Nat :
        hooks = Cardinality({i \in DOMAIN film :
                  film[i].type = "hook" /\ Vo(film[i]).words > 3 * film[i].dur})
  BY CountType
<1>3. PICK others \in Nat :
        others = Cardinality({i \in DOMAIN film :
                   \/ film[i].type # "hook" /\ Vo(film[i]).words > 4 * film[i].dur
                   \/ /\ Spoken(film[i]) /\ 10 * Vo(film[i]).words < 8 * film[i].dur
                      /\ film[i].dur >= 4})
  BY CountType
<1>4. PICK p \in Int : p = IF Monotone(bs) THEN 1 ELSE 0
  OBVIOUS
<1>5. PICK sents : sents = FlattenSeq([i \in DOMAIN bs |-> Vo(bs[i]).sents])
  OBVIOUS
<1> DEFINE tiring == \/ Total(sents, LAMBDA w : w) > 18 * Len(sents)
                     \/ 100 * Count(sents, LAMBDA w : w > 22) > 35 * Len(sents)
<1>6. PICK q \in Int : q = IF tiring THEN 1 ELSE 0
  <2> HIDE DEF tiring
  <2>1. QED
    OBVIOUS
<1>7. PICK r \in Int : r = IF FirstVo(bs).sents # << >> /\ Opener(bs) > 16 THEN 1 ELSE 0
  OBVIOUS
<1>8. PICK n \in Int : n = PacingPoints(cs, bs)
  <2>1. PacingPoints(cs, bs) = 4 * hooks + 2 * (others + p + q + r)
    BY <1>1, <1>2, <1>3, <1>4, <1>5, <1>6, <1>7 DEF PacingPoints, Count, Points
  <2>2. QED
    BY <2>1
<1>9. Min({10, n}) \in Int /\ Min({10, n}) <= 10
  BY MinType
<1>10. QED
  BY <1>8, <1>9 DEF Audio

LEMMA DurationType ==
  ASSUME NEW cs, Guide(cs)
  PROVE  Duration(cs) \in Int /\ Duration(cs) <= 5 * Len(cs)
<1>1. cs \in Seq(OneCut)
  BY DEF Guide
<1> DEFINE Long(c) == Total(cs[c].beats, LAMBDA b : b.dur)
           Off(c) == IF 10 * Long(c) < 7 * Target \/ 10 * Long(c) > 13 * Target
                       THEN Min({5, RoundDiv(10 * Abs(Target - Long(c)), Target)}) ELSE 0
<1>2. ASSUME NEW c \in DOMAIN cs PROVE Off(c) \in Int /\ Off(c) <= 5
  <2>1. PICK bs \in Seq(Beat) : bs = cs[c].beats
    <3>1. cs[c] \in OneCut
      BY <1>1
    <3>2. QED
      BY <3>1 DEF OneCut
  <2>2. PICK long \in Int : long = Long(c)
    <3>1. PICK ns : ns = [i \in DOMAIN bs |-> bs[i].dur]
      OBVIOUS
    <3>2. ns \in Seq(Int)
      <4>1. \A i \in DOMAIN bs : bs[i] \in Beat
        OBVIOUS
      <4>2. \A b \in Beat : b.dur \in Int
        BY DEF Beat
      <4>3. QED
        BY <3>1, <4>1, <4>2
    <3>3. SumOf(ns) \in Int
      BY <3>2, SumType
    <3>4. Long(c) = SumOf(ns)
      BY <2>1, <3>1 DEF Total
    <3>5. QED
      BY <3>3, <3>4
  <2>3. PICK n \in Int : n = 10 * Abs(Target - long)
    BY EvaluatorAssumption DEF Abs
  <2>4. PICK m \in Int : m = RoundDiv(n, Target)
    BY RoundType, EvaluatorAssumption
  <2>5. Min({5, m}) \in Int /\ Min({5, m}) <= 5
    BY MinType
  <2>6. QED
    BY <2>2, <2>3, <2>4, <2>5
<1>3. PICK ns : ns = [c \in DOMAIN cs |-> Off(c)]
  OBVIOUS
<1>4. ns \in Seq(Int) /\ Len(ns) = Len(cs) /\ \A c \in DOMAIN ns : ns[c] <= 5
  <2> HIDE DEF Off
  <2>1. QED
    BY <1>1, <1>2, <1>3
<1>5. Duration(cs) = SumOf(ns)
  BY <1>3 DEF Duration, Total
<1>6. QED
  BY <1>4, <1>5, SumType

LEMMA CaptionHashtagType ==
  ASSUME NEW cs, Guide(cs)
  PROVE  CaptionHashtag(cs) \in Int /\ CaptionHashtag(cs) <= 5 * Len(cs)
<1>1. cs \in Seq(OneCut)
  BY DEF Guide
<1>2. PICK ns : ns = [c \in DOMAIN cs |-> Points(cs[c].shortCaption, 2) + Points(cs[c].fewHashtags, 2)]
  OBVIOUS
<1>3. ns \in Seq(Int) /\ Len(ns) = Len(cs) /\ \A c \in DOMAIN ns : ns[c] <= 5
  BY <1>1, <1>2 DEF Points
<1>4. CaptionHashtag(cs) = SumOf(ns)
  BY <1>2 DEF CaptionHashtag, Total
<1>5. QED
  BY <1>3, <1>4, SumType

Axes == {"retention", "narrative", "context", "insight", "alignment", "clip", "editability",
         "emotion", "audio", "variety", "duration", "caption_hashtag", "cta", "tone",
         "throughline", "specificity", "repetition"}

(* No axis takes more points than the documentation gives it.              *)
LEMMA DeductionsType ==
  ASSUME NEW cs, Guide(cs)
  PROVE  /\ DOMAIN Deductions(cs) = Axes
         /\ \A k \in Axes : /\ Deductions(cs)[k] \in Int /\ Weight(Len(cs))[k] \in Nat
                            /\ Deductions(cs)[k] <= Weight(Len(cs))[k]
<1>1. PICK bs \in Seq(Beat) : bs = AllBeats(cs) /\ Len(bs) > 0
  <2>1. PICK s \in Seq(Beat) : s = cs[1].beats /\ InShape(s)
    BY GuideIs
  <2>2. Len(s) > 0
    BY <2>1 DEF InShape
  <2>3. s = AllBeats(cs)
    BY <2>1, AllBeatsAre
  <2>4. QED
    BY <2>2, <2>3
<1>2. PICK n \in Nat : n = Len(cs)
  BY DEF Guide
<1>3. /\ Retention(bs) \in Int /\ Retention(bs) <= 20
      /\ Narrative(bs) \in Int /\ Narrative(bs) <= 15
      /\ ContextCoverage(bs) \in Int /\ ContextCoverage(bs) <= 10
      /\ Insight(bs) \in Int /\ Insight(bs) <= 15
      /\ Alignment(bs) \in Int /\ Alignment(bs) <= 20
      /\ ClipAvailability(bs) \in Int /\ ClipAvailability(bs) <= 10
      /\ Editability(bs) \in Int /\ Editability(bs) <= 10
      /\ Emotion(bs) \in Int /\ Emotion(bs) <= 13
  BY <1>1, RetentionType, NarrativeType, ContextType, InsightType, AlignmentType, ClipType,
     EditabilityType, EmotionType
<1>4. /\ Audio(cs, bs) \in Int /\ Audio(cs, bs) <= 10
      /\ Variety(bs) \in Int /\ Variety(bs) <= 5
      /\ Duration(cs) \in Int /\ Duration(cs) <= 5 * n
      /\ CaptionHashtag(cs) \in Int /\ CaptionHashtag(cs) <= 5 * n
      /\ Cta(bs) \in Int /\ Cta(bs) <= 3
      /\ Tone(bs) \in Int /\ Tone(bs) <= 10
      /\ Throughline(bs) \in Int /\ Throughline(bs) <= 5
      /\ Specificity(bs) \in Int /\ Specificity(bs) <= 5
      /\ Repetition(bs) \in Int /\ Repetition(bs) <= 5
  BY <1>1, <1>2, AudioType, VarietyType, DurationType, CaptionHashtagType, CtaType, ToneType,
     ThroughlineType, SpecificityType, RepetitionType
<1>5. QED
  BY <1>1, <1>2, <1>3, <1>4 DEF Deductions, Axes, Weight

-----------------------------------------------------------------------------
(* What is recorded, and what the multipliers of some axes give back.      *)

(* What is recorded of an axis: its points, or none.                       *)
LEMMA TakenIs ==
  ASSUME NEW d, DOMAIN d = Axes, \A k \in Axes : d[k] \in Int
  PROVE  /\ DOMAIN Taken(d) = Axes
         /\ \A k \in Axes : /\ Taken(d)[k] \in Nat
                            /\ Taken(d)[k] = d[k] \/ (Taken(d)[k] = 0 /\ d[k] <= 0)
BY DEF Taken, Points

(* A sum over the axes is an integer, and adds up axis by axis.            *)
LEMMA SumIsInt ==
  ASSUME NEW f, DOMAIN f = Axes, \A k \in Axes : f[k] \in Int
  PROVE  Sum(f) \in Int
BY DEF Sum, Axes

LEMMA SumAdds ==
  ASSUME NEW f, NEW g, NEW h, DOMAIN f = Axes, DOMAIN g = Axes, DOMAIN h = Axes,
         \A k \in Axes : g[k] \in Int /\ h[k] \in Int /\ f[k] = g[k] + h[k]
  PROVE  Sum(f) = Sum(g) + Sum(h)
BY DEF Sum, Axes

(* The points that come back when the axes of A are muted or doubled.      *)
Back(t, A, w) == [k \in Axes |-> IF k \in A THEN t[k] * (1 - w) ELSE 0]

(* The score under a multiplier, by the points that come back.             *)
LEMMA WeighedIs ==
  ASSUME NEW d, DOMAIN d = Axes, \A k \in Axes : d[k] \in Int, NEW A, A \subseteq Axes, NEW w
  PROVE  Weighed(d, A, w) = Clamp(100 - Sum(Taken(d)) + Sum(Back(Taken(d), A, w)))
<1>1. PICK t : t = Taken(d) /\ DOMAIN t = Axes
  BY TakenIs
<1>2. PICK m : m = [k \in A |-> w]
  OBVIOUS
<1>3. [k \in DOMAIN t |-> IF k \in DOMAIN m THEN t[k] * (1 - m[k]) ELSE 0] = Back(t, A, w)
  BY <1>1, <1>2 DEF Back
<1>4. Score(d, m) = Clamp(100 - Sum(t) + Sum(Back(t, A, w)))
  BY <1>1, <1>3 DEF Score
<1>5. QED
  BY <1>1, <1>2, <1>4 DEF Weighed

(* With one axis, its points come back or are taken again.                 *)
LEMMA BackOfOne ==
  ASSUME NEW t, \A k \in Axes : t[k] \in Int, NEW a \in Axes
  PROVE  Sum(Back(t, {a}, 0)) = t[a] /\ Sum(Back(t, {a}, 2)) = -t[a]
<1>1. PICK x \in Int : x = t[a]
  OBVIOUS
<1>2. ASSUME NEW f, NEW y \in Int, \A k \in Axes : f[k] = IF k = a THEN y ELSE 0
      PROVE  Sum(f) = y
  BY <1>2 DEF Sum, Axes
<1>3. \A k \in Axes : Back(t, {a}, 0)[k] = IF k = a THEN x ELSE 0
  BY <1>1 DEF Back
<1>4. PICK y \in Int : y = -x /\ \A k \in Axes : Back(t, {a}, 2)[k] = IF k = a THEN y ELSE 0
  BY <1>1 DEF Back
<1>5. Sum(Back(t, {a}, 0)) = x
  BY <1>2, <1>3
<1>6. Sum(Back(t, {a}, 2)) = y
  BY <1>2, <1>4
<1>7. QED
  BY <1>1, <1>4, <1>5, <1>6

(* With none, nothing comes back.                                          *)
LEMMA BackOfNone ==
  ASSUME NEW t, \A k \in Axes : t[k] \in Int
  PROVE  Sum(Back(t, {}, 1)) = 0
<1>1. \A k \in Axes : Back(t, {}, 1)[k] = 0
  BY DEF Back
<1>2. QED
  BY <1>1 DEF Sum, Axes

(* The points of the axes that are not judged per cut.                     *)
Rest(t) == [k \in Axes |-> IF k \in PerCut THEN 0 ELSE t[k]]

(* Muting the axes judged per cut leaves the points of the others.         *)
LEMMA MutedSum ==
  ASSUME NEW t, DOMAIN t = Axes, \A k \in Axes : t[k] \in Int
  PROVE  /\ Sum(t) \in Int /\ Sum(Rest(t)) \in Int /\ Sum(Back(t, PerCut, 0)) \in Int
         /\ Sum(t) - Sum(Back(t, PerCut, 0)) = Sum(Rest(t))
<1>1. PICK v, b : v = Rest(t) /\ b = Back(t, PerCut, 0)
  OBVIOUS
<1>2. DOMAIN v = Axes /\ DOMAIN b = Axes
  BY <1>1 DEF Rest, Back
<1>3. ASSUME NEW k \in Axes PROVE v[k] \in Int /\ b[k] \in Int /\ t[k] = v[k] + b[k]
  <2>1. v[k] = (IF k \in PerCut THEN 0 ELSE t[k]) /\ b[k] = (IF k \in PerCut THEN t[k] * (1 - 0) ELSE 0)
    BY <1>1 DEF Rest, Back
  <2>2. QED
    BY <2>1
<1>4. Sum(t) \in Int /\ Sum(v) \in Int /\ Sum(b) \in Int
  BY <1>2, <1>3, SumIsInt
<1>5. Sum(t) = Sum(v) + Sum(b)
  BY <1>2, <1>3, SumAdds
<1>6. QED
  BY <1>1, <1>4, <1>5

(* Clamping keeps the order, and moves no two scores apart.                *)
LEMMA Clamped ==
  ASSUME NEW n \in Int, NEW x \in Nat
  PROVE  Clamp(n) \in Int /\ Clamp(n + x) \in Clamp(n)..(Clamp(n) + x)
<1>1. ASSUME NEW k \in Int PROVE Clamp(k) = IF k < 0 THEN 0 ELSE IF k > 100 THEN 100 ELSE k
  <2>1. PICK m \in Int : m = Min({100, k}) /\ m = IF 100 <= k THEN 100 ELSE k
    BY MinType
  <2>2. Max({0, m}) = IF 0 >= m THEN 0 ELSE m
    BY MaxType
  <2>3. QED
    BY <2>1, <2>2 DEF Clamp
<1>2. QED
  BY <1>1

(* However many platforms a guide has cuts for, the structured path gives  *)
(* the same deductions on every axis that looks at the script as for one,  *)
(* and the same score when the other axes are muted.                       *)
THEOREM SecondCutIsNotCounted == Spec => []SecondCutCountsOnce
<1>1. GuideInv => SecondCutCountsOnce
  <2> SUFFICES ASSUME Guide(cuts), Len(cuts) > 1
               PROVE  /\ \A k \in DOMAIN Deductions(cuts) \ PerCut :
                           Deductions(cuts)[k] = Deductions(<<cuts[1]>>)[k]
                      /\ Weighed(Deductions(cuts), PerCut, 0)
                           = Weighed(Deductions(<<cuts[1]>>), PerCut, 0)
    BY DEF GuideInv, SecondCutCountsOnce
  <2>1. PICK c \in OneCut : c = cuts[1] /\ InShape(c.beats)
    BY GuideIs
  <2>2. Guide(<<c>>) /\ <<c>>[1] = c
    BY <2>1, OneIsGuide
  <2>3. AllBeats(cuts) = AllBeats(<<cuts[1]>>)
    BY <2>1, <2>2, AllBeatsAre
  <2>4. PICK d, e : d = Deductions(cuts) /\ e = Deductions(<<cuts[1]>>)
    OBVIOUS
  <2>5. /\ DOMAIN d = Axes /\ \A k \in Axes : d[k] \in Int
        /\ DOMAIN e = Axes /\ \A k \in Axes : e[k] \in Int
    BY <2>1, <2>2, <2>4, DeductionsType
  <2>6. \A k \in Axes \ PerCut : d[k] = e[k]
    BY <2>3, <2>4 DEF Deductions, Axes, PerCut
  <2>7. PICK t, u : t = Taken(d) /\ u = Taken(e)
    OBVIOUS
  <2>8. /\ DOMAIN t = Axes /\ \A k \in Axes : t[k] \in Int
        /\ DOMAIN u = Axes /\ \A k \in Axes : u[k] \in Int
    BY <2>5, <2>7, TakenIs
  <2>9. \A k \in Axes \ PerCut : t[k] = u[k]
    BY <2>5, <2>6, <2>7 DEF Taken
  <2>10. 100 - Sum(t) + Sum(Back(t, PerCut, 0)) = 100 - Sum(u) + Sum(Back(u, PerCut, 0))
    <3>1. Rest(t) = Rest(u)
      BY <2>9 DEF Rest
    <3>2. /\ Sum(t) \in Int /\ Sum(Back(t, PerCut, 0)) \in Int
          /\ Sum(u) \in Int /\ Sum(Back(u, PerCut, 0)) \in Int
          /\ Sum(t) - Sum(Back(t, PerCut, 0)) = Sum(u) - Sum(Back(u, PerCut, 0))
      BY <2>8, <3>1, MutedSum
    <3>3. QED
      BY <3>2
  <2>11. PerCut \subseteq Axes
    BY DEF Axes, PerCut
  <2>12. Weighed(d, PerCut, 0) = Weighed(e, PerCut, 0)
    BY <2>5, <2>7, <2>10, <2>11, WeighedIs
  <2>13. QED
    BY <2>4, <2>5, <2>6, <2>12
<1>2. QED
  BY <1>1, GuideInvHolds, PTL

(* Whatever the guide, the operator who mutes or doubles an axis moves its *)
(* score by at most the points the documentation gives the axis: no check  *)
(* takes more, over however many beats and platforms it adds up.           *)
THEOREM MultipliersReachNoFurther == Spec => []MultiplierReach
<1>1. GuideInv => MultiplierReach
  <2> SUFFICES ASSUME Guide(cuts), NEW a \in DOMAIN Deductions(cuts)
               PROVE  LET d == Deductions(cuts)
                          most == Weight(Len(cuts))
                          score == Weighed(d, {}, 1)
                      IN  /\ Weighed(d, {a}, 0) \in score..(score + most[a])
                          /\ Weighed(d, {a}, 2) \in (score - most[a])..score
    BY DEF GuideInv, MultiplierReach
  <2>1. PICK d : d = Deductions(cuts)
    OBVIOUS
  <2>2. PICK most : most = Weight(Len(cuts))
    OBVIOUS
  <2>3. /\ DOMAIN d = Axes /\ a \in Axes
        /\ \A k \in Axes : d[k] \in Int /\ most[k] \in Nat /\ d[k] <= most[k]
    BY <2>1, <2>2, DeductionsType
  <2>4. PICK t : t = Taken(d)
    OBVIOUS
  <2>5. DOMAIN t = Axes /\ \A k \in Axes : t[k] \in Nat /\ t[k] <= most[k]
    BY <2>3, <2>4, TakenIs
  <2>6. PICK x \in Nat : x = t[a] /\ x <= most[a]
    BY <2>3, <2>5
  <2>7. PICK n \in Int : n = 100 - Sum(t)
    BY <2>5, SumIsInt
  <2>8. \A A, w : A \subseteq Axes => Weighed(d, A, w) = Clamp(100 - Sum(t) + Sum(Back(t, A, w)))
    BY <2>3, <2>4, WeighedIs
  <2>9. Weighed(d, {}, 1) = Clamp(n)
    <3>1. Sum(Back(t, {}, 1)) = 0
      BY <2>5, BackOfNone
    <3>2. QED
      BY <2>7, <2>8, <3>1
  <2>10. Weighed(d, {a}, 0) = Clamp(n + x) /\ Weighed(d, {a}, 2) = Clamp(n - x)
    <3>1. Sum(Back(t, {a}, 0)) = x /\ Sum(Back(t, {a}, 2)) = -x
      BY <2>3, <2>5, <2>6, BackOfOne
    <3>2. n + (-x) = n - x
      OBVIOUS
    <3>3. QED
      BY <2>3, <2>7, <2>8, <3>1, <3>2
  <2>11. Clamp(n + x) \in Clamp(n)..(Clamp(n) + x) /\ Clamp(n) \in Int
    BY Clamped
  <2>12. Clamp(n - x) \in (Clamp(n) - x)..Clamp(n)
    <3>1. PICK k \in Int : k = n - x /\ k + x = n
      OBVIOUS
    <3>2. Clamp(k) \in Int /\ Clamp(k + x) \in Clamp(k)..(Clamp(k) + x)
      BY Clamped
    <3>3. QED
      BY <3>1, <3>2
  <2>13. most[a] \in Nat
    BY <2>3
  <2>14. /\ Weighed(d, {a}, 0) \in Weighed(d, {}, 1)..(Weighed(d, {}, 1) + most[a])
         /\ Weighed(d, {a}, 2) \in (Weighed(d, {}, 1) - most[a])..Weighed(d, {}, 1)
    BY <2>6, <2>9, <2>10, <2>11, <2>12, <2>13
  <2>15. QED
    BY <2>1, <2>2, <2>14
<1>2. QED
  BY <1>1, GuideInvHolds, PTL

-----------------------------------------------------------------------------
(* Lines that say more.                                                    *)

(* Two scripts of one shape, the second of which has every signal of the   *)
(* first.                                                                  *)
Better(bs, cs) ==
  /\ bs \in Seq(Beat) /\ cs \in Seq(Beat) /\ Len(bs) = Len(cs)
  /\ \A i \in DOMAIN bs : bs[i].type = cs[i].type /\ SaysMore(Vo(bs[i]), Vo(cs[i]))

LEMMA Fewer ==
  ASSUME NEW T, IsFiniteSet(T), NEW S, S \subseteq T
  PROVE  /\ IsFiniteSet(S) /\ Cardinality(S) \in Nat /\ Cardinality(T) \in Nat
         /\ Cardinality(S) <= Cardinality(T)
BY FS_Subset, FS_CardinalityType

LEMMA NarrativeGains ==
  ASSUME NEW bs, NEW cs, Better(bs, cs)
  PROVE  Narrative(cs) <= Narrative(bs)
<1>1. DOMAIN bs = DOMAIN cs /\ Len(bs) = Len(cs) /\ bs \in Seq(Beat) /\ cs \in Seq(Beat)
  BY DEF Better
<1>2. \A i \in DOMAIN bs :
        /\ Body(bs[i]) => Body(cs[i])
        /\ bs[i].type = cs[i].type
        /\ Vo(bs[i]).names # {} => Vo(cs[i]).names # {}
        /\ Vo(bs[i]).context => Vo(cs[i]).context
        /\ Vo(bs[i]).analysis => Vo(cs[i]).analysis
        /\ Vo(bs[i]).conflict => Vo(cs[i]).conflict
        /\ Vo(bs[i]).conclusion => Vo(cs[i]).conclusion
  BY DEF Better, SaysMore, Body, WordFields
<1>3. OfType(bs, "hook") = OfType(cs, "hook") /\ OfType(bs, "cta") = OfType(cs, "cta")
  BY <1>1, <1>2 DEF OfType
<1>4. /\ Told(bs)["hook"] => Told(cs)["hook"]
      /\ Told(bs)["context"] => Told(cs)["context"]
      /\ Told(bs)["analysis"] => Told(cs)["analysis"]
      /\ Told(bs)["conflict"] => Told(cs)["conflict"]
      /\ Told(bs)["conclusion"] => Told(cs)["conclusion"]
  BY <1>1, <1>2, <1>3 DEF Told
<1>5. PICK M : M = {stage \in Stages : ~Told(bs)[stage]}
  OBVIOUS
<1>6. PICK N : N = {stage \in Stages : ~Told(cs)[stage]}
  OBVIOUS
<1>7. N \subseteq M
  BY <1>4, <1>5, <1>6 DEF Stages
<1>8. IsFiniteSet(M)
  BY <1>1, <1>5, NarrativeType
<1>9. PICK m \in Nat, n \in Nat : m = Cardinality(M) /\ n = Cardinality(N) /\ n <= m
  BY <1>7, <1>8, Fewer
<1>10. Narrative(bs) = Min({15, 3 * m}) /\ Narrative(cs) = Min({15, 3 * n})
  BY <1>1, <1>5, <1>6, <1>9, NarrativeType
<1>11. Min({15, 3 * n}) <= Min({15, 3 * m})
  BY <1>9, MinType
<1>12. QED
  BY <1>10, <1>11

LEMMA DivGrows ==
  ASSUME NEW n \in Nat \ {0}, NEW p \in Nat, NEW q \in Nat, p <= q
  PROVE  p \div n \in Nat /\ q \div n \in Nat /\ p \div n <= q \div n
OBVIOUS

LEMMA ContextGains ==
  ASSUME NEW bs, NEW cs, Better(bs, cs)
  PROVE  ContextCoverage(cs) <= ContextCoverage(bs)
<1>1. DOMAIN bs = DOMAIN cs /\ bs \in Seq(Beat) /\ cs \in Seq(Beat)
  BY DEF Better
<1>2. PICK n \in Nat : n = Len(Source)
  BY EvaluatorAssumption
<1>3. PICK s : s = Union(bs, LAMBDA b : Vo(b).keys)
  OBVIOUS
<1>4. PICK t : t = Union(cs, LAMBDA b : Vo(b).keys)
  OBVIOUS
<1>5. s \subseteq t
  <2>1. \A i \in DOMAIN bs : Vo(bs[i]).keys \subseteq Vo(cs[i]).keys
    BY DEF Better, SaysMore, WordFields
  <2>2. QED
    BY <1>1, <1>3, <1>4, <2>1 DEF Union
<1> DEFINE Echoed(said) == {i \in DOMAIN Source :
               10 * Cardinality(Source[i] \intersect said) >= 3 * Cardinality(Source[i])}
<1>6. Echoed(s) \subseteq Echoed(t)
  <2>1. ASSUME NEW i \in Echoed(s) PROVE i \in Echoed(t)
    <3>1. i \in DOMAIN Source /\ IsFiniteSet(Source[i])
      BY EvaluatorAssumption
    <3>2. IsFiniteSet(Source[i] \intersect t)
      BY <3>1, FS_Intersection
    <3>3. Source[i] \intersect s \subseteq Source[i] \intersect t
      BY <1>5
    <3>4. PICK a \in Nat, b \in Nat, c \in Nat :
            /\ a = Cardinality(Source[i] \intersect s) /\ b = Cardinality(Source[i] \intersect t)
            /\ c = Cardinality(Source[i]) /\ a <= b
      BY <3>1, <3>2, <3>3, Fewer, FS_CardinalityType
    <3>5. 10 * a >= 3 * c
      BY <3>4
    <3>6. 10 * b >= 3 * c
      BY <3>4, <3>5
    <3>7. QED
      BY <3>1, <3>4, <3>6
  <2>2. QED
    BY <2>1
<1>7. IsFiniteSet(Echoed(t))
  BY CountType, EvaluatorAssumption
<1>8. PICK k \in Nat, m \in Nat : k = Cardinality(Echoed(s)) /\ m = Cardinality(Echoed(t)) /\ k <= m
  BY <1>6, <1>7, Fewer
<1>9. /\ ContextCoverage(bs) = IF 2 * k < n THEN Min({10, (20 * (n - 2 * k)) \div n}) ELSE 0
      /\ ContextCoverage(cs) = IF 2 * m < n THEN Min({10, (20 * (n - 2 * m)) \div n}) ELSE 0
  BY <1>2, <1>3, <1>4, <1>8 DEF ContextCoverage, Count
<1>10. CASE 2 * k < n
  <2>1. PICK p \in Nat, q \in Nat : p = 20 * (n - 2 * k) /\ q = IF 2 * m < n THEN 20 * (n - 2 * m) ELSE 0
    BY <1>10
  <2>2. q <= p
    BY <1>8, <2>1
  <2>3. p \div n \in Nat /\ q \div n \in Nat /\ q \div n <= p \div n
    BY <1>10, <2>2, DivGrows
  <2>4. Min({10, q \div n}) <= Min({10, p \div n}) /\ 0 <= Min({10, p \div n})
    BY <2>3, MinType
  <2>5. QED
    BY <1>9, <1>10, <2>1, <2>4
<1>11. QED
  BY <1>8, <1>9, <1>10


(* The words of one kind, the beats that count for an insight, and those   *)
(* that move, only become more.                                            *)
LEMMA MoreOf ==
  ASSUME NEW bs, NEW cs, Better(bs, cs)
  PROVE  /\ \A f \in WordFields : Words(bs, f) \subseteq Words(cs, f)
         /\ Stats(bs) \subseteq Stats(cs) /\ Causes(bs) \subseteq Causes(cs)
         /\ Likens(bs) \subseteq Likens(cs) /\ Moved(bs) \subseteq Moved(cs)
<1>1. DOMAIN bs = DOMAIN cs
  BY DEF Better
<1>2. \A i \in DOMAIN bs :
        /\ \A f \in WordFields : Vo(bs[i])[f] \subseteq Vo(cs[i])[f]
        /\ Body(bs[i]) => Body(cs[i])
        /\ Vo(bs[i]).stat => Vo(cs[i]).stat
        /\ Vo(bs[i]).causal => Vo(cs[i]).causal
        /\ Vo(bs[i]).compare => Vo(cs[i]).compare
  BY DEF Better, SaysMore, Body
<1>3. \A f \in WordFields : Words(bs, f) \subseteq Words(cs, f)
  BY <1>1, <1>2 DEF Words
<1>4. \A i \in DOMAIN bs : /\ Vo(bs[i]).pos \subseteq Vo(cs[i]).pos
                           /\ Vo(bs[i]).neg \subseteq Vo(cs[i]).neg
  BY <1>2 DEF WordFields
<1>5. Moved(bs) \subseteq Moved(cs)
  BY <1>1, <1>4 DEF Moved
<1>6. QED
  BY <1>1, <1>2, <1>3, <1>5 DEF Stats, Causes, Likens

LEMMA MinGrows ==
  ASSUME NEW c \in Int, NEW a \in Int, NEW b \in Int, a <= b
  PROVE  Min({c, a}) \in Int /\ Min({c, b}) \in Int /\ Min({c, a}) <= Min({c, b})
BY MinType

(* More of each earns more, but for the first tactical term.               *)
LEMMA EarnsMore ==
  ASSUME NEW s \in Nat, NEW t \in Nat, s <= t, NEW j \in Nat, NEW k \in Nat, j <= k,
         NEW g \in Nat, NEW h \in Nat, g <= h, NEW l \in Nat, NEW m \in Nat, l <= m
  PROVE  /\ Earned(s, j, g, l) \in Int /\ Earned(t, k, h, m) \in Int
         /\ Earned(s, j, g, l) <= Earned(t, k, h, m) + (IF g = 0 /\ h # 0 THEN 1 ELSE 0)
<1>1. PICK a \in Int, b \in Int : a = Min({5, 2 * s}) /\ b = Min({5, 2 * t}) /\ a <= b
  <2>1. 2 * s \in Int /\ 2 * t \in Int /\ 2 * s <= 2 * t
    OBVIOUS
  <2>2. QED
    BY <2>1, MinGrows
<1>2. PICK c \in Int, d \in Int : c = Min({4, j}) /\ d = Min({4, k}) /\ c <= d
  BY MinGrows
<1>3. PICK e \in Int, f \in Int : e = Min({2, l}) /\ f = Min({2, m}) /\ e <= f
  BY MinGrows
<1>4. PICK x \in Int, y \in Int : x = Min({4, g}) /\ y = Min({4, h}) /\ x <= y /\ (h # 0 => y >= 1)
  BY MinType
<1>5. /\ Earned(s, j, g, l) = a + c + (IF g > 0 THEN x ELSE 2) + e
      /\ Earned(t, k, h, m) = b + d + (IF h > 0 THEN y ELSE 2) + f
  BY <1>1, <1>2, <1>3, <1>4 DEF Earned
<1>6. QED
  BY <1>1, <1>2, <1>3, <1>4, <1>5

LEMMA InsightGains ==
  ASSUME NEW bs, NEW cs, Better(bs, cs)
  PROVE  Insight(cs) <= Insight(bs)
                        + Points(TacticalTerms(bs) = {} /\ TacticalTerms(cs) # {}, 1)
<1>1. bs \in Seq(Beat) /\ cs \in Seq(Beat)
  BY DEF Better
<1>2. /\ IsFiniteSet(Stats(cs)) /\ IsFiniteSet(Causes(cs)) /\ IsFiniteSet(Likens(cs))
      /\ IsFiniteSet(Words(bs, "tactical")) /\ IsFiniteSet(Words(cs, "tactical"))
  BY <1>1, CountType, WordsType DEF Stats, Causes, Likens, WordFields
<1>3. /\ Stats(bs) \subseteq Stats(cs) /\ Causes(bs) \subseteq Causes(cs)
      /\ Likens(bs) \subseteq Likens(cs) /\ Words(bs, "tactical") \subseteq Words(cs, "tactical")
  BY MoreOf DEF WordFields
<1>4. PICK s \in Nat, t \in Nat : s = Cardinality(Stats(bs)) /\ t = Cardinality(Stats(cs)) /\ s <= t
  BY <1>2, <1>3, Fewer
<1>5. PICK j \in Nat, k \in Nat : j = Cardinality(Causes(bs)) /\ k = Cardinality(Causes(cs)) /\ j <= k
  BY <1>2, <1>3, Fewer
<1>6. PICK g \in Nat, h \in Nat :
        /\ g = Cardinality(Words(bs, "tactical")) /\ h = Cardinality(Words(cs, "tactical"))
        /\ g <= h
  BY <1>2, <1>3, Fewer
<1>7. PICK l \in Nat, m \in Nat : l = Cardinality(Likens(bs)) /\ m = Cardinality(Likens(cs)) /\ l <= m
  BY <1>2, <1>3, Fewer
<1>8. (TacticalTerms(bs) = {} <=> g = 0) /\ (TacticalTerms(cs) = {} <=> h = 0)
  BY <1>1, <1>2, <1>6, FS_EmptySet, WordsAre
<1>9. PICK a \in Int, b \in Int :
        /\ a = Earned(s, j, g, l) /\ b = Earned(t, k, h, m)
        /\ a <= b + (IF g = 0 /\ h # 0 THEN 1 ELSE 0)
  <2>1. s <= t /\ j <= k /\ g <= h /\ l <= m
    BY <1>4, <1>5, <1>6, <1>7
  <2>2. /\ Earned(s, j, g, l) \in Int /\ Earned(t, k, h, m) \in Int
        /\ Earned(s, j, g, l) <= Earned(t, k, h, m) + (IF g = 0 /\ h # 0 THEN 1 ELSE 0)
    BY ONLY <2>1, EarnsMore
  <2>3. QED
    BY <2>2
<1>10. Insight(bs) = Max({0, 15 - a}) /\ Insight(cs) = Max({0, 15 - b})
  BY <1>1, <1>4, <1>5, <1>6, <1>7, <1>9, InsightType
<1>11. PICK p \in Int, q \in Int : p = Max({0, 15 - a}) /\ q = Max({0, 15 - b})
  BY MaxType
<1>12. q <= p + (IF g = 0 /\ h # 0 THEN 1 ELSE 0)
  <2>1. /\ p = IF 0 >= 15 - a THEN 0 ELSE 15 - a
        /\ q = IF 0 >= 15 - b THEN 0 ELSE 15 - b
    BY <1>11, MaxType
  <2>2. QED
    BY <1>9, <2>1
<1>13. QED
  BY <1>8, <1>10, <1>11, <1>12 DEF Points


(* No word is both of the positive and of the negative emotions.           *)
LEMMA Disjoint ==
  ASSUME NEW bs \in Seq(Beat)
  PROVE  /\ Words(bs, "pos") \intersect Words(bs, "neg") = {}
         /\ Cardinality(EmotionWords(bs))
              = Cardinality(Words(bs, "pos")) + Cardinality(Words(bs, "neg"))
<1>1. \A i, k \in DOMAIN bs : Vo(bs[i]).pos \intersect Vo(bs[k]).neg = {}
  <2>1. \A b \in Beat : b.vo \in DOMAIN Says
    BY DEF Beat
  <2>2. \A i \in DOMAIN bs : bs[i] \in Beat
    OBVIOUS
  <2>3. QED
    BY <2>1, <2>2, EvaluatorAssumption DEF Vo
<1>2. Words(bs, "pos") \intersect Words(bs, "neg") = {}
  BY <1>1 DEF Words
<1>3. PICK P, N : P = Words(bs, "pos") /\ N = Words(bs, "neg")
  OBVIOUS
<1>4. IsFiniteSet(P) /\ IsFiniteSet(N) /\ Cardinality(P) \in Nat /\ Cardinality(N) \in Nat
  BY <1>3, WordsType DEF WordFields
<1>5. Cardinality(P \cup N) = Cardinality(P) + Cardinality(N) - Cardinality(P \intersect N)
  BY <1>4, FS_Union
<1>6. Cardinality(P \intersect N) = 0
  BY <1>2, <1>3, FS_EmptySet
<1>7. Cardinality(P \cup N) = Cardinality(P) + Cardinality(N)
  <2>1. PICK p \in Nat, n \in Nat : p = Cardinality(P) /\ n = Cardinality(N)
    BY <1>4
  <2>2. Cardinality(P \cup N) = p + n - 0
    BY <1>5, <1>6, <2>1
  <2>3. QED
    BY <2>1, <2>2
<1>8. EmotionWords(bs) = P \cup N
  BY <1>3, WordsAre
<1>9. QED
  BY <1>2, <1>3, <1>7, <1>8

LEMMA EmotionGains ==
  ASSUME NEW bs, NEW cs, Better(bs, cs)
  PROVE  Emotion(cs) <= Emotion(bs)
                        + Points(/\ Cardinality(EmotionWords(bs)) < 4
                                 /\ Cardinality(EmotionWords(cs)) >= 4, 1)
<1>1. bs \in Seq(Beat) /\ cs \in Seq(Beat) /\ Len(bs) = Len(cs)
  BY DEF Better
<1>2. PICK P, N : P = Words(bs, "pos") /\ N = Words(bs, "neg")
  OBVIOUS
<1>3. PICK Q, M : Q = Words(cs, "pos") /\ M = Words(cs, "neg")
  OBVIOUS
<1>4. P \subseteq Q /\ N \subseteq M /\ IsFiniteSet(Q) /\ IsFiniteSet(M)
  BY <1>1, <1>2, <1>3, MoreOf, WordsType DEF WordFields
<1>5. PICK p \in Nat, q \in Nat : p = Cardinality(P) /\ q = Cardinality(Q) /\ p <= q
  BY <1>4, Fewer
<1>6. PICK n \in Nat, m \in Nat : n = Cardinality(N) /\ m = Cardinality(M) /\ n <= m
  BY <1>4, Fewer
<1>7. PICK g \in Nat, h \in Nat : g = p + n /\ h = q + m /\ g <= h
  BY <1>5, <1>6
<1>8. Cardinality(EmotionWords(bs)) = g /\ Cardinality(EmotionWords(cs)) = h
  BY <1>1, <1>2, <1>3, <1>5, <1>6, <1>7, Disjoint
<1>9. PICK x \in Nat, y \in Nat : x = Cardinality(Moved(bs)) /\ y = Cardinality(Moved(cs)) /\ x <= y
  <2>1. Moved(bs) \subseteq Moved(cs)
    BY MoreOf
  <2>2. IsFiniteSet(Moved(cs))
    BY <1>1, CountType DEF Moved
  <2>3. QED
    BY <2>1, <2>2, Fewer
<1>10. PICK k \in Nat : k = Len(bs)
  BY <1>1
<1>11. PICK a \in Int, b \in Int :
         /\ a = Min({10, 4 * (3 - g)}) /\ b = Min({10, 4 * (3 - h)})
         /\ (g < 2 => a >= 8) /\ b <= a
  <2>1. 4 * (3 - g) \in Int /\ 4 * (3 - h) \in Int /\ 4 * (3 - h) <= 4 * (3 - g)
    BY <1>7
  <2>2. /\ Min({10, 4 * (3 - g)}) \in Int /\ Min({10, 4 * (3 - h)}) \in Int
        /\ Min({10, 4 * (3 - h)}) <= Min({10, 4 * (3 - g)})
    BY <2>1, MinGrows
  <2>3. Min({10, 4 * (3 - g)}) = IF 10 <= 4 * (3 - g) THEN 10 ELSE 4 * (3 - g)
    BY <2>1, MinType
  <2>4. g < 2 => Min({10, 4 * (3 - g)}) >= 8
    BY <2>3
  <2>5. QED
    BY <2>2, <2>4
<1>12. PICK c, d : c = Clustered(g, x, k) /\ d = Clustered(h, y, k)
  OBVIOUS
<1>13. (d => h >= 4) /\ (d /\ g >= 4 => c)
  <2>1. PICK t \in Int : t = Max({2, (4 * k) \div 10})
    <3>1. (4 * k) \div 10 \in Int
      OBVIOUS
    <3>2. QED
      BY <3>1, MaxType
  <2>2. /\ c <=> g >= 4 /\ k >= 3 /\ x < t
        /\ d <=> h >= 4 /\ k >= 3 /\ y < t
    BY <1>12, <2>1 DEF Clustered
  <2>3. QED
    BY <1>9, <2>1, <2>2
<1>14. Emotion(bs) = (IF g < 2      THEN a
                      ELSE IF g < 4 THEN 4
                      ELSE IF P = {} \/ N = {} THEN 2 ELSE 0) + (IF c THEN 3 ELSE 0)
  BY <1>1, <1>2, <1>5, <1>6, <1>7, <1>9, <1>10, <1>11, <1>12, EmotionType
<1>15. Emotion(cs) = (IF h < 2      THEN b
                      ELSE IF h < 4 THEN 4
                      ELSE IF Q = {} \/ M = {} THEN 2 ELSE 0) + (IF d THEN 3 ELSE 0)
  BY <1>1, <1>3, <1>5, <1>6, <1>7, <1>9, <1>10, <1>11, <1>12, EmotionType
<1>16. (Q = {} \/ M = {}) => (P = {} \/ N = {})
  BY <1>4
<1>17. PICK i \in {0, 2}, j \in {0, 2} :
         /\ i = IF P = {} \/ N = {} THEN 2 ELSE 0
         /\ j = IF Q = {} \/ M = {} THEN 2 ELSE 0
         /\ j <= i
  BY <1>16
<1>18. PICK u \in {0, 3}, v \in {0, 3} :
         /\ u = IF c THEN 3 ELSE 0
         /\ v = IF d THEN 3 ELSE 0
         /\ (h < 4 => v = 0) /\ (g >= 4 => v <= u)
  BY <1>13
<1>19. /\ Emotion(bs) = (IF g < 2 THEN a ELSE IF g < 4 THEN 4 ELSE i) + u
       /\ Emotion(cs) = (IF h < 2 THEN b ELSE IF h < 4 THEN 4 ELSE j) + v
  BY <1>14, <1>15, <1>17, <1>18
<1>20. (IF h < 2 THEN b ELSE IF h < 4 THEN 4 ELSE j) + v
         <= (IF g < 2 THEN a ELSE IF g < 4 THEN 4 ELSE i) + u
            + (IF g < 4 /\ h >= 4 THEN 1 ELSE 0)
  BY ONLY <1>7, <1>11, <1>17, <1>18
<1>21. QED
  BY <1>8, <1>19, <1>20 DEF Points

(* A guide keeps its script's shape: beats that differ but in what they    *)
(* say and show. More signals in it, and no axis that asks for them takes  *)
(* more, with the two exceptions.                                          *)
THEOREM SignalsDoNotCost == Spec => SignalsNeverCost
<1>1. ASSUME GuideInv, GuideInv', AddsSignals(AllBeats(cuts), AllBeats(cuts'))
      PROVE  Better(AllBeats(cuts), AllBeats(cuts'))
  <2>1. PICK bs \in Seq(Beat) : bs = AllBeats(cuts) /\ InShape(bs)
    BY <1>1, AllBeatsAre, GuideIs DEF GuideInv
  <2>2. PICK cs \in Seq(Beat) : cs = AllBeats(cuts') /\ InShape(cs)
    <3>1. Guide(cuts')
      BY <1>1 DEF GuideInv
    <3>2. QED
      BY <3>1, AllBeatsAre, GuideIs
  <2>3. DOMAIN bs = DOMAIN cs /\ \A i \in DOMAIN bs : SaysMore(Vo(bs[i]), Vo(cs[i]))
    BY <1>1, <2>1, <2>2 DEF AddsSignals
  <2>4. Len(bs) = Len(cs)
    BY <2>3
  <2>5. \A i \in DOMAIN bs : bs[i].type = cs[i].type
    BY <2>1, <2>2, <2>3, <2>4 DEF InShape
  <2>6. Better(bs, cs)
    BY <2>3, <2>4, <2>5 DEF Better
  <2>7. QED
    BY <2>1, <2>2, <2>6
<1>2. GuideInv /\ GuideInv' /\ [Next]_cuts =>
        [ LET before == AllBeats(cuts)
              after == AllBeats(cuts')
              fourth == Cardinality(EmotionWords(before)) < 4 /\ Cardinality(EmotionWords(after)) >= 4
              first == TacticalTerms(before) = {} /\ TacticalTerms(after) # {}
          IN  AddsSignals(before, after) =>
                /\ Narrative(after) <= Narrative(before)
                /\ ContextCoverage(after) <= ContextCoverage(before)
                /\ Insight(after) <= Insight(before) + Points(first, 1)
                /\ Emotion(after) <= Emotion(before) + Points(fourth, 1) ]_cuts
  BY <1>1, NarrativeGains, ContextGains, InsightGains, EmotionGains
<1>3. QED
  BY <1>2, GuideInvHolds, PTL DEF Spec, SignalsNeverCost
=============================================================================
