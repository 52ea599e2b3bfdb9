------------------------------ MODULE MCEvaluator ------------------------------
(* Lines and directions of a football reel, from an empty assertion to a   *)
(* line dense with signals; every branch of every axis has one that takes  *)
(* it and one that does not.                                               *)
EXTENDS Evaluator

Flat ==
  [words |-> 14, sents |-> <<14>>, question |-> FALSE, exclaim |-> FALSE,
   trigger |-> FALSE, stakes |-> FALSE, you |-> FALSE, direct |-> FALSE,
   loop |-> FALSE, action |-> FALSE, context |-> FALSE, analysis |-> FALSE,
   conflict |-> FALSE, conclusion |-> FALSE, stat |-> FALSE, number |-> FALSE,
   causal |-> FALSE, compare |-> FALSE, ctaHigh |-> FALSE, ctaLow |-> FALSE,
   article |-> 0, names |-> {}, tactical |-> {}, pos |-> {}, neg |-> {}, keys |-> {}]

MCSays ==
  [dull    |-> [Flat EXCEPT !.words = 30, !.sents = <<30>>, !.article = 4, !.keys = {"romero", "style"}],
   asks    |-> [Flat EXCEPT !.words = 8, !.sents = <<5, 3>>, !.question = TRUE, !.trigger = TRUE,
                            !.stakes = TRUE, !.you = TRUE, !.names = {"Romero"},
                            !.keys = {"romero", "title"}],
   claim   |-> [Flat EXCEPT !.keys = {"romero", "defends"}, !.names = {"Romero"}],
   fact    |-> [Flat EXCEPT !.keys = {"romero", "defends", "press"}, !.names = {"Romero"},
                            !.stat = TRUE, !.number = TRUE, !.analysis = TRUE, !.causal = TRUE,
                            !.compare = TRUE, !.loop = TRUE],
   tactic  |-> [Flat EXCEPT !.words = 26, !.sents = <<13, 13>>, !.names = {"Romero"},
                            !.keys = {"romero", "defends", "line"}, !.tactical = {"high line"},
                            !.action = TRUE, !.context = TRUE],
   glory   |-> [Flat EXCEPT !.words = 9, !.sents = <<9>>, !.exclaim = TRUE, !.loop = TRUE,
                            !.pos = {"glory", "legacy"}, !.keys = {"glory", "title"}],
   drama   |-> [Flat EXCEPT !.words = 9, !.sents = <<9>>, !.conflict = TRUE, !.loop = TRUE,
                            !.pos = {"glory", "legacy", "destiny", "hero"},
                            !.keys = {"glory", "title", "collapse"}],
   comment |-> [Flat EXCEPT !.words = 6, !.sents = <<6>>, !.ctaHigh = TRUE, !.question = TRUE,
                            !.you = TRUE, !.neg = {"pressure"}, !.keys = {"romero", "title"}],
   follow  |-> [Flat EXCEPT !.words = 6, !.sents = <<6>>, !.ctaLow = TRUE, !.keys = {"channel"}],
   silent  |-> [Flat EXCEPT !.words = 0, !.sents = << >>]]

Shot ==
  [words |-> 9, names |-> {}, action |-> FALSE, tactical |-> FALSE, context |-> FALSE,
   abstract |-> FALSE, generic |-> FALSE, category |-> "other"]

MCShows ==
  [tackle |-> [Shot EXCEPT !.names = {"Romero"}, !.action = TRUE, !.category = "highlight"],
   board  |-> [Shot EXCEPT !.words = 5, !.tactical = TRUE, !.context = TRUE, !.category = "tactical"],
   crowd  |-> [Shot EXCEPT !.words = 4, !.category = "crowd"],
   idea   |-> [Shot EXCEPT !.words = 3, !.abstract = TRUE],
   stock  |-> [Shot EXCEPT !.generic = TRUE]]

Take(l, s, d) == [vo |-> l, visual |-> s, dur |-> d]

MCTakes ==
  [hook |-> {Take("asks", "tackle", 4), Take("dull", "stock", 5), Take("claim", "idea", 8)},
   body |-> {Take("claim", "idea", 5), Take("fact", "tackle", 5), Take("tactic", "board", 8),
             Take("glory", "crowd", 2), Take("drama", "crowd", 3), Take("silent", "stock", 5)},
   cta  |-> {Take("comment", "crowd", 3), Take("follow", "stock", 9)}]

MCSource == <<{"romero", "title"}, {"press", "line", "style"}, {"collapse"}, {"budget"}, {}>>
=============================================================================
