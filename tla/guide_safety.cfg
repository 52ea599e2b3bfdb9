SPECIFICATION Spec
CONSTANTS
  g1 = g1
  g2 = g2
  g3 = g3
  NoRun = NoRun
  Runs = {g1, g2}
  Cap = 4
  Threshold = 2
  TopScore = 2
SYMMETRY Interchangeable
INVARIANTS GuideFollowsReel OvershootBounded ZombieSpendBounded BestAccepted
PROPERTIES MetaDescribesGuide
CHECK_DEADLOCK FALSE
