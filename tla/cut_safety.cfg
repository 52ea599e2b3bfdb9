SPECIFICATION Spec
CONSTANTS
  j1 = j1
  j2 = j2
  j3 = j3
  j4 = j4
  j5 = j5
  x1 = x1
  x2 = x2
  x3 = x3
  x4 = x4
  x5 = x5
  t1 = t1
  t2 = t2
  d1 = d1
  d2 = d2
  NoRun = NoRun
  Jobs = {j1, j2, j3}
  Runs = {x1, x2, x3, x4}
  Texts = {t1, t2}
  Directions = {d1, d2}
  Assets = {"cleared", "uncleared"}
  Unsafe = {"uncleared"}
  RenderSlots = 1
SYMMETRY Interchangeable
INVARIANTS OneJobInFlight RowDescribesVideo UploadsAreGated JobUploadsOnce PostIsOnRecord
PROPERTIES CutFollowsTransitions RenderRecordsItself JobsAreLifecycles
CHECK_DEADLOCK FALSE
