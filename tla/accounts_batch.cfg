SPECIFICATION Spec
CONSTANTS
  s1 = s1
  s2 = s2
  b1 = b1
  b2 = b2
  t1 = t1
  t2 = t2
  yt = yt
  ig = ig
  ann = ann
  bob = bob
  States = {s1, s2}
  Callbacks = {b1, b2}
  Tasks = {t1}
  Cuts = {yt, ig}
  ProviderOf <- Platforms
  Accounts = {ann, bob}
  Rows = {1, 2}
  Keys = {"none", "k1"}
  NoKey = "none"
  Views = {1}
SYMMETRY Interchangeable
INVARIANTS BatchGoesOn
CHECK_DEADLOCK FALSE
