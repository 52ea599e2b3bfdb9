SPECIFICATION Spec
CONSTANTS
  r1 = r1 r2 = r2 r3 = r3 c1 = c1 c2 = c2
  original = original thumbnail = thumbnail clip = clip
  png = png jpg = jpg mp4 = mp4 page = page hit = hit
  Renders = {r1, r2, r3}
  Cuts = {c1, c2}
  Candidates = {original, thumbnail, clip}
  Chain <- PageThenHit
  Paths = {png, jpg, mp4}
  PathOf <- FileOf
  RefOf <- SourceOf
  Images = {original, thumbnail}
  LegacyFiles = {png}
  None = None
SYMMETRY Interchangeable
INVARIANTS PinnedFilesPresent
PROPERTIES InstalledWhole
CHECK_DEADLOCK FALSE
