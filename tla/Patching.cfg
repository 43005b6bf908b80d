CONSTANTS
  c1 = c1  c2 = c2  d1 = d1  d2 = d2  t1 = t1
  a = a  b = b  p = p  q = q
  Coords = {c1, c2}
  Data = {d1, d2}
  Titles = {t1}
  Null = Null
  Names = {a, b, p, q}
  CopyTypes = {"all"}
  InitialFiles <- MCInitialFiles
  MaxCommands = 3
  MaxCopies = 1
SPECIFICATION Spec
SYMMETRY MCSymmetry
INVARIANTS TypeOK HashesTrue PatchedSafely TitlesFollow
PROPERTY CopyFollowsMode
CHECK_DEADLOCK FALSE
