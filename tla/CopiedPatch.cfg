CONSTANTS
  c1 = c1  c2 = c1  d1 = d1  d2 = d2  t1 = t1
  a = a  b = b  p = p  q = q
  Coords = {c1}
  Data = {d1, d2}
  Titles = {t1}
  Null = Null
  Names = {a, b, p, q}
  CopyTypes = {"all"}
  InitialFiles <- MCInitialFiles
  MaxCommands = 3
  MaxCopies = 2
SPECIFICATION Spec
SYMMETRY MCSymmetry
INVARIANT AggHashTrue
CHECK_DEADLOCK FALSE
