SPECIFICATION Spec
CONSTANTS
  Instances = {i1, i2, i3}
  short = short
  long = long
  Values = {short, long}
  Size <- MCSize
  Blank = Blank
  None = None
  Hole = Hole
SYMMETRY InstancesAlike
INVARIANTS
  TypeOK
  SavedState
  ShutdownSaved
