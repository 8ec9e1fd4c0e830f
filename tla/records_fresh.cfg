\* One seal: does what it has sealed pass the check?
CONSTANTS
  s1 = s1
  i1 = i1  i2 = i2
  Seals = {s1}
  Ids = {i1, i2}
  Bodies <- ShortBodies
  NoId = NoId
  Absent = Absent
SPECIFICATION Spec
INVARIANTS FreshlySealedPasses
SYMMETRY Symmetry
CHECK_DEADLOCK FALSE
