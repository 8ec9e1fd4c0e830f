\* Two seals and two ids, so that each may be alone or both collide, every kind of
\* header (but a `---` in one of the two only) and of body, and a listing at any time.
CONSTANTS
  s1 = s1  s2 = s2
  i1 = i1  i2 = i2
  Seals = {s1, s2}
  Ids = {i1, i2}
  Bodies <- ShortBodies
  NoId = NoId
  Absent = Absent
SPECIFICATION Spec
INVARIANTS TypeOK PassesIfPlain UnfinishedFails ListsWhatIsSealed
CONSTRAINT OneRuled
SYMMETRY Symmetry
CHECK_DEADLOCK FALSE
