\* Three records, any two parents each, any state of their files, while others are
\* sealed, the stack having room for three calls; and every target for one record.
CONSTANTS
  r = r  a = a  b = b
  Ids = {r, a, b}
  Root = r
  MaxParents = 2
  Limit = 3
SPECIFICATION FewFairSpec
INVARIANTS TypeOK NothingLost NothingAdded OldestFirst
PROPERTIES RestoreEnds
CHECK_DEADLOCK FALSE
