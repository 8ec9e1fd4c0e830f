\* One record of each kind and every target: does a SUCCESS lose nothing that it does not name?
CONSTANTS
  r = r  a = a  b = b
  Ids = {r, a, b}
  Root = r
  MaxParents = 2
  Limit = 3
SPECIFICATION FewSpec
INVARIANTS NoSilentLoss
CHECK_DEADLOCK FALSE
