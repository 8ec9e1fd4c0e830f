\* One user and a simulated session, three updates, one crash or failed call.
CONSTANTS
  START = START  a = a  b = b  c = c
  NoNode = NoNode
  NoUpdate = NoUpdate
  u1 = u1
  s1 = s1
  Users = {u1}
  Sessions = {s1}
  Trees <- AnyTree
  SimTrees <- SimTree
  MaxUpdates = 3
  MaxTroubles = 1
  MaxAnswers = 1
SPECIFICATION AllFairSpec
INVARIANTS TypeOK StateIsLogged NudgeHasButtons LeafIsLogged FunnelShowsUsers FunnelBalances
PROPERTIES StepsFollow SettlesAtLast
CHECK_DEADLOCK FALSE
