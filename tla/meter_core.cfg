\* Two calls over two routes, with and without a cache, for tasks of any score, NaN too.
CONSTANTS
  haiku = haiku  sonnet = sonnet  opus = opus  snapshot = snapshot
  Models = {haiku, sonnet, opus, snapshot}
  PRICING <- Prices
  HAIKU = haiku
  SONNET = sonnet
  OPUS = opus
  NoModel = NoModel
  NaN = NaN
  Ran <- Reported
  chat = chat  batch = batch
  Routes = {chat, batch}
  Usages <- SomeUsages
  Absent = Absent
  MaxCalls = 2
SPECIFICATION Spec
INVARIANTS TracksWhatReturned RoutesToCheapest
CHECK_DEADLOCK FALSE
