--------------------------- MODULE MCUsageTracker ---------------------------
(***************************************************************************)
(* The run of UsageTracker, with the rates of usage_tracker.py.  The service *)
(* may report a model it was asked for by the id of its snapshot.            *)
(***************************************************************************)
EXTENDS UsageTracker, TLC

CONSTANTS haiku, sonnet, opus, snapshot

Prices ==
  haiku :> [input |-> 1, output |-> 5] @@ sonnet :> [input |-> 2, output |-> 10]
  @@ opus :> [input |-> 5, output |-> 25]

Reported == haiku :> {haiku, snapshot} @@ sonnet :> {sonnet} @@ opus :> {opus}

Plain == [k \in Kinds |-> IF k \in CacheKinds THEN Absent ELSE 1]
Cached == [k \in Kinds |-> CASE k = "read" -> 3 [] k = "write" -> 2 [] OTHER -> 1]

SomeUsages == {Plain, Cached}
=============================================================================
