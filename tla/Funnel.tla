-------------------------------- MODULE Funnel --------------------------------
(***************************************************************************)
(* compute_funnel of telegram_bot_demo/analyze.py, over the log of each      *)
(* user, which sessions_by_user takes from steps.jsonl in the order of time. *)
(***************************************************************************)
EXTENDS Naturals, FiniteSets, SequencesExt

\* Slip: a new session does not undo the end of the one before.
SlipReads(r, e) ==
  CASE e.event = "start" -> [r EXCEPT !.visited = <<e.node>>]
    [] e.event = "choice" -> [r EXCEPT !.visited = Append(@, e.next)]
    [] e.event = "complete" -> [r EXCEPT !.finished = TRUE]
    [] OTHER -> r

\* The loop over the events of a user; last_node is the last one visited.
Reads(r, e) ==
  CASE e.event = "start" -> [visited |-> <<e.node>>, finished |-> FALSE]
    [] e.event = "choice" -> [r EXCEPT !.visited = Append(@, e.next)]
    [] e.event = "complete" -> [r EXCEPT !.finished = TRUE]
    [] OTHER -> r

Session(l) == FoldLeft(Reads, [visited |-> <<>>, finished |-> FALSE], l)

Times(n, s) == Cardinality({i \in DOMAIN s : s[i] = n})
Ended(s, n) == IF s # <<>> /\ Last(s) = n THEN 1 ELSE 0

\* logs: the lines of each user.
Reached(logs, n) == SumFunction([u \in DOMAIN logs |-> Times(n, Session(logs[u]).visited)])

Dropped(logs, n) ==
  SumFunction([u \in DOMAIN logs |->
           LET s == Session(logs[u]) IN IF s.finished THEN 0 ELSE Ended(s.visited, n)])

\* Slip: the last node counts among those that were left, too.
SlipCompleted(logs, n) ==
  SumFunction([u \in DOMAIN logs |->
           LET s == Session(logs[u]) IN
           Times(n, s.visited) + IF s.finished THEN Ended(s.visited, n) ELSE 0])

Completed(logs, n) ==
  SumFunction([u \in DOMAIN logs |->
           LET s == Session(logs[u]) IN
           Times(n, SubSeq(s.visited, 1, Len(s.visited) - 1)) + IF s.finished THEN Ended(s.visited, n) ELSE 0])
=============================================================================
