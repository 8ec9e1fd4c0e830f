------------------------------ MODULE Simulator ------------------------------
(***************************************************************************)
(* telegram_bot_demo/simulate.py: sessions at a terminal, each a process    *)
(* with a user id of its own, over the same tree and the same log as the    *)
(* bot.  (Where --user-id is left out the id is 1, and two such sessions are *)
(* one user to the log; whoever runs them gives each its id here.)  A session *)
(* may be ended at the prompt by whoever runs it.                           *)
(***************************************************************************)
EXTENDS DecisionTree

CONSTANTS
  Sessions,    \* user ids of the simulated sessions
  SimTrees,    \* what tree.json may hold when one starts
  MaxAnswers   \* how often one answers at the prompt

VARIABLES
  simTree,  \* per session, its tree
  simAt,    \* its node_id, or NoNode before it starts and when it has ended
  simLog,   \* its lines of steps.jsonl
  answers   \* how often it has answered

simVars == <<simTree, simAt, simLog, answers>>

SimInit ==
  /\ simTree \in [Sessions -> {t \in SimTrees : Loads(t)}]
  /\ simAt = [s \in Sessions |-> NoNode]
  /\ simLog = [s \in Sessions |-> <<>>]
  /\ answers = [s \in Sessions |-> 0]

SimLogs(s, e, n, x) == simLog' = [simLog EXCEPT ![s] = Append(@, [event |-> e, node |-> n, next |-> x])]

SimStarts(s) ==
  /\ simLog[s] = <<>>
  /\ simAt' = [simAt EXCEPT ![s] = START]
  /\ SimLogs(s, "start", START, NoNode)
  /\ UNCHANGED <<simTree, answers>>

AtPrompt(s) == simAt[s] # NoNode /\ ~IsLeaf(simTree[s], simAt[s])

SimCompletes(s) ==
  /\ simAt[s] # NoNode /\ IsLeaf(simTree[s], simAt[s])
  /\ SimLogs(s, "complete", simAt[s], NoNode)
  /\ simAt' = [simAt EXCEPT ![s] = NoNode]
  /\ UNCHANGED <<simTree, answers>>

\* "q", or the end of the input.
SimQuits(s) ==
  /\ AtPrompt(s)
  /\ SimLogs(s, "invalid_input", simAt[s], NoNode)
  /\ simAt' = [simAt EXCEPT ![s] = NoNode]
  /\ UNCHANGED <<simTree, answers>>

\* Ctrl-C, or a character that isdigit() takes for a digit and int() does not.
SimDies(s) ==
  /\ AtPrompt(s)
  /\ simAt' = [simAt EXCEPT ![s] = NoNode]
  /\ UNCHANGED <<simTree, simLog, answers>>

\* No number, or an index out of range.
SimMistakes(s) ==
  /\ AtPrompt(s) /\ answers[s] < MaxAnswers
  /\ SimLogs(s, "invalid_input", simAt[s], NoNode)
  /\ answers' = [answers EXCEPT ![s] = @ + 1]
  /\ UNCHANGED <<simTree, simAt>>

SimChooses(s) ==
  /\ AtPrompt(s) /\ answers[s] < MaxAnswers
  /\ answers' = [answers EXCEPT ![s] = @ + 1]
  /\ \E i \in 0..(Len(simTree[s][simAt[s]]) - 1) :
       LET next == Resolve(simTree[s], simAt[s], i) IN
       /\ SimLogs(s, "choice", simAt[s], next)
       /\ simAt' = [simAt EXCEPT ![s] = next]
  /\ UNCHANGED simTree

SimNext ==
  \E s \in Sessions :
    SimStarts(s) \/ SimCompletes(s) \/ SimQuits(s) \/ SimDies(s) \/ SimMistakes(s) \/ SimChooses(s)
=============================================================================
