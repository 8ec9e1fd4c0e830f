----------------------------- MODULE BotAnalysis -----------------------------
(***************************************************************************)
(* The bot, simulated sessions beside it, and the funnel of the log they    *)
(* all write, at any moment of their running.  No simulated session has the *)
(* id of a user of the bot.                                                 *)
(***************************************************************************)
EXTENDS TreeBot, Simulator, Funnel

ASSUME AnalysisAssumption ==
  /\ Users \cap Sessions = {} /\ IsFiniteSet(Users) /\ IsFiniteSet(Sessions)
  /\ \A t \in SimTrees : Loads(t) => t \in [DOMAIN t -> Seq(DOMAIN t)]

allVars == <<botVars, simVars>>

AllInit == Init /\ SimInit

AllNext ==
  \/ BotNext /\ UNCHANGED simVars
  \/ SimNext /\ UNCHANGED botVars

AllSpec == AllInit /\ [][AllNext]_allVars

\* The event loop polls and runs its handlers, and every call to Telegram returns or
\* raises.  Nobody need send anything, or start the bot again, or go on with a session.
AllFairSpec ==
  AllSpec /\ WF_allVars(Fetch /\ UNCHANGED simVars)
          /\ WF_allVars(HandlerBegins /\ UNCHANGED simVars)
          /\ WF_allVars(HandlerGoesOn /\ UNCHANGED simVars)

\* steps.jsonl, by user.
logs == [u \in Users \cup Sessions |-> IF u \in Users THEN log[u] ELSE simLog[u]]

\* analyze.py:3: the funnel of a log says where its users are.  While no call has failed
\* and the bot has not crashed, the dropped of a node are the users the bot has there,
\* but at a leaf those only whose message does not yet show it or whom start has put
\* there, and the simulated sessions whose last step was there; users who have started
\* again count for their last session.
FunnelShowsUsers ==
  crashes = 0 /\ failures = 0 =>
    \A n \in Nodes :
      Dropped(logs, n) =
        Cardinality({u \in Users :
                       /\ state[u] = n
                       /\ IsLeaf(tree, n) => n = START \/ (awaits = "edit" /\ User = u /\ shows.at = n)})
        + Cardinality({s \in Sessions : Where(simLog[s]) = n /\ simLog[s][Len(simLog[s])].event # "complete"})

\* analyze.py:3: of the visits to a node, each went on to another or to its end, or was
\* dropped there, whatever the log of a crash, a redelivery or a failed call looks like.
FunnelBalances ==
  \A n \in Nodes : Reached(logs, n) = Completed(logs, n) + Dropped(logs, n)
=============================================================================
