------------------------------- MODULE TreeBot -------------------------------
(***************************************************************************)
(* telegram_bot_demo/bot.py with engine.py and steplog.py: users send        *)
(* messages and tap the buttons they see, Telegram keeps their updates until *)
(* the bot has confirmed them, and the bot handles one update after another, *)
(* each handler awaiting Telegram's answer to every call it makes.           *)
(*                                                                         *)
(* The bot may crash and be started again, with the same tree or a changed  *)
(* one: USER_STATE is lost, the messages on the users' screens and the log   *)
(* are not, and updates that were delivered but not confirmed are delivered  *)
(* again.  A call to Telegram may fail, its effect made or not.             *)
(*                                                                         *)
(* /restart does what /start does, under its own name in the log, and is     *)
(* left out.  Writing the log never fails here, and its times never go back, *)
(* so that the log of each user is a sequence that sorting does not change.  *)
(*                                                                         *)
(* A definition named Slip... is a mistake a change of bot.py could make, in *)
(* the place of the definition after it.                                    *)
(***************************************************************************)
EXTENDS DecisionTree, FiniteSets

CONSTANTS
  Users,
  Trees,        \* what tree.json may hold when the bot is started
  NoUpdate,
  MaxUpdates,   \* how many updates the users send
  MaxTroubles   \* how often, in all, the bot crashes or a call to Telegram fails

Nodes == {START} \cup UNION {DOMAIN t : t \in Trees}

Messages == [at : Nodes, to : Seq(Nodes)] \cup {Plain}

\* Button `button` of message `msg`, its callback_data "at:button"; a text has neither.
Updates ==
  [user : Users, kind : {"tap"}, msg : Nat, at : Nodes, button : Nat]
  \cup [user : Users, kind : {"start", "text"}, msg : {0}, at : {NoNode}, button : {0}]

ASSUME BotAssumption ==
  /\ \A t \in Trees : t \in [DOMAIN t -> Seq(Nodes)]
  /\ NoNode \notin Nodes /\ NoUpdate \notin Updates
  /\ MaxUpdates \in Nat /\ MaxTroubles \in Nat

VARIABLES
  tree,      \* TREE
  up,        \* whether the bot runs
  state,     \* USER_STATE
  screen,    \* per user, the bot's messages that show a node or once did
  server,    \* updates Telegram keeps, oldest first
  fetched,   \* how many of them the bot has got from it
  inbox,     \* updates the bot has got and not begun to handle
  current,   \* the update whose handler runs
  awaits,    \* the call to Telegram the handler waits for
  shows,     \* the message that call is to bring on the screen
  log,       \* per user, the lines of steps.jsonl
  sent, crashes, failures,  \* how often each has happened
  failed,    \* history: the users a call has failed for
  hasty      \* history: the users of whom two taps of one message were to be handled

telegramVars == <<server, fetched, inbox>>
taskVars == <<current, awaits, shows>>
countVars == <<sent, crashes, failures, failed, hasty>>
botVars == <<tree, up, state, screen, telegramVars, taskVars, log, countVars>>

Moves == {"start", "choice"}
Events ==
  [event : Moves \cup {"invalid_input", "complete"}, node : Nodes, next : Nodes \cup {NoNode}]

TypeOK ==
  /\ tree \in Trees /\ Loads(tree) /\ up \in BOOLEAN
  /\ state \in [Users -> DOMAIN tree \cup {NoNode}]
  /\ screen \in [Users -> Seq(Messages)]
  /\ server \in Seq(Updates) /\ fetched \in 0..Len(server) /\ inbox \in Seq(Updates)
  /\ current \in Updates \cup {NoUpdate}
  /\ awaits \in {"nothing", "answer", "reply", "edit"}
  /\ (awaits = "nothing") = (current = NoUpdate)
  /\ awaits \in {"answer", "edit"} => current.kind = "tap"
  /\ shows \in Messages /\ shows.at \in DOMAIN tree \cup {NoNode}
  /\ current = NoUpdate => shows = Plain
  /\ ~up => state = [u \in Users |-> NoNode] /\ current = NoUpdate
  /\ log \in [Users -> Seq(Events)]
  /\ sent \in Nat /\ crashes \in Nat /\ failures \in Nat
  /\ failed \subseteq Users /\ hasty \subseteq Users

Line(e, n, x) == [event |-> e, node |-> n, next |-> x]

\* Where the last session of a log has come to.
MovesOf(l) == {i \in DOMAIN l : l[i].event \in Moves}
LastMove(l) == CHOOSE i \in MovesOf(l) : \A j \in MovesOf(l) : j <= i
Goal(e) == IF e.event = "choice" THEN e.next ELSE e.node
Where(l) == IF MovesOf(l) = {} THEN NoNode ELSE Goal(l[LastMove(l)])

Init ==
  /\ tree \in {t \in Trees : Loads(t)} /\ up = TRUE
  /\ state = [u \in Users |-> NoNode]
  /\ screen = [u \in Users |-> <<>>]
  /\ server = <<>> /\ fetched = 0 /\ inbox = <<>>
  /\ current = NoUpdate /\ awaits = "nothing" /\ shows = Plain
  /\ log = [u \in Users |-> <<>>]
  /\ sent = 0 /\ crashes = 0 /\ failures = 0 /\ failed = {} /\ hasty = {}

-----------------------------------------------------------------------------
(* The users, and Telegram *)

Unfetched == SubSeq(server, fetched + 1, Len(server))

\* u has tapped a button of message m, and that tap is not done with.
TapPending(u, m) ==
  \E q \in Range(Unfetched) \cup Range(inbox) \cup ({current} \ {NoUpdate}) :
    q.user = u /\ q.kind = "tap" /\ q.msg = m

Send(q) ==
  /\ sent < MaxUpdates /\ sent' = sent + 1
  /\ server' = Append(server, q)
  /\ UNCHANGED <<tree, up, state, screen, fetched, inbox, taskVars, log, crashes, failures, failed>>

Writes(u, k) ==
  /\ Send([user |-> u, kind |-> k, msg |-> 0, at |-> NoNode, button |-> 0])
  /\ UNCHANGED hasty

Taps(u, m, b) ==
  /\ b < Len(screen[u][m].to)
  /\ Send([user |-> u, kind |-> "tap", msg |-> m, at |-> screen[u][m].at, button |-> b])
  /\ hasty' = IF TapPending(u, m) THEN hasty \cup {u} ELSE hasty

UserStep(u) ==
  \/ \E k \in {"start", "text"} : Writes(u, k)
  \/ \E m \in DOMAIN screen[u] : \E b \in 0..(Len(screen[u][m].to) - 1) : Taps(u, m, b)

\* get_updates of run_polling: it confirms what it brought before, and brings the rest.
Fetch ==
  /\ up /\ server # <<>>
  /\ server' = Unfetched /\ fetched' = Len(Unfetched)
  /\ inbox' = inbox \o Unfetched
  /\ UNCHANGED <<tree, up, state, screen, taskVars, log, countVars>>

-----------------------------------------------------------------------------
(* The handlers, each up to its next await *)

User == current.user

Begins(q) ==
  /\ up /\ current = NoUpdate
  /\ inbox' = Tail(inbox)
  /\ current' = q
  /\ UNCHANGED <<tree, up, screen, server, fetched, countVars>>

\* The handler goes on to a call that is to show m, or is done.
Awaits(call, m) == awaits' = call /\ shows' = m /\ UNCHANGED current
Done == current' = NoUpdate /\ awaits' = "nothing" /\ shows' = Plain

Logs(u, e) == log' = [log EXCEPT ![u] = Append(@, e)]

\* Slip: only a user who is nowhere is put at the root.
SlipStartBegins(q) ==
  /\ Begins(q) /\ q.kind = "start"
  /\ state' = [state EXCEPT ![q.user] = IF @ = NoNode THEN START ELSE @]
  /\ Logs(q.user, Line("start", START, NoNode))
  /\ awaits' = "reply" /\ shows' = Render(tree, START)

\* start
StartBegins(q) ==
  /\ Begins(q) /\ q.kind = "start"
  /\ state' = [state EXCEPT ![q.user] = START]
  /\ Logs(q.user, Line("start", START, NoNode))
  /\ awaits' = "reply" /\ shows' = Render(tree, START)

\* handle_stray_text
TextBegins(q) ==
  /\ Begins(q) /\ q.kind = "text"
  /\ Logs(q.user, Line("invalid_input", IF state[q.user] = NoNode THEN START ELSE state[q.user], NoNode))
  /\ awaits' = "reply" /\ shows' = Plain
  /\ UNCHANGED state

\* handle_choice, up to the answer of the callback query.
TapBegins(q) ==
  /\ Begins(q) /\ q.kind = "tap"
  /\ awaits' = "answer" /\ shows' = Plain
  /\ UNCHANGED <<state, log>>

TapAnswered ==
  /\ awaits = "answer"
  /\ UNCHANGED <<tree, up, screen, telegramVars, countVars>>

\* The guard against a button of a node the user has left.
TapStale ==
  /\ TapAnswered /\ state[User] # current.at
  /\ Logs(User, Line("invalid_input", current.at, NoNode))
  /\ Awaits("edit", Plain) /\ UNCHANGED state

\* An option the node has not got in this tree.
TapBad ==
  /\ TapAnswered /\ state[User] = current.at
  /\ Resolve(tree, current.at, current.button) = NoNode
  /\ Logs(User, Line("invalid_input", current.at, NoNode))
  /\ Awaits("edit", Plain) /\ UNCHANGED state

\* Slip: whichever node the user is at, the button is acted on.
SlipTapChooses ==
  LET next == Resolve(tree, current.at, current.button) IN
  /\ TapAnswered /\ current.at \in DOMAIN tree /\ next # NoNode
  /\ Logs(User, Line("choice", current.at, next))
  /\ state' = [state EXCEPT ![User] = next]
  /\ Awaits("edit", Render(tree, next))

\* Slip: the message shows again the node that was left.
SlipTapShows ==
  LET next == Resolve(tree, current.at, current.button) IN
  /\ TapAnswered /\ state[User] = current.at /\ next # NoNode
  /\ Logs(User, Line("choice", current.at, next))
  /\ state' = [state EXCEPT ![User] = next]
  /\ Awaits("edit", Render(tree, current.at))

TapChooses ==
  LET next == Resolve(tree, current.at, current.button) IN
  /\ TapAnswered /\ state[User] = current.at /\ next # NoNode
  /\ Logs(User, Line("choice", current.at, next))
  /\ state' = [state EXCEPT ![User] = next]
  /\ Awaits("edit", Render(tree, next))

\* What is on the screens once the call is made.
Made ==
  CASE awaits = "reply" /\ current.kind # "text" -> [screen EXCEPT ![User] = Append(@, shows)]
    [] awaits = "edit" -> [screen EXCEPT ![User][current.msg] = shows]
    [] OTHER -> screen

Replied ==
  /\ awaits = "reply" /\ screen' = Made /\ Done
  /\ UNCHANGED <<tree, up, state, telegramVars, log, countVars>>

\* Slip: reaching a leaf is not logged.
SlipEditedSilently ==
  /\ awaits = "edit" /\ screen' = Made /\ Done
  /\ UNCHANGED <<tree, up, state, telegramVars, log, countVars>>

\* Slip: the handler waits for the edit again.
SlipEditedAgain ==
  /\ awaits = "edit" /\ screen' = Made
  /\ UNCHANGED <<tree, up, state, telegramVars, taskVars, log, countVars>>

Edited ==
  /\ awaits = "edit" /\ screen' = Made /\ Done
  /\ IF shows.at # NoNode /\ IsLeaf(tree, shows.at)
       THEN Logs(User, Line("complete", shows.at, NoNode))
       ELSE UNCHANGED log
  /\ UNCHANGED <<tree, up, state, telegramVars, countVars>>

\* The call raises, its effect made or not; the handler ends there.
CallFails ==
  /\ awaits # "nothing"
  /\ crashes + failures < MaxTroubles /\ failures' = failures + 1
  /\ screen' \in {screen, Made}
  /\ failed' = failed \cup {User}
  /\ Done
  /\ UNCHANGED <<tree, up, state, telegramVars, log, sent, crashes, hasty>>

-----------------------------------------------------------------------------

\* The users of whom Telegram keeps two taps of one message, the first handled or not.
TappedTwice ==
  {u \in Users : \E i, j \in DOMAIN server :
     i < j /\ server[i].user = u /\ server[i].kind = "tap" /\ server[j].user = u
           /\ server[j].kind = "tap" /\ server[i].msg = server[j].msg}

\* Slip: USER_STATE outlives the process.
SlipCrash ==
  /\ up /\ up' = FALSE
  /\ crashes + failures < MaxTroubles /\ crashes' = crashes + 1
  /\ inbox' = <<>> /\ fetched' = 0
  /\ screen' \in {screen, Made}
  /\ hasty' = hasty \cup TappedTwice
  /\ Done
  /\ UNCHANGED <<tree, state, server, log, sent, failures, failed>>

\* The process ends, in whatever it was doing.
Crash ==
  /\ up /\ up' = FALSE
  /\ crashes + failures < MaxTroubles /\ crashes' = crashes + 1
  /\ state' = [u \in Users |-> NoNode]
  /\ inbox' = <<>> /\ fetched' = 0
  /\ screen' \in {screen, Made}
  /\ hasty' = hasty \cup TappedTwice
  /\ Done
  /\ UNCHANGED <<tree, server, log, sent, failures, failed>>

\* The module is loaded again; a tree that load_tree refuses ends it at once.
Boots ==
  /\ ~up /\ up' = TRUE
  /\ tree' \in {t \in Trees : Loads(t)}
  /\ UNCHANGED <<state, screen, telegramVars, taskVars, log, countVars>>

HandlerBegins ==
  inbox # <<>> /\ LET q == Head(inbox) IN StartBegins(q) \/ TextBegins(q) \/ TapBegins(q)
HandlerGoesOn == TapStale \/ TapBad \/ TapChooses \/ Replied \/ Edited \/ CallFails

BotNext ==
  \/ \E u \in Users : UserStep(u)
  \/ Fetch \/ HandlerBegins \/ HandlerGoesOn \/ Crash \/ Boots

BotSpec == Init /\ [][BotNext]_botVars

-----------------------------------------------------------------------------

\* bot.py:42: what the process remembers of a user agrees with what it has logged, after
\* any crash, redelivery or failed call: the user is where the last session in the log
\* has come to.
StateIsLogged == \A u \in Users : state[u] # NoNode => state[u] = Where(log[u])

\* What the next line of a log may be: a session starts at the root; a choice goes on, by
\* an option of the tree, from where the session is; the end is logged once, at the leaf
\* the line before has led to.
Follows(l, e) ==
  CASE e.event = "start" -> e.node = START
    [] e.event = "choice" -> e.node = Where(l) /\ e.next \in Range(tree[e.node])
    [] e.event = "complete" ->
         l # <<>> /\ IsLeaf(tree, e.node) /\ l[Len(l)].event = "choice" /\ l[Len(l)].next = e.node
    [] OTHER -> TRUE

\* bot.py:10, 69: the log of a user only grows, and every line follows from those before
\* it, whichever buttons of whichever messages are tapped, and whatever is delivered twice.
StepsFollow ==
  [][\A u \in Users : log'[u] # log[u] =>
       \E e \in Events : log'[u] = Append(log[u], e) /\ Follows(log[u], e)]_botVars

\* bot.py:98: who is told to choose one of the options above has them above.  A user at a
\* node with options, when no handler is about to show it, has a message that shows it;
\* unless a call failed, or two taps of one message were to be handled: the second came
\* before the first was handled, or a crash has both delivered again.
NudgeHasButtons ==
  \A u \in Users :
    /\ state[u] # NoNode /\ ~IsLeaf(tree, state[u]) /\ u \notin failed \cup hasty
    /\ current = NoUpdate \/ current.user # u \/ current.kind = "text"
    => \E m \in DOMAIN screen[u] : screen[u][m] = Render(tree, state[u])

\* bot.py:115: while the bot runs, every update it is sent is handled in the end.
SettlesAtLast == <>[](~up \/ (Unfetched = <<>> /\ inbox = <<>> /\ current = NoUpdate))

\* Whether the last session of a log has been logged to its end.
HasEnd(l) == \E i \in DOMAIN l : i > LastMove(l) /\ l[i].event = "complete"

\* bot.py:10: every meaningful step is logged, reaching a leaf included, though that is
\* logged only after the message shows it: a user whom a choice has led to a leaf, with
\* no handler about to show it, has the end of the session in the log; unless a call
\* failed, which leaves the end out of it.
LeafIsLogged ==
  \A u \in Users \ failed :
    /\ state[u] \notin {NoNode, START} /\ IsLeaf(tree, state[u])
    /\ awaits = "edit" /\ User = u => shows.at # state[u]
    => HasEnd(log[u])
=============================================================================
