---------------------------- MODULE TreeBot_proofs ----------------------------
(***************************************************************************)
(* For any users, any trees and any number of updates, crashes and failed   *)
(* calls: what the bot remembers of a user agrees with what it has logged,   *)
(* no line of the log is out of order, and who is to choose has the buttons. *)
(***************************************************************************)
EXTENDS TreeBot, WellFoundedInduction, TLAPS

USE DEF telegramVars, taskVars, countVars, botVars

-----------------------------------------------------------------------------
(* Trees, messages and updates *)

\* An option of a tree leads to a node of it, or is none.
LEMMA ResolveType ==
  ASSUME NEW t \in Trees, Loads(t), NEW n \in DOMAIN t, NEW b \in Nat
  PROVE  Resolve(t, n, b) # NoNode => Resolve(t, n, b) \in Range(t[n]) /\ Resolve(t, n, b) \in DOMAIN t
<1>1. t[n] \in Seq(Nodes) /\ DOMAIN t \subseteq Nodes
  BY BotAssumption DEF Nodes
<1>2. CASE b < Len(t[n])
  <2>1. b + 1 \in DOMAIN t[n]
    BY <1>1, <1>2
  <2>2. t[n][b + 1] \in Range(t[n])
    BY <2>1 DEF Range
  <2> QED
    BY <1>2, <2>2 DEF Resolve, Loads
<1>3. CASE ~(b < Len(t[n]))
  BY <1>3 DEF Resolve
<1> QED
  BY <1>2, <1>3

\* What render_node returns is a message.
LEMMA RenderType ==
  ASSUME NEW t \in Trees, NEW n \in DOMAIN t
  PROVE  Render(t, n) \in Messages /\ Render(t, n).at = n /\ n \in Nodes
<1>1. t[n] \in Seq(Nodes) /\ n \in Nodes
  BY BotAssumption DEF Nodes
<1> QED
  BY <1>1 DEF Render, Messages

LEMMA PlainType == Plain \in Messages /\ Plain.at = NoNode
  BY DEF Plain, Messages

\* What an update names.
LEMMA UpdateType ==
  ASSUME NEW q \in Updates
  PROVE  /\ q.user \in Users /\ q.kind \in {"start", "text", "tap"} /\ q # NoUpdate
         /\ q.kind = "tap" => q.at \in Nodes /\ q.button \in Nat
  BY BotAssumption DEF Updates

LEMMA ExceptType ==
  ASSUME NEW S, NEW s \in Seq(S), NEW i, NEW x \in S
  PROVE  [s EXCEPT ![i] = x] \in Seq(S)
<1> DEFINE e == [s EXCEPT ![i] = x]
<1>1. Len(s) \in Nat /\ s \in [1..Len(s) -> S]
  OBVIOUS
<1>2. e \in [1..Len(s) -> S]
  BY <1>1
<1>3. e \in Seq(S)
  BY <1>1, <1>2
<1> QED
  BY <1>3

\* What is on the screens when a call is made is a message, and only the user's own
\* screen is another then.
LEMMA MadeType == TypeOK => Made \in [Users -> Seq(Messages)]
<1> SUFFICES ASSUME TypeOK PROVE Made \in [Users -> Seq(Messages)]
  OBVIOUS
<1>1. screen \in [Users -> Seq(Messages)] /\ shows \in Messages
  BY DEF TypeOK
<1>2. CASE awaits = "reply" /\ current.kind # "text"
  <2>1. Made = [screen EXCEPT ![User] = Append(screen[User], shows)]
    BY <1>2 DEF Made
  <2>2. current \in Updates
    BY <1>2 DEF TypeOK
  <2>3. User \in Users
    BY <2>2, UpdateType DEF User
  <2>4. Append(screen[User], shows) \in Seq(Messages)
    BY <1>1, <2>3
  <2> QED
    BY <1>1, <2>1, <2>3, <2>4
<1>3. CASE awaits = "edit"
  <2>1. Made = [screen EXCEPT ![User][current.msg] = shows]
    BY <1>3 DEF Made
  <2>2. current \in Updates
    BY <1>3 DEF TypeOK
  <2>3. User \in Users
    BY <2>2, UpdateType DEF User
  <2>4. [screen[User] EXCEPT ![current.msg] = shows] \in Seq(Messages)
    BY <1>1, <2>3, ExceptType
  <2> QED
    BY <1>1, <2>1, <2>3, <2>4
<1>4. CASE ~(awaits = "reply" /\ current.kind # "text") /\ awaits # "edit"
  BY <1>1, <1>4 DEF Made
<1> QED
  BY <1>2, <1>3, <1>4

\* A line appended to the log of a user leaves it a log.
LEMMA LogsType ==
  ASSUME log \in [Users -> Seq(Events)], NEW u \in Users, NEW e \in Events, Logs(u, e)
  PROVE  log' \in [Users -> Seq(Events)]
  BY DEF Logs

-----------------------------------------------------------------------------
(* Type correctness *)

LEMMA InitType == Init => TypeOK
<1> SUFFICES ASSUME Init PROVE TypeOK
  OBVIOUS
<1>1. awaits = "nothing" /\ current = NoUpdate /\ shows = Plain
  BY DEF Init
<1> QED
  BY <1>1, PlainType DEF Init, TypeOK

LEMMA UserStepType == ASSUME TypeOK, NEW u \in Users, UserStep(u) PROVE TypeOK'
<1>1. \A q \in Updates : Send(q) /\ hasty' \subseteq Users => TypeOK'
  BY DEF TypeOK, Send
<1>2. ASSUME NEW k \in {"start", "text"}, Writes(u, k) PROVE TypeOK'
  <2>1. [user |-> u, kind |-> k, msg |-> 0, at |-> NoNode, button |-> 0] \in Updates
    BY DEF Updates
  <2> QED
    BY <1>1, <1>2, <2>1 DEF Writes, TypeOK
<1>3. ASSUME NEW m \in DOMAIN screen[u], NEW b \in 0..(Len(screen[u][m].to) - 1), Taps(u, m, b)
      PROVE  TypeOK'
  <2>1. screen[u] \in Seq(Messages) /\ m \in Nat
    BY DEF TypeOK
  <2>2. screen[u][m] \in Messages
    BY <2>1
  <2>3. screen[u][m] # Plain
    BY <1>3 DEF Taps, Plain
  <2>4. screen[u][m].at \in Nodes /\ screen[u][m].to \in Seq(Nodes)
    BY <2>2, <2>3 DEF Messages
  <2>5. [user |-> u, kind |-> "tap", msg |-> m, at |-> screen[u][m].at, button |-> b] \in Updates
    BY <2>1, <2>4 DEF Updates
  <2> QED
    BY <1>1, <1>3, <2>5 DEF Taps, TypeOK
<1> QED
  BY <1>2, <1>3 DEF UserStep

LEMMA FetchType == TypeOK /\ Fetch => TypeOK'
<1> SUFFICES ASSUME TypeOK, Fetch PROVE TypeOK'
  OBVIOUS
<1>1. server \in Seq(Updates) /\ inbox \in Seq(Updates) /\ fetched \in 0..Len(server)
  BY DEF TypeOK
<1>2. Unfetched \in Seq(Updates)
  BY <1>1 DEF Unfetched
<1>3. server' \in Seq(Updates) /\ fetched' \in 0..Len(server') /\ inbox' \in Seq(Updates)
  BY <1>1, <1>2 DEF Fetch
<1> QED
  BY <1>3 DEF TypeOK, Fetch

\* What taking the next update off the inbox leaves of the types.
LEMMA BeginsType ==
  ASSUME TypeOK, inbox # <<>>, NEW q, q = Head(inbox), Begins(q)
  PROVE  /\ q \in Updates /\ inbox' \in Seq(Updates) /\ current' = q /\ q # NoUpdate /\ up' = TRUE
         /\ UNCHANGED <<tree, up, screen, server, fetched, countVars>>
<1>1. q \in Updates /\ Tail(inbox) \in Seq(Updates)
  BY DEF TypeOK
<1> QED
  BY <1>1, UpdateType DEF Begins, TypeOK

LEMMA HandlerBeginsType == TypeOK /\ HandlerBegins => TypeOK'
<1> SUFFICES ASSUME TypeOK, HandlerBegins PROVE TypeOK'
  OBVIOUS
<1> DEFINE q == Head(inbox)
<1>1. inbox # <<>> /\ (StartBegins(q) \/ TextBegins(q) \/ TapBegins(q))
  BY DEF HandlerBegins
<1>2. Begins(q)
  BY <1>1 DEF StartBegins, TextBegins, TapBegins
<1>3. /\ q \in Updates /\ inbox' \in Seq(Updates) /\ current' = q /\ q # NoUpdate /\ up' = TRUE
      /\ UNCHANGED <<tree, up, screen, server, fetched, countVars>>
  BY <1>1, <1>2, BeginsType
<1>4. q.user \in Users /\ (q.kind = "tap" => q.at \in Nodes)
  BY <1>3, UpdateType
<1>5. /\ tree \in Trees /\ Loads(tree) /\ START \in DOMAIN tree /\ START \in Nodes
      /\ state \in [Users -> DOMAIN tree \cup {NoNode}] /\ log \in [Users -> Seq(Events)]
      /\ DOMAIN tree \subseteq Nodes
  BY DEF TypeOK, Loads, Nodes
<1> HIDE DEF q
<1>6. CASE StartBegins(q)
  <2>1. Line("start", START, NoNode) \in Events
    BY <1>5 DEF Line, Events, Moves
  <2>2. log' \in [Users -> Seq(Events)]
    BY <1>4, <1>5, <1>6, <2>1, LogsType DEF StartBegins
  <2>3. state' \in [Users -> DOMAIN tree \cup {NoNode}]
    BY <1>4, <1>5, <1>6 DEF StartBegins
  <2>4. awaits' = "reply" /\ shows' \in Messages /\ shows'.at = START
    BY <1>5, <1>6, RenderType DEF StartBegins
  <2> QED
    BY <1>3, <1>5, <2>2, <2>3, <2>4 DEF TypeOK
<1>7. CASE TextBegins(q)
  <2>1. Line("invalid_input", IF state[q.user] = NoNode THEN START ELSE state[q.user], NoNode) \in Events
    BY <1>4, <1>5 DEF Line, Events, Moves
  <2>2. log' \in [Users -> Seq(Events)]
    BY <1>4, <1>5, <1>7, <2>1, LogsType DEF TextBegins
  <2>3. awaits' = "reply" /\ shows' \in Messages /\ shows'.at = NoNode /\ state' = state
    BY <1>7, PlainType DEF TextBegins
  <2> QED
    BY <1>3, <1>5, <2>2, <2>3 DEF TypeOK
<1>8. CASE TapBegins(q)
  <2>1. awaits' = "answer" /\ shows' \in Messages /\ shows'.at = NoNode /\ UNCHANGED <<state, log>>
    BY <1>8, PlainType DEF TapBegins
  <2>2. current'.kind = "tap"
    BY <1>3, <1>8 DEF TapBegins
  <2> QED
    BY <1>3, <1>5, <2>1, <2>2 DEF TypeOK
<1> QED
  BY <1>1, <1>6, <1>7, <1>8

\* The update that is being handled, while an answer or an edit is awaited.
LEMMA TapType ==
  ASSUME TypeOK, awaits \in {"answer", "edit"}
  PROVE  /\ current \in Updates /\ current # NoUpdate /\ current.kind = "tap" /\ User \in Users
         /\ current.at \in Nodes /\ current.button \in Nat /\ up
<1>1. current \in Updates /\ current # NoUpdate /\ current.kind = "tap" /\ up
  BY DEF TypeOK
<1> QED
  BY <1>1, UpdateType DEF User

\* A tap that is refused.
LEMMA TapRefusedType == TypeOK /\ (TapStale \/ TapBad) => TypeOK'
<1> SUFFICES ASSUME TypeOK, TapStale \/ TapBad PROVE TypeOK'
  OBVIOUS
<1>1. /\ awaits = "answer" /\ Logs(User, Line("invalid_input", current.at, NoNode))
      /\ awaits' = "edit" /\ shows' = Plain /\ UNCHANGED <<current, state>>
      /\ UNCHANGED <<tree, up, screen, telegramVars, countVars>>
  BY DEF TapStale, TapBad, TapAnswered, Awaits
<1>2. current \in Updates /\ current # NoUpdate /\ current.kind = "tap" /\ User \in Users /\ current.at \in Nodes /\ up
  BY <1>1, TapType
<1>3. Line("invalid_input", current.at, NoNode) \in Events
  BY <1>2 DEF Line, Events, Moves
<1>4. log' \in [Users -> Seq(Events)]
  BY <1>1, <1>2, <1>3, LogsType DEF TypeOK
<1> QED
  BY <1>1, <1>2, <1>4, PlainType DEF TypeOK

\* A tap that is acted on: the user goes to a node of the tree.
LEMMA ChoiceFacts ==
  ASSUME TypeOK, TapChooses, NEW next, next = Resolve(tree, current.at, current.button)
  PROVE  /\ awaits = "answer" /\ next \in DOMAIN tree /\ next \in Range(tree[current.at])
         /\ state[User] = current.at /\ User \in Users /\ current.at \in DOMAIN tree /\ current.kind = "tap"
         /\ current # NoUpdate /\ up
         /\ Logs(User, Line("choice", current.at, next)) /\ Line("choice", current.at, next) \in Events
         /\ state' = [state EXCEPT ![User] = next]
         /\ awaits' = "edit" /\ shows' = Render(tree, next) /\ UNCHANGED current
         /\ UNCHANGED <<tree, up, screen, telegramVars, countVars>>
<1>1. /\ awaits = "answer" /\ state[User] = current.at /\ next # NoNode
      /\ Logs(User, Line("choice", current.at, next)) /\ state' = [state EXCEPT ![User] = next]
      /\ awaits' = "edit" /\ shows' = Render(tree, next) /\ UNCHANGED current
      /\ UNCHANGED <<tree, up, screen, telegramVars, countVars>>
  BY DEF TapChooses, TapAnswered, Awaits
<1>2. /\ current.kind = "tap" /\ User \in Users /\ current.at \in Nodes /\ current.button \in Nat /\ up
      /\ current # NoUpdate
  BY <1>1, TapType
<1>3. current.at \in DOMAIN tree
  BY <1>1, <1>2, BotAssumption DEF TypeOK
<1>4. next \in Range(tree[current.at]) /\ next \in DOMAIN tree
  BY <1>1, <1>2, <1>3, ResolveType DEF TypeOK
<1>5. Line("choice", current.at, next) \in Events
  BY <1>2, <1>4 DEF Line, Events, Moves, Nodes, TypeOK
<1> QED
  BY <1>1, <1>2, <1>3, <1>4, <1>5

LEMMA TapChoosesType == TypeOK /\ TapChooses => TypeOK'
<1> SUFFICES ASSUME TypeOK, TapChooses PROVE TypeOK'
  OBVIOUS
<1> DEFINE next == Resolve(tree, current.at, current.button)
<1>1. /\ next \in DOMAIN tree /\ User \in Users /\ current.kind = "tap" /\ current # NoUpdate /\ up
      /\ Logs(User, Line("choice", current.at, next)) /\ Line("choice", current.at, next) \in Events
      /\ state' = [state EXCEPT ![User] = next]
      /\ awaits' = "edit" /\ shows' = Render(tree, next) /\ UNCHANGED current
      /\ UNCHANGED <<tree, up, screen, telegramVars, countVars>>
  BY ChoiceFacts
<1> HIDE DEF next
<1>2. log' \in [Users -> Seq(Events)]
  BY <1>1, LogsType DEF TypeOK
<1>3. state' \in [Users -> DOMAIN tree \cup {NoNode}]
  BY <1>1 DEF TypeOK
<1>4. shows' \in Messages /\ shows'.at = next
  BY <1>1, RenderType DEF TypeOK
<1> QED
  BY <1>1, <1>2, <1>3, <1>4 DEF TypeOK

\* A call that is made ends its handler, and may log a line.
LEMMA CallEndsType ==
  ASSUME TypeOK, Done, screen' \in [Users -> Seq(Messages)], log' \in [Users -> Seq(Events)],
         UNCHANGED <<tree, up, state, telegramVars, sent, crashes, hasty>>,
         failed' \subseteq Users, failures' \in Nat
  PROVE  TypeOK'
<1>1. awaits' = "nothing" /\ current' = NoUpdate /\ shows' = Plain
  BY DEF Done
<1> QED
  BY <1>1, PlainType DEF TypeOK

LEMMA EndType ==
  ASSUME TypeOK, shows.at # NoNode
  PROVE  Line("complete", shows.at, NoNode) \in Events
<1>1. shows.at \in DOMAIN tree /\ DOMAIN tree \subseteq Nodes
  BY DEF TypeOK, Nodes
<1> QED
  BY <1>1 DEF Line, Events, Moves

LEMMA HandlerEndsType == TypeOK /\ (Replied \/ Edited \/ CallFails) => TypeOK'
<1> SUFFICES ASSUME TypeOK, Replied \/ Edited \/ CallFails PROVE TypeOK'
  OBVIOUS
<1>1. Made \in [Users -> Seq(Messages)] /\ screen \in [Users -> Seq(Messages)] /\ log \in [Users -> Seq(Events)]
  BY MadeType DEF TypeOK
<1>2. CASE Replied
  <2>1. /\ Done /\ screen' = Made /\ log' = log
        /\ UNCHANGED <<tree, up, state, telegramVars, countVars>>
    BY <1>2 DEF Replied
  <2> QED
    BY <1>1, <2>1, CallEndsType DEF TypeOK
<1>3. CASE Edited
  <2>1. /\ Done /\ screen' = Made /\ awaits = "edit"
        /\ UNCHANGED <<tree, up, state, telegramVars, countVars>>
    BY <1>3 DEF Edited
  <2>2. User \in Users
    BY <2>1, TapType
  <2>3. log' \in [Users -> Seq(Events)]
    BY <1>1, <1>3, <2>2, EndType, LogsType DEF Edited
  <2> QED
    BY <1>1, <2>1, <2>3, CallEndsType DEF TypeOK
<1>4. CASE CallFails
  <2>1. /\ Done /\ screen' \in {screen, Made} /\ log' = log /\ awaits # "nothing"
        /\ failures' = failures + 1 /\ failed' = failed \cup {User}
        /\ UNCHANGED <<tree, up, state, telegramVars, sent, crashes, hasty>>
    BY <1>4 DEF CallFails
  <2>2. current \in Updates
    BY <2>1 DEF TypeOK
  <2>3. failed' \subseteq Users /\ failures' \in Nat
    BY <2>1, <2>2, UpdateType DEF TypeOK, User
  <2> QED
    BY <1>1, <2>1, <2>3, CallEndsType
<1> QED
  BY <1>2, <1>3, <1>4

LEMMA CrashType == TypeOK /\ Crash => TypeOK'
<1> SUFFICES ASSUME TypeOK, Crash PROVE TypeOK'
  OBVIOUS
<1>1. /\ awaits' = "nothing" /\ current' = NoUpdate /\ shows' = Plain
      /\ screen' \in [Users -> Seq(Messages)] /\ state' = [u \in Users |-> NoNode]
  BY MadeType DEF Crash, Done, TypeOK
<1>2. /\ fetched' = 0 /\ inbox' = <<>> /\ up' = FALSE /\ crashes' = crashes + 1
      /\ UNCHANGED <<tree, server, log, sent, failures, failed>>
      /\ hasty' \subseteq Users
  BY DEF Crash, TypeOK, TappedTwice
<1>3. state' \in [Users -> DOMAIN tree \cup {NoNode}]
  BY <1>1
<1>4. fetched' \in 0..Len(server) /\ inbox' \in Seq(Updates)
  BY <1>2 DEF TypeOK
<1>5. (~up => state = [u \in Users |-> NoNode] /\ current = NoUpdate)'
  BY <1>1
<1>6. (tree \in Trees /\ Loads(tree) /\ crashes \in Nat)' /\ up' \in BOOLEAN
  <2>1. up' \in BOOLEAN
    BY <1>2, Zenon
  <2>2. (tree \in Trees /\ Loads(tree))'
    BY <1>2 DEF TypeOK, Loads
  <2>3. crashes' \in Nat
    BY <1>2 DEF TypeOK
  <2> QED
    BY <2>1, <2>2, <2>3
<1> QED
  BY <1>1, <1>2, <1>3, <1>4, <1>5, <1>6, PlainType DEF TypeOK

LEMMA BootsType == TypeOK /\ Boots => TypeOK'
<1> SUFFICES ASSUME TypeOK, Boots PROVE TypeOK'
  OBVIOUS
<1>1. /\ awaits = "nothing" /\ current = NoUpdate /\ shows = Plain /\ state = [u \in Users |-> NoNode]
  BY DEF TypeOK, Boots
<1>2. tree' \in Trees /\ Loads(tree')
  BY DEF Boots
<1> QED
  BY <1>1, <1>2, PlainType DEF TypeOK, Boots

\* The bot keeps its types: the node of a user is one of the tree that is loaded, so that
\* get_node finds it, through any crash and any change of tree.json.
THEOREM TypeCorrect == BotSpec => []TypeOK
<1>1. TypeOK /\ [BotNext]_botVars => TypeOK'
  <2> SUFFICES ASSUME TypeOK, [BotNext]_botVars PROVE TypeOK'
    OBVIOUS
  <2>1. CASE \E u \in Users : UserStep(u)
    BY <2>1, UserStepType
  <2>2. CASE Fetch
    BY <2>2, FetchType
  <2>3. CASE HandlerBegins
    BY <2>3, HandlerBeginsType
  <2>4. CASE HandlerGoesOn
    BY <2>4, TapRefusedType, TapChoosesType, HandlerEndsType DEF HandlerGoesOn
  <2>5. CASE Crash
    BY <2>5, CrashType
  <2>6. CASE Boots
    BY <2>6, BootsType
  <2>7. CASE UNCHANGED botVars
    BY <2>7 DEF TypeOK
  <2> QED
    BY <2>1, <2>2, <2>3, <2>4, <2>5, <2>6, <2>7 DEF BotNext
<1> QED
  BY InitType, <1>1, PTL DEF BotSpec

-----------------------------------------------------------------------------
(* What a log says *)

\* A set of numbers up to n has a largest.
LEMMA LargestExists ==
  ASSUME NEW n \in Nat, NEW S, S \subseteq 1..n, S # {}
  PROVE  \E i \in S : \A j \in S : j <= i
<1> DEFINE T == {n - i : i \in S}
<1>1. T \subseteq Nat /\ T # {}
  <2>1. \A i \in S : i \in 1..n /\ n - i \in Nat
    OBVIOUS
  <2> QED
    BY <2>1
<1>2. PICK x \in T : \A y \in T : ~(<<y, x>> \in OpToRel(<, Nat))
  BY <1>1, WFMin, NatLessThanWellFounded
<1>3. \A y \in T : ~(y < x)
  BY <1>1, <1>2 DEF OpToRel
<1>4. PICK i \in S : x = n - i
  BY <1>2
<1>5. ASSUME NEW j \in S PROVE j <= i
  <2>1. n - j \in T
    OBVIOUS
  <2>2. ~(n - j < n - i)
    BY <1>3, <1>4, <2>1
  <2> QED
    BY <2>2
<1> QED
  BY <1>5

\* The last move of a log that has one.
LEMMA LastMoveType ==
  ASSUME NEW S, NEW l \in Seq(S), MovesOf(l) # {}
  PROVE  LastMove(l) \in 1..Len(l) /\ LastMove(l) \in MovesOf(l) /\ \A j \in MovesOf(l) : j <= LastMove(l)
<1>1. MovesOf(l) \subseteq 1..Len(l) /\ Len(l) \in Nat
  BY DEF MovesOf
<1>2. \E i \in MovesOf(l) : \A j \in MovesOf(l) : j <= i
  BY <1>1, LargestExists
<1> QED
  BY <1>1, <1>2 DEF LastMove

\* Where a log has come to after one more line.
LEMMA WhereAppend ==
  ASSUME NEW S, NEW l \in Seq(S), NEW e \in S
  PROVE  Where(Append(l, e)) = IF e.event \in Moves THEN Goal(e) ELSE Where(l)
<1> DEFINE m == Append(l, e)
           n == Len(l) + 1
<1>1. /\ m \in Seq(S) /\ Len(l) \in Nat /\ DOMAIN m = 1..n /\ DOMAIN l = 1..Len(l) /\ Len(m) = n
      /\ m[n] = e /\ \A i \in 1..Len(l) : m[i] = l[i]
  OBVIOUS
<1> HIDE DEF m
<1>2. CASE e.event \in Moves
  <2>1. n \in MovesOf(m) /\ n \in Nat
    BY <1>1, <1>2 DEF MovesOf
  <2>2. LastMove(m) = n
    BY <1>1, <2>1, LastMoveType
  <2> QED
    BY <1>1, <1>2, <2>1, <2>2 DEF Where, m
<1>3. CASE e.event \notin Moves
  <2>1. MovesOf(m) = MovesOf(l)
    BY <1>1, <1>3 DEF MovesOf
  <2>2. LastMove(m) = LastMove(l)
    BY <2>1 DEF LastMove
  <2>3. MovesOf(l) # {} => m[LastMove(l)] = l[LastMove(l)]
    BY <1>1, LastMoveType
  <2> QED
    BY <1>3, <2>1, <2>2, <2>3 DEF Where, m
<1> QED
  BY <1>2, <1>3

\* What one more line makes of the logs.
LEMMA LogsFacts ==
  ASSUME log \in [Users -> Seq(Events)], NEW u \in Users, NEW e \in Events, Logs(u, e)
  PROVE  /\ log'[u] = Append(log[u], e) /\ \A v \in Users : v # u => log'[v] = log[v]
         /\ Where(log'[u]) = IF e.event \in Moves THEN Goal(e) ELSE Where(log[u])
<1>1. log'[u] = Append(log[u], e) /\ \A v \in Users : v # u => log'[v] = log[v]
  BY DEF Logs
<1> QED
  BY <1>1, WhereAppend

LEMMA LastAppended ==
  ASSUME NEW l \in Seq(Events), NEW e \in Events
  PROVE  LET m == Append(l, e) IN m # <<>> /\ m[Len(m)] = e
  OBVIOUS

\* While a choice is being shown, it is the last line of its user's log.
ShownIsLogged ==
  awaits = "edit" /\ shows.at # NoNode
  => LET l == log[User] IN l # <<>> /\ l[Len(l)].event = "choice" /\ l[Len(l)].next = shows.at

LogInv == StateIsLogged /\ ShownIsLogged

\* A line that is no move leaves the users where they were.
LEMMA AsideKeepsState ==
  ASSUME TypeOK, StateIsLogged, NEW u \in Users, NEW e \in Events, Logs(u, e), e.event \notin Moves,
         state' = state
  PROVE  StateIsLogged'
<1>1. \A v \in Users : Where(log'[v]) = Where(log[v])
  BY LogsFacts DEF TypeOK
<1> QED
  BY <1>1 DEF StateIsLogged

\* A move takes its user along.
LEMMA MoveKeepsState ==
  ASSUME TypeOK, StateIsLogged, NEW u \in Users, NEW e \in Events, Logs(u, e), e.event \in Moves,
         state' = [state EXCEPT ![u] = Goal(e)]
  PROVE  StateIsLogged'
<1>1. Where(log'[u]) = Goal(e) /\ \A v \in Users : v # u => log'[v] = log[v]
  BY LogsFacts DEF TypeOK
<1>2. state'[u] = Goal(e) /\ \A v \in Users : v # u => state'[v] = state[v]
  BY DEF TypeOK
<1> QED
  BY <1>1, <1>2 DEF StateIsLogged

\* What the beginning of a handler logs, and where it leaves its user.
LEMMA BeginsLog ==
  ASSUME TypeOK, HandlerBegins, NEW q, q = Head(inbox)
  PROVE  /\ q \in Updates /\ q.user \in Users /\ awaits' \in {"reply", "answer"} /\ inbox # <<>>
         /\ \/ /\ StartBegins(q) /\ Logs(q.user, Line("start", START, NoNode))
               /\ Line("start", START, NoNode) \in Events
               /\ state' = [state EXCEPT ![q.user] = START]
            \/ \E n \in Nodes : /\ TextBegins(q) /\ Logs(q.user, Line("invalid_input", n, NoNode))
                                /\ Line("invalid_input", n, NoNode) \in Events /\ state' = state
            \/ TapBegins(q) /\ UNCHANGED <<state, log>>
<1>1. inbox # <<>> /\ (StartBegins(q) \/ TextBegins(q) \/ TapBegins(q))
  BY DEF HandlerBegins
<1>2. q \in Updates /\ q.user \in Users
  BY <1>1, UpdateType DEF TypeOK
<1>3. START \in Nodes /\ state[q.user] \in Nodes \cup {NoNode}
  <2>1. START \in Nodes /\ DOMAIN tree \subseteq Nodes
    BY DEF TypeOK, Nodes
  <2> QED
    BY <1>2, <2>1 DEF TypeOK
<1>4. CASE StartBegins(q)
  BY <1>1, <1>2, <1>3, <1>4 DEF StartBegins, Line, Events, Moves
<1>5. CASE TextBegins(q)
  <2> DEFINE n == IF state[q.user] = NoNode THEN START ELSE state[q.user]
  <2>1. n \in Nodes
    BY <1>3
  <2>2. Line("invalid_input", n, NoNode) \in Events
    BY <2>1 DEF Line, Events, Moves
  <2>3. Logs(q.user, Line("invalid_input", n, NoNode)) /\ state' = state /\ awaits' = "reply"
    BY <1>5 DEF TextBegins
  <2> QED
    BY <1>1, <1>2, <1>5, <2>1, <2>2, <2>3
<1>6. CASE TapBegins(q)
  BY <1>1, <1>2, <1>6 DEF TapBegins
<1> QED
  BY <1>1, <1>4, <1>5, <1>6

LEMMA RefusedLog ==
  ASSUME TypeOK, TapStale \/ TapBad
  PROVE  /\ User \in Users /\ Logs(User, Line("invalid_input", current.at, NoNode))
         /\ Line("invalid_input", current.at, NoNode) \in Events /\ state' = state /\ shows' = Plain
<1>1. /\ awaits = "answer" /\ Logs(User, Line("invalid_input", current.at, NoNode)) /\ state' = state
      /\ shows' = Plain
  BY DEF TapStale, TapBad, TapAnswered, Awaits
<1>2. User \in Users /\ current.at \in Nodes
  BY <1>1, TapType
<1> QED
  BY <1>1, <1>2 DEF Line, Events, Moves

LEMMA LogInvKept == TypeOK /\ LogInv /\ [BotNext]_botVars => LogInv'
<1> SUFFICES ASSUME TypeOK, StateIsLogged, ShownIsLogged, [BotNext]_botVars
             PROVE  StateIsLogged' /\ ShownIsLogged'
  BY DEF LogInv
<1>1. CASE \E u \in Users : UserStep(u)
  <2>1. UNCHANGED <<state, log, taskVars>>
    BY <1>1 DEF UserStep, Writes, Taps, Send
  <2> QED
    BY <2>1 DEF StateIsLogged, ShownIsLogged, User
<1>2. CASE Fetch \/ UNCHANGED botVars
  <2>1. UNCHANGED <<state, log, taskVars>>
    BY <1>2 DEF Fetch
  <2> QED
    BY <2>1 DEF StateIsLogged, ShownIsLogged, User
<1>3. CASE HandlerBegins
  <2> DEFINE q == Head(inbox)
  <2>1. q.user \in Users /\ awaits' \in {"reply", "answer"}
    BY <1>3, BeginsLog
  <2>2. CASE /\ Logs(q.user, Line("start", START, NoNode)) /\ Line("start", START, NoNode) \in Events
             /\ state' = [state EXCEPT ![q.user] = START]
    <3>1. Line("start", START, NoNode).event \in Moves /\ Goal(Line("start", START, NoNode)) = START
      BY DEF Line, Moves, Goal
    <3>2. StateIsLogged'
      BY <2>1, <2>2, <3>1, MoveKeepsState
    <3> QED
      BY <2>1, <3>2 DEF ShownIsLogged
  <2>3. CASE \E n \in Nodes : /\ Logs(q.user, Line("invalid_input", n, NoNode))
                              /\ Line("invalid_input", n, NoNode) \in Events /\ state' = state
    <3>1. PICK n \in Nodes : /\ Logs(q.user, Line("invalid_input", n, NoNode))
                             /\ Line("invalid_input", n, NoNode) \in Events /\ state' = state
      BY <2>3
    <3>2. Line("invalid_input", n, NoNode).event \notin Moves
      BY DEF Line, Moves
    <3>3. StateIsLogged'
      BY <2>1, <3>1, <3>2, AsideKeepsState
    <3> QED
      BY <2>1, <3>3 DEF ShownIsLogged
  <2>4. CASE UNCHANGED <<state, log>>
    BY <2>1, <2>4 DEF StateIsLogged, ShownIsLogged
  <2> QED
    BY <1>3, <2>2, <2>3, <2>4, BeginsLog
<1>4. CASE TapStale \/ TapBad
  <2>1. Line("invalid_input", current.at, NoNode).event \notin Moves
    BY DEF Line, Moves
  <2>2. StateIsLogged'
    BY <1>4, <2>1, RefusedLog, AsideKeepsState
  <2> QED
    BY <1>4, <2>2, RefusedLog, PlainType DEF ShownIsLogged
<1>5. CASE TapChooses
  <2> DEFINE next == Resolve(tree, current.at, current.button)
             e == Line("choice", current.at, next)
  <2>1. /\ User \in Users /\ Logs(User, e) /\ e \in Events /\ state' = [state EXCEPT ![User] = next]
        /\ shows' = Render(tree, next) /\ current' = current
    BY <1>5, ChoiceFacts
  <2>2. e.event = "choice" /\ e.event \in Moves /\ Goal(e) = next /\ e.next = next
    BY DEF Line, Moves, Goal
  <2>3. shows'.at = next /\ User' = User
    BY <2>1 DEF Render, User
  <2> HIDE DEF e, next
  <2>4. StateIsLogged'
    BY <2>1, <2>2, MoveKeepsState
  <2>5. log'[User] = Append(log[User], e) /\ log[User] \in Seq(Events)
    BY <2>1, LogsFacts DEF TypeOK
  <2>6. ShownIsLogged'
    BY <2>1, <2>2, <2>3, <2>5, LastAppended DEF ShownIsLogged
  <2> QED
    BY <2>4, <2>6
<1>6. CASE Replied \/ CallFails
  <2>1. UNCHANGED <<state, log>> /\ awaits' = "nothing"
    BY <1>6 DEF Replied, CallFails, Done
  <2> QED
    BY <2>1 DEF StateIsLogged, ShownIsLogged
<1>7. CASE Edited
  <2>1. awaits = "edit" /\ state' = state /\ awaits' = "nothing"
    BY <1>7 DEF Edited, Done
  <2>2. CASE log' = log
    BY <2>1, <2>2 DEF StateIsLogged, ShownIsLogged
  <2>3. CASE shows.at # NoNode /\ Logs(User, Line("complete", shows.at, NoNode))
    <3>1. User \in Users /\ Line("complete", shows.at, NoNode) \in Events
      BY <2>1, <2>3, TapType, EndType
    <3>2. Line("complete", shows.at, NoNode).event \notin Moves
      BY DEF Line, Moves
    <3> QED
      BY <2>1, <2>3, <3>1, <3>2, AsideKeepsState DEF ShownIsLogged
  <2> QED
    BY <1>7, <2>2, <2>3 DEF Edited
<1>8. CASE Crash
  <2>1. log' = log /\ state' = [u \in Users |-> NoNode] /\ awaits' = "nothing"
    BY <1>8 DEF Crash, Done
  <2> QED
    BY <2>1 DEF StateIsLogged, ShownIsLogged
<1>9. CASE Boots
  <2>1. UNCHANGED <<state, log, taskVars>>
    BY <1>9 DEF Boots
  <2> QED
    BY <2>1 DEF StateIsLogged, ShownIsLogged, User
<1> QED
  BY <1>1, <1>2, <1>3, <1>4, <1>5, <1>6, <1>7, <1>8, <1>9 DEF BotNext, HandlerGoesOn

LEMMA LogInvInit == Init => LogInv
  BY PlainType DEF Init, LogInv, StateIsLogged, ShownIsLogged

\* What the bot remembers of a user is where the last session in the user's log has come
\* to, whatever has crashed, failed, or been delivered twice.
THEOREM StateLogged == BotSpec => []StateIsLogged
  BY LogInvInit, LogInvKept, TypeCorrect, PTL DEF BotSpec, LogInv

-----------------------------------------------------------------------------
(* The order of a log *)

\* A line for one user may be the next.
GoesOn == \A u \in Users : log'[u] # log[u] =>
            \E e \in Events : log'[u] = Append(log[u], e) /\ Follows(log[u], e)

LEMMA OneLineGoesOn ==
  ASSUME TypeOK, NEW v \in Users, NEW e \in Events, Logs(v, e), Follows(log[v], e)
  PROVE  GoesOn
<1>1. log'[v] = Append(log[v], e) /\ \A u \in Users : u # v => log'[u] = log[u]
  BY LogsFacts DEF TypeOK
<1> QED
  BY <1>1 DEF GoesOn

LEMMA RefusalFollows ==
  ASSUME NEW n, NEW l PROVE Follows(l, Line("invalid_input", n, NoNode))
  BY DEF Follows, Line

LEMMA LogGoesOn == TypeOK /\ LogInv /\ [BotNext]_botVars => GoesOn
<1> SUFFICES ASSUME TypeOK, StateIsLogged, ShownIsLogged, [BotNext]_botVars PROVE GoesOn
  BY DEF LogInv
<1>1. CASE \/ \E u \in Users : UserStep(u)
           \/ Fetch \/ Replied \/ CallFails \/ Crash \/ Boots \/ UNCHANGED botVars
  <2>1. log' = log
    BY <1>1 DEF UserStep, Writes, Taps, Send, Fetch, Replied, CallFails, Crash, Boots
  <2> QED
    BY <2>1 DEF GoesOn
<1>2. CASE HandlerBegins
  <2> DEFINE q == Head(inbox)
  <2>1. q.user \in Users
    BY <1>2, BeginsLog
  <2>2. CASE Logs(q.user, Line("start", START, NoNode)) /\ Line("start", START, NoNode) \in Events
    <3>1. Follows(log[q.user], Line("start", START, NoNode))
      BY DEF Follows, Line
    <3> QED
      BY <2>1, <2>2, <3>1, OneLineGoesOn
  <2>3. CASE \E n \in Nodes : /\ Logs(q.user, Line("invalid_input", n, NoNode))
                              /\ Line("invalid_input", n, NoNode) \in Events
    BY <2>1, <2>3, RefusalFollows, OneLineGoesOn
  <2>4. CASE log' = log
    BY <2>4 DEF GoesOn
  <2> QED
    BY <1>2, <2>2, <2>3, <2>4, BeginsLog
<1>3. CASE TapStale \/ TapBad
  BY <1>3, RefusedLog, RefusalFollows, OneLineGoesOn
<1>4. CASE TapChooses
  <2> DEFINE next == Resolve(tree, current.at, current.button)
             e == Line("choice", current.at, next)
  <2>1. /\ User \in Users /\ Logs(User, e) /\ e \in Events /\ state[User] = current.at
        /\ next \in Range(tree[current.at]) /\ current.at \in DOMAIN tree
    BY <1>4, ChoiceFacts
  <2>2. e.event = "choice" /\ e.node = current.at /\ e.next = next
    BY DEF Line
  <2> HIDE DEF e, next
  <2>3. current.at # NoNode
    BY <2>1, BotAssumption DEF TypeOK, Nodes
  <2>4. Where(log[User]) = current.at
    BY <2>1, <2>3 DEF StateIsLogged
  <2>5. Follows(log[User], e)
    BY <2>1, <2>2, <2>4 DEF Follows
  <2> QED
    BY <2>1, <2>5, OneLineGoesOn
<1>5. CASE Edited
  <2> DEFINE e == Line("complete", shows.at, NoNode)
  <2>1. awaits = "edit"
    BY <1>5 DEF Edited
  <2>2. CASE log' = log
    BY <2>2 DEF GoesOn
  <2>3. CASE shows.at # NoNode /\ IsLeaf(tree, shows.at) /\ Logs(User, e)
    <3>1. User \in Users /\ e \in Events
      BY <2>1, <2>3, TapType, EndType
    <3>2. e.event = "complete" /\ e.node = shows.at
      BY DEF Line
    <3> HIDE DEF e
    <3>3. Follows(log[User], e)
      BY <2>1, <2>3, <3>2 DEF ShownIsLogged, Follows
    <3> QED
      BY <2>3, <3>1, <3>3, OneLineGoesOn
  <2> QED
    BY <1>5, <2>2, <2>3 DEF Edited
<1> QED
  BY <1>1, <1>2, <1>3, <1>4, <1>5 DEF BotNext, HandlerGoesOn

\* The log of a user only grows, and each line follows from those before it: a choice
\* leads on from where the session is, and its end is logged once, at the leaf reached.
THEOREM LogInOrder == BotSpec => StepsFollow
<1>1. TypeOK /\ LogInv /\ [BotNext]_botVars =>
        [\A u \in Users : log'[u] # log[u] =>
           \E e \in Events : log'[u] = Append(log[u], e) /\ Follows(log[u], e)]_botVars
  BY LogGoesOn DEF GoesOn
<1> QED
  BY <1>1, LogInvInit, LogInvKept, TypeCorrect, PTL DEF BotSpec, StepsFollow

-----------------------------------------------------------------------------
(* The end of a session *)

\* A line that is no move leaves an end in its place, and is one if it says so.
LEMMA EndAppend ==
  ASSUME NEW l \in Seq(Events), NEW e \in Events, e.event \notin Moves
  PROVE  /\ HasEnd(l) => HasEnd(Append(l, e))
         /\ MovesOf(l) # {} /\ e.event = "complete" => HasEnd(Append(l, e))
<1> DEFINE m == Append(l, e)
           n == Len(l) + 1
<1>1. /\ Len(l) \in Nat /\ DOMAIN m = 1..n /\ DOMAIN l = 1..Len(l)
      /\ m[n] = e /\ \A i \in 1..Len(l) : m[i] = l[i]
  OBVIOUS
<1> HIDE DEF m
<1>2. MovesOf(m) = MovesOf(l)
  BY <1>1 DEF MovesOf
<1>3. LastMove(m) = LastMove(l)
  BY <1>2 DEF LastMove
<1>4. HasEnd(l) => HasEnd(m)
  BY <1>1, <1>3 DEF HasEnd
<1>5. ASSUME MovesOf(l) # {}, e.event = "complete" PROVE HasEnd(m)
  <2>1. n \in DOMAIN m /\ n > LastMove(m)
    BY <1>1, <1>3, <1>5, LastMoveType
  <2> QED
    BY <1>1, <1>5, <2>1 DEF HasEnd
<1> QED
  BY <1>4, <1>5 DEF m

\* A line for one user that is no move takes no end out of any log.
LEMMA AsideKeepsEnds ==
  ASSUME TypeOK, NEW v \in Users, NEW e \in Events, Logs(v, e), e.event \notin Moves
  PROVE  \A u \in Users : HasEnd(log[u]) => HasEnd(log'[u])
<1>1. log'[v] = Append(log[v], e) /\ log[v] \in Seq(Events) /\ \A u \in Users : u # v => log'[u] = log[u]
  BY LogsFacts DEF TypeOK
<1> QED
  BY <1>1, EndAppend

LEMMA LeafKept == TypeOK /\ LogInv /\ LeafIsLogged /\ [BotNext]_botVars => LeafIsLogged'
<1> SUFFICES ASSUME TypeOK, ShownIsLogged, LeafIsLogged, [BotNext]_botVars,
                    NEW u \in Users \ failed', state'[u] \notin {NoNode, START}, IsLeaf(tree', state'[u]),
                    awaits' = "edit" /\ User' = u => shows'.at # state'[u]
             PROVE  HasEnd(log'[u])
  BY DEF LogInv, LeafIsLogged
<1>1. CASE \/ \E v \in Users : UserStep(v)
           \/ Fetch \/ UNCHANGED botVars
  <2>1. UNCHANGED <<tree, state, log, taskVars, failed>>
    BY <1>1 DEF UserStep, Writes, Taps, Send, Fetch
  <2> QED
    BY <2>1 DEF LeafIsLogged, User
<1>2. CASE HandlerBegins
  <2> DEFINE q == Head(inbox)
  <2>1. q \in Updates /\ q.user \in Users /\ awaits = "nothing" /\ UNCHANGED <<tree, failed>>
    BY <1>2, BeginsLog DEF StartBegins, TextBegins, TapBegins, Begins, TypeOK
  <2>2. CASE /\ Logs(q.user, Line("start", START, NoNode)) /\ Line("start", START, NoNode) \in Events
             /\ state' = [state EXCEPT ![q.user] = START]
    <3>1. u # q.user
      BY <2>1, <2>2 DEF TypeOK
    <3>2. state'[u] = state[u] /\ log'[u] = log[u]
      BY <2>1, <2>2, <3>1, LogsFacts DEF TypeOK
    <3> QED
      BY <2>1, <3>2 DEF LeafIsLogged
  <2>3. CASE \E n \in Nodes : /\ Logs(q.user, Line("invalid_input", n, NoNode))
                              /\ Line("invalid_input", n, NoNode) \in Events /\ state' = state
    <3>1. PICK n \in Nodes : /\ Logs(q.user, Line("invalid_input", n, NoNode))
                             /\ Line("invalid_input", n, NoNode) \in Events /\ state' = state
      BY <2>3
    <3>2. Line("invalid_input", n, NoNode).event \notin Moves
      BY DEF Line, Moves
    <3>3. HasEnd(log[u])
      BY <2>1, <3>1 DEF LeafIsLogged
    <3> QED
      BY <2>1, <3>1, <3>2, <3>3, AsideKeepsEnds
  <2>4. CASE UNCHANGED <<state, log>>
    BY <2>1, <2>4 DEF LeafIsLogged
  <2> QED
    BY <1>2, <2>2, <2>3, <2>4, BeginsLog
<1>3. CASE TapStale \/ TapBad
  <2>1. awaits = "answer" /\ UNCHANGED <<tree, failed, state>>
    BY <1>3 DEF TapStale, TapBad, TapAnswered
  <2>2. HasEnd(log[u])
    BY <2>1 DEF LeafIsLogged
  <2>3. Line("invalid_input", current.at, NoNode).event \notin Moves
    BY DEF Line, Moves
  <2> QED
    BY <1>3, <2>2, <2>3, RefusedLog, AsideKeepsEnds
<1>4. CASE TapChooses
  <2> DEFINE next == Resolve(tree, current.at, current.button)
             e == Line("choice", current.at, next)
  <2>1. /\ awaits = "answer" /\ User \in Users /\ Logs(User, e) /\ e \in Events
        /\ state' = [state EXCEPT ![User] = next]
        /\ awaits' = "edit" /\ shows' = Render(tree, next) /\ current' = current
        /\ UNCHANGED <<tree, failed>>
    BY <1>4, ChoiceFacts
  <2>2. shows'.at = next /\ User' = User
    BY <2>1 DEF Render, User
  <2> HIDE DEF e, next
  <2>3. u # User
    BY <2>1, <2>2 DEF TypeOK
  <2>4. state'[u] = state[u] /\ log'[u] = log[u]
    BY <2>1, <2>3, LogsFacts DEF TypeOK
  <2> QED
    BY <2>1, <2>4 DEF LeafIsLogged
<1>5. CASE Replied
  <2>1. awaits = "reply" /\ UNCHANGED <<tree, state, log, failed>>
    BY <1>5 DEF Replied
  <2> QED
    BY <2>1 DEF LeafIsLogged
<1>6. CASE CallFails
  <2>1. failed' = failed \cup {User} /\ UNCHANGED <<tree, state, log>>
    BY <1>6 DEF CallFails
  <2> QED
    BY <2>1 DEF LeafIsLogged
<1>7. CASE Edited
  <2> DEFINE e == Line("complete", shows.at, NoNode)
  <2>1. awaits = "edit" /\ UNCHANGED <<tree, state, failed>>
    BY <1>7 DEF Edited
  <2>2. User \in Users
    BY <2>1, TapType
  <2>3. CASE ~(shows.at # NoNode /\ IsLeaf(tree, shows.at))
    <3>1. log' = log
      BY <1>7, <2>3 DEF Edited
    <3> QED
      BY <2>1, <2>3, <3>1 DEF LeafIsLogged
  <2>4. CASE shows.at # NoNode /\ IsLeaf(tree, shows.at)
    <3>1. Logs(User, e) /\ e \in Events
      BY <1>7, <2>4, EndType DEF Edited
    <3>2. e.event = "complete" /\ e.event \notin Moves
      BY DEF Line, Moves
    <3> HIDE DEF e
    <3>3. log'[User] = Append(log[User], e) /\ log[User] \in Seq(Events)
      BY <2>2, <3>1, LogsFacts DEF TypeOK
    <3>4. CASE u = User
      <4>1. log[User] # <<>> /\ log[User][Len(log[User])].event = "choice"
        BY <2>1, <2>4 DEF ShownIsLogged
      <4>2. Len(log[User]) \in MovesOf(log[User])
        BY <3>3, <4>1 DEF MovesOf, Moves
      <4> QED
        BY <3>1, <3>2, <3>3, <3>4, <4>2, EndAppend
    <3>5. CASE u # User
      <4>1. HasEnd(log[u])
        BY <2>1, <3>5 DEF LeafIsLogged
      <4> QED
        BY <2>2, <3>1, <3>2, <4>1, AsideKeepsEnds
    <3> QED
      BY <3>4, <3>5
  <2> QED
    BY <2>3, <2>4
<1>8. CASE Crash
  BY <1>8 DEF Crash
<1>9. CASE Boots
  BY <1>9 DEF Boots, TypeOK
<1> QED
  BY <1>1, <1>2, <1>3, <1>4, <1>5, <1>6, <1>7, <1>8, <1>9 DEF BotNext, HandlerGoesOn

\* A choice that has led to a leaf is followed by its end in the log, unless a call to
\* Telegram has failed for that user.
THEOREM LeafLogged == BotSpec => []LeafIsLogged
<1>1. Init => LeafIsLogged
  BY DEF Init, LeafIsLogged
<1> QED
  BY <1>1, LeafKept, LogInvInit, LogInvKept, TypeCorrect, PTL DEF BotSpec

-----------------------------------------------------------------------------
(* The buttons of a nudge *)

\* The updates that are yet to be handled, in their order, and the one that is being handled.
Coming == inbox \o Unfetched
Handled == {current} \ {NoUpdate}

TapOf(q, u, m) == q.kind = "tap" /\ q.user = u /\ q.msg = m

\* What is in a sequence one longer.
LEMMA AppendFacts ==
  ASSUME NEW S, NEW s \in Seq(S), NEW x \in S
  PROVE  /\ Append(s, x) \in Seq(S) /\ Len(s) \in Nat
         /\ DOMAIN s = 1..Len(s) /\ DOMAIN Append(s, x) = 1..(Len(s) + 1)
         /\ Append(s, x)[Len(s) + 1] = x /\ \A i \in DOMAIN s : Append(s, x)[i] = s[i]
         /\ Range(Append(s, x)) = Range(s) \cup {x}
<1>1. /\ Append(s, x) \in Seq(S) /\ Len(s) \in Nat
      /\ DOMAIN s = 1..Len(s) /\ DOMAIN Append(s, x) = 1..(Len(s) + 1)
      /\ Append(s, x)[Len(s) + 1] = x /\ \A i \in DOMAIN s : Append(s, x)[i] = s[i]
  OBVIOUS
<1> DEFINE t == Append(s, x)
<1> HIDE DEF t
<1>2. Range(t) = Range(s) \cup {x}
  BY <1>1 DEF Range, t
<1> QED
  BY <1>1, <1>2 DEF t

\* The updates to come, one by one: those of the inbox, and then those that Telegram has
\* not delivered.
ComingFacts ==
  /\ Coming \in Seq(Updates) /\ Unfetched \in Seq(Updates)
  /\ Len(Coming) = Len(inbox) + Len(Unfetched)
  /\ Len(inbox) \in Nat /\ Len(Unfetched) \in Nat /\ Len(Unfetched) = Len(server) - fetched
  /\ \A i \in 1..Len(inbox) : Coming[i] = inbox[i]
  /\ \A i \in 1..Len(Unfetched) : Coming[Len(inbox) + i] = Unfetched[i] /\ Unfetched[i] = server[fetched + i]
  /\ fetched \in Nat /\ Len(server) \in Nat /\ fetched <= Len(server)

LEMMA ComingType == TypeOK => ComingFacts
<1> SUFFICES ASSUME TypeOK PROVE ComingFacts
  OBVIOUS
<1>1. server \in Seq(Updates) /\ inbox \in Seq(Updates) /\ fetched \in 0..Len(server)
  BY DEF TypeOK
<1>2. /\ Unfetched \in Seq(Updates) /\ Len(Unfetched) = Len(server) - fetched
      /\ \A i \in 1..Len(Unfetched) : Unfetched[i] = server[fetched + i]
  BY <1>1, SMTT(30) DEF Unfetched
<1>3. \A u \in Seq(Updates) : /\ inbox \o u \in Seq(Updates) /\ Len(inbox \o u) = Len(inbox) + Len(u)
                              /\ \A i \in 1..Len(inbox) : (inbox \o u)[i] = inbox[i]
                              /\ \A i \in 1..Len(u) : (inbox \o u)[Len(inbox) + i] = u[i]
  BY <1>1
<1>4. /\ Coming \in Seq(Updates) /\ Len(Coming) = Len(inbox) + Len(Unfetched)
      /\ \A i \in 1..Len(inbox) : Coming[i] = inbox[i]
      /\ \A i \in 1..Len(Unfetched) : Coming[Len(inbox) + i] = Unfetched[i]
  BY <1>2, <1>3, Zenon DEF Coming
<1>5. Len(inbox) \in Nat /\ Len(Unfetched) \in Nat /\ Len(server) \in Nat
  BY <1>1, <1>2
<1> HIDE DEF Coming
<1> QED
  BY <1>1, <1>2, <1>4, <1>5 DEF ComingFacts

LEMMA ComingNext == TypeOK' => ComingFacts'
  BY ComingType, PTL

LEMMA SameSequence ==
  ASSUME NEW S, NEW s \in Seq(S), NEW t \in Seq(S), Len(s) = Len(t), \A i \in 1..Len(s) : s[i] = t[i]
  PROVE  s = t
  OBVIOUS

\* An update that is sent comes last.
LEMMA SendComes ==
  ASSUME TypeOK, TypeOK', NEW q \in Updates, Send(q)
  PROVE  Coming' = Append(Coming, q) /\ current' = current
<1>1. /\ server' = Append(server, q) /\ fetched' = fetched /\ inbox' = inbox /\ current' = current
  BY DEF Send
<1>2. Len(server') = Len(server) + 1 /\ server'[Len(server) + 1] = q /\ \A i \in 1..Len(server) : server'[i] = server[i]
  BY <1>1, AppendFacts DEF TypeOK
<1> DEFINE s == Coming
           t == Coming'
<1>3. /\ s \in Seq(Updates) /\ Len(s) = Len(inbox) + (Len(server) - fetched)
      /\ \A i \in 1..Len(inbox) : s[i] = inbox[i]
      /\ \A i \in 1..(Len(server) - fetched) : s[Len(inbox) + i] = server[fetched + i]
      /\ Len(inbox) \in Nat /\ Len(server) \in Nat /\ fetched \in Nat /\ fetched <= Len(server)
  BY ComingType DEF ComingFacts
<1>4. /\ t \in Seq(Updates) /\ Len(t) = Len(inbox) + (Len(server') - fetched)
      /\ \A i \in 1..Len(inbox) : t[i] = inbox[i]
      /\ \A i \in 1..(Len(server') - fetched) : t[Len(inbox) + i] = server'[fetched + i]
  BY <1>1, ComingNext DEF ComingFacts
<1> HIDE DEF s, t
<1>5. Len(t) = Len(s) + 1 /\ t[Len(s) + 1] = q
  <2> DEFINE j == Len(server') - fetched
  <2>1. Len(s) + 1 = Len(inbox) + j /\ Len(server) + 1 = fetched + j /\ j \in 1..j /\ Len(t) = Len(inbox) + j
    BY <1>2, <1>3, <1>4
  <2>2. t[Len(inbox) + j] = server'[fetched + j]
    BY <1>4, <2>1
  <2> HIDE DEF j
  <2> QED
    BY <1>2, <2>1, <2>2
<1>6. \A i \in 1..Len(s) : t[i] = s[i]
  <2> SUFFICES ASSUME NEW i \in 1..Len(s) PROVE t[i] = s[i]
    OBVIOUS
  <2>1. CASE i <= Len(inbox)
    BY <1>3, <1>4, <2>1
  <2>2. CASE i > Len(inbox)
    <3> DEFINE j == i - Len(inbox)
    <3>1. j \in 1..(Len(server) - fetched) /\ i = Len(inbox) + j
      BY <1>3, <2>2
    <3>2. j \in 1..(Len(server') - fetched) /\ fetched + j \in 1..Len(server)
      BY <1>2, <1>3, <3>1
    <3> HIDE DEF j
    <3> QED
      BY <1>2, <1>3, <1>4, <3>1, <3>2
  <2> QED
    BY <1>3, <2>1, <2>2
<1>7. /\ Append(s, q) \in Seq(Updates) /\ Len(Append(s, q)) = Len(s) + 1 /\ Append(s, q)[Len(s) + 1] = q
      /\ \A i \in 1..Len(s) : Append(s, q)[i] = s[i]
  BY <1>3, AppendFacts
<1>8. Len(s) \in Nat
  BY <1>3
<1>9. t = Append(s, q)
  BY <1>3, <1>4, <1>5, <1>6, <1>7, <1>8, SameSequence
<1> QED
  BY <1>1, <1>9 DEF s, t

\* A poll brings nothing that was not to come, and in the same order.
LEMMA FetchComes ==
  ASSUME TypeOK, TypeOK', Fetch
  PROVE  Coming' = Coming /\ current' = current /\ Range(server') \subseteq Range(server)
<1>1. server' = Unfetched /\ fetched' = Len(Unfetched) /\ inbox' = Coming /\ current' = current
  BY DEF Fetch, Coming
<1> DEFINE s == Coming
           t == Coming'
<1>2. /\ s \in Seq(Updates) /\ Len(s) \in Nat /\ Len(Unfetched) \in Nat
      /\ \A i \in 1..Len(Unfetched) : Unfetched[i] = server[fetched + i] /\ fetched + i \in 1..Len(server)
  BY ComingType DEF ComingFacts
<1>3. /\ t \in Seq(Updates) /\ Len(t) = Len(s) + 0 /\ \A i \in 1..Len(s) : t[i] = s[i]
  BY <1>1, <1>2, ComingNext DEF ComingFacts
<1> HIDE DEF s, t
<1>4. t = s
  BY <1>2, <1>3, SameSequence
<1>5. Range(server') \subseteq Range(server)
  <2>1. DOMAIN server' = 1..Len(Unfetched) /\ DOMAIN server = 1..Len(server)
    BY <1>1, ComingType DEF TypeOK, ComingFacts
  <2> QED
    BY <1>1, <1>2, <2>1 DEF Range
<1> QED
  BY <1>1, <1>4, <1>5 DEF s, t

\* The handler that begins takes the first of what was to come.
LEMMA BeginComes ==
  ASSUME TypeOK, TypeOK', HandlerBegins
  PROVE  /\ Coming # <<>> /\ current = NoUpdate /\ current' = Coming[1] /\ current' = Head(inbox)
         /\ Len(Coming) \in Nat /\ Len(Coming') = Len(Coming) - 1 /\ Len(Coming) >= 1
         /\ \A i \in 1..(Len(Coming) - 1) : Coming'[i] = Coming[i + 1]
         /\ UNCHANGED server
<1>1. inbox # <<>> /\ Begins(Head(inbox))
  BY DEF HandlerBegins, StartBegins, TextBegins, TapBegins
<1>2. inbox' = Tail(inbox) /\ current' = Head(inbox) /\ current = NoUpdate /\ UNCHANGED <<server, fetched>>
  BY <1>1 DEF Begins
<1>3. /\ Len(inbox) >= 1 /\ Head(inbox) = inbox[1] /\ Len(inbox') = Len(inbox) - 1
      /\ \A i \in 1..(Len(inbox) - 1) : inbox'[i] = inbox[i + 1]
  BY <1>1, <1>2 DEF TypeOK
<1> DEFINE s == Coming
           t == Coming'
<1>4. /\ s \in Seq(Updates) /\ Len(s) = Len(inbox) + (Len(server) - fetched)
      /\ \A i \in 1..Len(inbox) : s[i] = inbox[i]
      /\ \A i \in 1..(Len(server) - fetched) : s[Len(inbox) + i] = server[fetched + i]
      /\ Len(inbox) \in Nat /\ Len(server) \in Nat /\ fetched \in Nat /\ fetched <= Len(server)
  BY ComingType DEF ComingFacts
<1>5. /\ t \in Seq(Updates) /\ Len(t) = Len(inbox') + (Len(server) - fetched)
      /\ \A i \in 1..Len(inbox') : t[i] = inbox'[i]
      /\ \A i \in 1..(Len(server) - fetched) : t[Len(inbox') + i] = server[fetched + i]
  BY <1>2, ComingNext DEF ComingFacts
<1> HIDE DEF s, t
<1>6. s # <<>> /\ s[1] = Head(inbox) /\ Len(s) \in Nat /\ Len(t) = Len(s) - 1 /\ Len(s) >= 1
  BY <1>3, <1>4, <1>5
<1>7. ASSUME NEW i \in 1..(Len(s) - 1) PROVE t[i] = s[i + 1]
  <2>1. CASE i <= Len(inbox')
    <3>1. i \in 1..(Len(inbox) - 1) /\ i + 1 \in 1..Len(inbox)
      BY <1>3, <1>4, <2>1
    <3> QED
      BY <1>3, <1>4, <1>5, <2>1, <3>1
  <2>2. CASE i > Len(inbox')
    <3> DEFINE j == i - Len(inbox')
    <3>1. j \in 1..(Len(server) - fetched) /\ i = Len(inbox') + j /\ i + 1 = Len(inbox) + j
      BY <1>3, <1>4, <1>5, <1>6, <2>2
    <3> HIDE DEF j
    <3> QED
      BY <1>4, <1>5, <3>1
  <2> QED
    BY <1>3, <1>4, <2>1, <2>2
<1> QED
  BY <1>2, <1>6, <1>7 DEF s, t

\* After a crash all that Telegram keeps is to come.
LEMMA CrashComes ==
  ASSUME TypeOK, TypeOK', Crash
  PROVE  Coming' = server /\ server' = server /\ current' = NoUpdate
<1>1. inbox' = <<>> /\ fetched' = 0 /\ server' = server /\ current' = NoUpdate
  BY DEF Crash, Done
<1> DEFINE t == Coming'
<1>2. /\ t \in Seq(Updates) /\ Len(t) = Len(server) /\ Len(server) \in Nat
      /\ \A i \in 1..Len(server) : t[i] = server[i]
  <2>1. /\ t \in Seq(Updates) /\ Len(t) = Len(inbox') + (Len(server') - fetched') /\ Len(server') \in Nat
        /\ \A i \in 1..(Len(server') - fetched') : t[Len(inbox') + i] = server'[fetched' + i]
    BY ComingNext DEF ComingFacts
  <2>2. Len(inbox') = 0
    BY <1>1
  <2> HIDE DEF t
  <2>3. \A i \in 1..Len(server) : 0 + i = i /\ i \in 1..(Len(server) - 0)
    BY <1>1, <2>1
  <2> QED
    BY <1>1, <2>1, <2>2, <2>3
<1> HIDE DEF t
<1>3. t = server
  BY <1>2, SameSequence DEF TypeOK
<1> QED
  BY <1>1, <1>3 DEF t

-----------------------------------------------------------------------------
(* The screens *)

\* What the call brings on the screen of the user it is for; no other screen is touched.
LEMMA MadeFacts ==
  ASSUME TypeOK, current # NoUpdate
  PROVE  /\ User \in Users /\ screen[User] \in Seq(Messages)
         /\ \A u \in Users : u # User => Made[u] = screen[u]
         /\ \/ awaits = "reply" /\ current.kind # "text" /\ Made[User] = Append(screen[User], shows)
            \/ awaits = "edit" /\ Made[User] = [screen[User] EXCEPT ![current.msg] = shows]
            \/ /\ ~(awaits = "reply" /\ current.kind # "text") /\ awaits # "edit"
               /\ Made[User] = screen[User]
<1>1. User \in Users /\ screen \in [Users -> Seq(Messages)]
  BY UpdateType DEF TypeOK, User
<1>2. CASE awaits = "reply" /\ current.kind # "text"
  BY <1>1, <1>2 DEF Made
<1>3. CASE awaits = "edit"
  BY <1>1, <1>3 DEF Made
<1>4. CASE ~(awaits = "reply" /\ current.kind # "text") /\ awaits # "edit"
  BY <1>1, <1>4 DEF Made
<1> QED
  BY <1>1, <1>2, <1>3, <1>4

\* No message leaves a screen.
LEMMA MadeKeeps == TypeOK => \A u \in Users : DOMAIN screen[u] \subseteq DOMAIN Made[u]
<1> SUFFICES ASSUME TypeOK, NEW u \in Users PROVE DOMAIN screen[u] \subseteq DOMAIN Made[u]
  OBVIOUS
<1>1. CASE current = NoUpdate
  <2>1. Made = screen
    BY <1>1 DEF TypeOK, Made
  <2> QED
    BY <2>1
<1>2. CASE current # NoUpdate
  <2>1. shows \in Messages
    BY DEF TypeOK
  <2>2. DOMAIN screen[User] \subseteq DOMAIN Append(screen[User], shows)
    BY <1>2, <2>1, MadeFacts
  <2>3. DOMAIN [screen[User] EXCEPT ![current.msg] = shows] = DOMAIN screen[User]
    OBVIOUS
  <2> QED
    BY <1>2, <2>2, <2>3, MadeFacts
<1> QED
  BY <1>1, <1>2

\* Every message that was tapped is still there.
Known ==
  \A q \in Range(server) \cup Range(inbox) \cup Handled :
    q.kind = "tap" => q.msg \in DOMAIN screen[q.user]

\* Of the updates to come and the one being handled, no two are taps of one message, but
\* for the users in hasty.
OneTap ==
  \A u \in Users \ hasty : \A i \in DOMAIN Coming :
    Coming[i].kind = "tap" /\ Coming[i].user = u
    => /\ \A j \in DOMAIN Coming : TapOf(Coming[j], u, Coming[i].msg) => j = i
       /\ \A q \in Handled : ~TapOf(q, u, Coming[i].msg)

\* Whatever tap of the message is to come, or being handled, is of a button of the node
\* the user is at.
Agrees(u, m) ==
  \A q \in Range(Coming) \cup Handled :
    TapOf(q, u, m) => q.at = state[u] /\ q.button < Len(tree[state[u]])

\* A message shows the node the user is at, and no handler is about to write over it.
Shown(u) ==
  \E m \in DOMAIN screen[u] :
    /\ screen[u][m] = Render(tree, state[u])
    /\ awaits = "edit" /\ User = u => m # current.msg
    /\ Agrees(u, m)

\* A handler waits for the call that is to show it.
ToShow(u) ==
  /\ current # NoUpdate /\ User = u /\ shows = Render(tree, state[u])
  /\ awaits = "edit" \/ (awaits = "reply" /\ current.kind # "text")

ButtonsInv ==
  \A u \in Users \ (failed \cup hasty) :
    state[u] # NoNode /\ ~IsLeaf(tree, state[u]) => Shown(u) \/ ToShow(u)

\* What is to come is in the inbox or with Telegram.
LEMMA ComingRange ==
  TypeOK => /\ Range(Coming) = Range(inbox) \cup Range(Unfetched) /\ Range(Unfetched) \subseteq Range(server)
            /\ Range(Coming) \subseteq Updates /\ Range(server) \subseteq Updates /\ Range(inbox) \subseteq Updates
            /\ Handled \subseteq Updates
<1> SUFFICES ASSUME TypeOK PROVE
         /\ Range(Coming) = Range(inbox) \cup Range(Unfetched) /\ Range(Unfetched) \subseteq Range(server)
         /\ Range(Coming) \subseteq Updates /\ Range(server) \subseteq Updates /\ Range(inbox) \subseteq Updates
         /\ Handled \subseteq Updates
  OBVIOUS
<1>1. /\ server \in Seq(Updates) /\ inbox \in Seq(Updates) /\ Handled \subseteq Updates
  BY DEF TypeOK, Handled
<1> DEFINE s == Coming
           t == Unfetched
<1>2. /\ s \in Seq(Updates) /\ t \in Seq(Updates)
      /\ Len(s) = Len(inbox) + Len(t)
      /\ Len(inbox) \in Nat /\ Len(t) \in Nat /\ Len(t) = Len(server) - fetched
      /\ \A i \in 1..Len(inbox) : s[i] = inbox[i]
      /\ \A i \in 1..Len(t) : s[Len(inbox) + i] = t[i] /\ t[i] = server[fetched + i]
      /\ fetched \in Nat /\ Len(server) \in Nat /\ fetched <= Len(server)
  BY ComingType DEF ComingFacts
<1> HIDE DEF s, t
<1>3. DOMAIN s = 1..Len(s) /\ DOMAIN t = 1..Len(t) /\ DOMAIN inbox = 1..Len(inbox) /\ DOMAIN server = 1..Len(server)
  BY <1>1, <1>2
<1>4. Range(t) \subseteq Range(server)
  <2>1. \A i \in 1..Len(t) : fetched + i \in 1..Len(server)
    BY <1>2
  <2>2. \A i \in DOMAIN t : t[i] = server[fetched + i] /\ fetched + i \in DOMAIN server
    <3>1. \A i \in 1..Len(t) : t[i] = server[fetched + i]
      BY <1>2
    <3> QED
      BY <1>3, <2>1, <3>1
  <2> QED
    BY <2>2, Zenon DEF Range
<1>5. Range(inbox) \cup Range(t) \subseteq Range(s)
  <2>1. \A i \in 1..Len(t) : Len(inbox) + i \in 1..Len(s)
    BY <1>2
  <2>2. Range(t) \subseteq Range(s)
    <3>1. \A i \in 1..Len(t) : s[Len(inbox) + i] = t[i]
      BY <1>2
    <3>2. \A i \in DOMAIN t : t[i] = s[Len(inbox) + i] /\ Len(inbox) + i \in DOMAIN s
      BY <1>3, <2>1, <3>1
    <3> QED
      BY <3>2, Zenon DEF Range
  <2>3. \A i \in 1..Len(inbox) : i \in 1..Len(s)
    BY <1>2
  <2>4. Range(inbox) \subseteq Range(s)
    BY <1>2, <1>3, <2>3 DEF Range
  <2> QED
    BY <2>2, <2>4
<1>6. ASSUME NEW i \in DOMAIN s PROVE s[i] \in Range(inbox) \cup Range(t)
  <2>1. CASE i <= Len(inbox)
    BY <1>2, <1>3, <2>1 DEF Range
  <2>2. CASE i > Len(inbox)
    <3> DEFINE j == i - Len(inbox)
    <3>1. j \in DOMAIN t /\ i = Len(inbox) + j
      BY <1>2, <1>3, <2>2
    <3> HIDE DEF j
    <3> QED
      BY <1>2, <1>3, <3>1 DEF Range
  <2> QED
    BY <1>2, <1>3, <2>1, <2>2
<1>7. Range(s) = Range(inbox) \cup Range(t)
  BY <1>5, <1>6 DEF Range
<1>8. Range(s) \subseteq Updates /\ Range(server) \subseteq Updates /\ Range(inbox) \subseteq Updates
  BY <1>1, <1>2, <1>3 DEF Range
<1> QED
  BY <1>1, <1>4, <1>7, <1>8 DEF s, t

-----------------------------------------------------------------------------
(* The messages that were tapped stay *)

\* A step of the bot brings no update that was not there.
LEMMA NothingNew ==
  ASSUME TypeOK, TypeOK', Fetch \/ HandlerBegins \/ HandlerGoesOn \/ Crash \/ Boots \/ UNCHANGED botVars
  PROVE  (Range(server) \cup Range(inbox) \cup Handled)' \subseteq Range(server) \cup Range(inbox) \cup Handled
<1>1. CASE Fetch
  <2>1. server' = Unfetched /\ inbox' = Coming /\ current' = current
    BY <1>1 DEF Fetch, Coming
  <2> QED
    BY <2>1, ComingRange DEF Handled
<1>2. CASE HandlerBegins
  <2>1. inbox # <<>> /\ inbox \in Seq(Updates) /\ inbox' = Tail(inbox) /\ current' = Head(inbox) /\ server' = server
    BY <1>2 DEF HandlerBegins, StartBegins, TextBegins, TapBegins, Begins, TypeOK
  <2>2. Head(inbox) \in Range(inbox) /\ Range(Tail(inbox)) \subseteq Range(inbox)
    <3>1. /\ Len(inbox) \in Nat /\ Len(inbox) >= 1 /\ DOMAIN inbox = 1..Len(inbox) /\ Head(inbox) = inbox[1]
          /\ DOMAIN Tail(inbox) = 1..(Len(inbox) - 1) /\ \A i \in 1..(Len(inbox) - 1) : Tail(inbox)[i] = inbox[i + 1]
      BY <2>1
    <3>2. \A i \in 1..(Len(inbox) - 1) : i + 1 \in 1..Len(inbox)
      BY <3>1
    <3>3. 1 \in DOMAIN inbox
      BY <3>1
    <3>4. Head(inbox) \in Range(inbox)
      BY <3>1, <3>3 DEF Range
    <3> QED
      BY <3>1, <3>2, <3>4 DEF Range
  <2> QED
    BY <2>1, <2>2 DEF Handled
<1>3. CASE HandlerGoesOn
  <2>1. server' = server /\ inbox' = inbox /\ current' \in {current, NoUpdate}
    BY <1>3 DEF HandlerGoesOn, TapStale, TapBad, TapChooses, TapAnswered, Awaits, Replied, Edited, CallFails, Done
  <2> QED
    BY <2>1 DEF Handled
<1>4. CASE Crash
  <2>1. server' = server /\ inbox' = <<>> /\ current' = NoUpdate
    BY <1>4 DEF Crash, Done
  <2>2. Range(inbox') = {}
    BY <2>1 DEF Range
  <2> QED
    BY <2>1, <2>2 DEF Handled
<1>5. CASE Boots \/ UNCHANGED botVars
  BY <1>5 DEF Boots, Handled
<1> QED
  BY <1>1, <1>2, <1>3, <1>4, <1>5

LEMMA ScreensGrow ==
  TypeOK /\ [BotNext]_botVars => \A u \in Users : DOMAIN screen[u] \subseteq DOMAIN screen'[u]
<1> SUFFICES ASSUME TypeOK, [BotNext]_botVars PROVE screen' = screen \/ screen' = Made
  BY MadeKeeps
<1>1. CASE \/ \E u \in Users : UserStep(u)
           \/ Fetch \/ HandlerBegins \/ TapStale \/ TapBad \/ TapChooses \/ Boots \/ UNCHANGED botVars
  BY <1>1 DEF UserStep, Writes, Taps, Send, Fetch, HandlerBegins, StartBegins, TextBegins, TapBegins, Begins,
              TapStale, TapBad, TapChooses, TapAnswered, Boots
<1>2. CASE Replied \/ Edited \/ CallFails \/ Crash
  BY <1>2 DEF Replied, Edited, CallFails, Crash
<1> QED
  BY <1>1, <1>2 DEF BotNext, HandlerGoesOn

\* What a user sends: an update, and if that is a tap, one of a button that is there.
LEMMA UserSends ==
  ASSUME TypeOK, NEW u \in Users, UserStep(u)
  PROVE  \E q \in Updates :
           /\ Send(q) /\ q.user = u
           /\ \/ q.kind # "tap" /\ hasty' = hasty
              \/ /\ q.kind = "tap" /\ q.msg \in DOMAIN screen[u] /\ q.at = screen[u][q.msg].at
                 /\ q.button < Len(screen[u][q.msg].to)
                 /\ hasty' = IF TapPending(u, q.msg) THEN hasty \cup {u} ELSE hasty
<1>1. ASSUME NEW k \in {"start", "text"}, Writes(u, k)
      PROVE  \E q \in Updates : Send(q) /\ q.user = u /\ q.kind # "tap" /\ hasty' = hasty
  <2> DEFINE q == [user |-> u, kind |-> k, msg |-> 0, at |-> NoNode, button |-> 0]
  <2>1. q \in Updates
    BY DEF Updates
  <2> QED
    BY <1>1, <2>1 DEF Writes
<1>2. ASSUME NEW m \in DOMAIN screen[u], NEW b \in 0..(Len(screen[u][m].to) - 1), Taps(u, m, b)
      PROVE  \E q \in Updates :
               /\ Send(q) /\ q.user = u
               /\ q.kind = "tap" /\ q.msg \in DOMAIN screen[u] /\ q.at = screen[u][q.msg].at
               /\ q.button < Len(screen[u][q.msg].to)
               /\ hasty' = IF TapPending(u, q.msg) THEN hasty \cup {u} ELSE hasty
  <2> DEFINE q == [user |-> u, kind |-> "tap", msg |-> m, at |-> screen[u][m].at, button |-> b]
  <2>1. screen[u] \in Seq(Messages) /\ m \in Nat
    BY DEF TypeOK
  <2>2. screen[u][m] \in Messages /\ screen[u][m] # Plain
    BY <1>2, <2>1 DEF Taps, Plain
  <2>3. screen[u][m].at \in Nodes /\ screen[u][m].to \in Seq(Nodes)
    BY <2>2 DEF Messages
  <2>4. q \in Updates
    BY <2>1, <2>3 DEF Updates
  <2>5. q.user = u /\ q.kind = "tap" /\ q.msg = m /\ q.at = screen[u][m].at /\ q.button = b
    OBVIOUS
  <2>6. Send(q) /\ b < Len(screen[u][m].to) /\ hasty' = IF TapPending(u, m) THEN hasty \cup {u} ELSE hasty
    BY <1>2 DEF Taps
  <2> HIDE DEF q
  <2> QED
    BY <2>4, <2>5, <2>6
<1> QED
  BY <1>1, <1>2 DEF UserStep

LEMMA KnownKept == TypeOK /\ TypeOK' /\ Known /\ [BotNext]_botVars => Known'
<1> SUFFICES ASSUME TypeOK, TypeOK', Known, [BotNext]_botVars PROVE Known'
  OBVIOUS
<1> DEFINE There == Range(server) \cup Range(inbox) \cup Handled
<1>1. \A q \in There : q \in Updates /\ q.user \in Users
  BY ComingRange, UpdateType
<1>2. \A q \in There : q.kind = "tap" => q.msg \in DOMAIN screen'[q.user]
  BY <1>1, ScreensGrow DEF Known
<1>3. CASE \E u \in Users : UserStep(u)
  <2>1. PICK u \in Users : UserStep(u)
    BY <1>3
  <2>2. PICK q \in Updates : /\ Send(q) /\ q.user = u
                             /\ q.kind = "tap" => q.msg \in DOMAIN screen[u]
    BY <2>1, UserSends
  <2>3. server' = Append(server, q) /\ inbox' = inbox /\ current' = current /\ screen' = screen
    BY <2>2 DEF Send
  <2>4. There' = There \cup {q}
    BY <2>3, AppendFacts, SMTT(30) DEF TypeOK, Handled
  <2> QED
    BY <1>2, <2>2, <2>3, <2>4 DEF Known
<1>4. CASE Fetch \/ HandlerBegins \/ HandlerGoesOn \/ Crash \/ Boots \/ UNCHANGED botVars
  <2>1. There' \subseteq There
    BY <1>4, NothingNew
  <2> QED
    BY <1>2, <2>1 DEF Known
<1> QED
  BY <1>3, <1>4 DEF BotNext

-----------------------------------------------------------------------------
(* No two taps of a message are to come *)

\* A tap of a message of which none is pending is the only one.
LEMMA SendKeepsOneTap ==
  ASSUME TypeOK, TypeOK', OneTap, NEW v \in Users, UserStep(v)
  PROVE  OneTap'
<1>1. PICK q \in Updates :
           /\ Send(q) /\ q.user = v
           /\ \/ q.kind # "tap" /\ hasty' = hasty
              \/ q.kind = "tap" /\ hasty' = IF TapPending(v, q.msg) THEN hasty \cup {v} ELSE hasty
  BY UserSends
<1>2. Coming' = Append(Coming, q) /\ Handled' = Handled
  BY <1>1, SendComes DEF Handled
<1> DEFINE s == Coming
           n == Len(Coming) + 1
<1>3. Coming \in Seq(Updates)
  BY ComingType DEF ComingFacts
<1>4. /\ DOMAIN s = 1..Len(s) /\ DOMAIN Coming' = 1..n /\ Coming'[n] = q /\ Len(s) \in Nat /\ n = Len(s) + 1
      /\ \A i \in DOMAIN s : Coming'[i] = s[i]
  BY <1>2, <1>3, AppendFacts
<1>5. \A i \in DOMAIN s : s[i] \in Range(inbox) \cup Range(Unfetched)
  BY ComingRange DEF Range
<1> HIDE DEF s, n
<1> SUFFICES ASSUME NEW u \in Users \ hasty', NEW i \in DOMAIN Coming', Coming'[i].kind = "tap", Coming'[i].user = u
             PROVE  /\ \A j \in DOMAIN Coming' : TapOf(Coming'[j], u, Coming'[i].msg) => j = i
                    /\ \A r \in Handled' : ~TapOf(r, u, Coming'[i].msg)
  BY DEF OneTap
<1>6. u \notin hasty
  BY <1>1
<1>7. CASE q.kind = "tap" /\ q.user = u
  <2>1. ~TapPending(u, q.msg)
    BY <1>1, <1>7
  <2>2. /\ \A j \in DOMAIN s : ~TapOf(s[j], u, q.msg)
        /\ \A r \in Handled : ~TapOf(r, u, q.msg)
    BY <1>5, <2>1 DEF TapPending, TapOf, Handled
  <2>3. CASE i = n
    BY <1>2, <1>4, <2>2, <2>3
  <2>4. CASE i # n
    <3>1. i \in DOMAIN s /\ Coming'[i] = s[i]
      BY <1>4, <2>4
    <3>2. s[i].msg # q.msg
      BY <1>6, <2>2, <3>1 DEF TapOf
    <3>3. /\ \A j \in DOMAIN s : TapOf(s[j], u, s[i].msg) => j = i
          /\ \A r \in Handled : ~TapOf(r, u, s[i].msg)
      BY <1>6, <3>1 DEF OneTap, s
    <3>4. ~TapOf(q, u, s[i].msg)
      BY <3>2 DEF TapOf
    <3> QED
      BY <1>2, <1>4, <3>1, <3>3, <3>4
  <2> QED
    BY <2>3, <2>4
<1>8. CASE ~(q.kind = "tap" /\ q.user = u)
  <2>1. i # n
    BY <1>4, <1>8
  <2>2. i \in DOMAIN s /\ Coming'[i] = s[i]
    BY <1>4, <2>1
  <2>3. /\ \A j \in DOMAIN s : TapOf(s[j], u, s[i].msg) => j = i
        /\ \A r \in Handled : ~TapOf(r, u, s[i].msg)
    BY <1>6, <2>2 DEF OneTap, s
  <2>4. ~TapOf(q, u, s[i].msg)
    BY <1>8 DEF TapOf
  <2> QED
    BY <1>2, <1>4, <2>2, <2>3, <2>4
<1> QED
  BY <1>7, <1>8

LEMMA BeginKeepsOneTap == ASSUME TypeOK, TypeOK', OneTap, HandlerBegins PROVE OneTap'
<1> DEFINE s == Coming
           t == Coming'
<1>1. /\ current' = s[1] /\ Len(s) \in Nat /\ Len(t) = Len(s) - 1 /\ Len(s) >= 1
      /\ \A i \in 1..(Len(s) - 1) : t[i] = s[i + 1]
  BY BeginComes
<1>2. s \in Seq(Updates) /\ t \in Seq(Updates)
  BY ComingType, ComingNext DEF ComingFacts
<1>3. DOMAIN s = 1..Len(s) /\ DOMAIN t = 1..(Len(s) - 1) /\ Handled' \subseteq {s[1]} /\ 1 \in DOMAIN s
  BY <1>1, <1>2 DEF Handled
<1>4. hasty' = hasty
  BY DEF HandlerBegins, StartBegins, TextBegins, TapBegins, Begins
<1>5. \A u \in Users \ hasty : \A i \in DOMAIN s :
        s[i].kind = "tap" /\ s[i].user = u => \A j \in DOMAIN s : TapOf(s[j], u, s[i].msg) => j = i
  BY DEF OneTap
<1> HIDE DEF s, t
<1> SUFFICES ASSUME NEW u \in Users \ hasty, NEW i \in DOMAIN t, t[i].kind = "tap", t[i].user = u
             PROVE  /\ \A j \in DOMAIN t : TapOf(t[j], u, t[i].msg) => j = i
                    /\ \A r \in Handled' : ~TapOf(r, u, t[i].msg)
  BY <1>4 DEF OneTap, t
<1>6. \A j \in DOMAIN t : j + 1 \in DOMAIN s /\ t[j] = s[j + 1] /\ j + 1 # 1 /\ (j + 1 = i + 1 => j = i)
  BY <1>1, <1>3
<1>7. \A j \in DOMAIN s : TapOf(s[j], u, t[i].msg) => j = i + 1
  BY <1>5, <1>6
<1> QED
  BY <1>3, <1>6, <1>7

\* What comes again after a crash holds two taps of one message only for users in hasty.
LEMMA CrashKeepsOneTap == ASSUME TypeOK, TypeOK', Crash PROVE OneTap'
<1>1. Coming' = server /\ Handled' = {} /\ hasty' = hasty \cup TappedTwice
  BY CrashComes DEF Crash, Handled
<1>2. server \in Seq(Updates) /\ DOMAIN server = 1..Len(server) /\ Len(server) \in Nat
  BY DEF TypeOK
<1> SUFFICES ASSUME NEW u \in Users \ TappedTwice, NEW i \in DOMAIN server,
                    server[i].kind = "tap", server[i].user = u,
                    NEW j \in DOMAIN server, TapOf(server[j], u, server[i].msg)
             PROVE  j = i
  BY <1>1 DEF OneTap
<1>3. ~(i < j) /\ ~(j < i)
  BY DEF TappedTwice, TapOf
<1> QED
  BY <1>2, <1>3

LEMMA OneTapKept == TypeOK /\ TypeOK' /\ OneTap /\ [BotNext]_botVars => OneTap'
<1> SUFFICES ASSUME TypeOK, TypeOK', OneTap, [BotNext]_botVars PROVE OneTap'
  OBVIOUS
<1>1. CASE \E u \in Users : UserStep(u)
  BY <1>1, SendKeepsOneTap
<1>2. CASE HandlerBegins
  BY <1>2, BeginKeepsOneTap
<1>3. CASE Crash
  BY <1>3, CrashKeepsOneTap
<1>4. CASE Fetch \/ HandlerGoesOn \/ Boots \/ UNCHANGED botVars
  <2>1. Coming' = Coming /\ current' \in {current, NoUpdate} /\ hasty' = hasty
    <3>1. CASE Fetch
      BY <3>1, FetchComes DEF Fetch
    <3>2. CASE HandlerGoesOn \/ Boots \/ UNCHANGED botVars
      BY <3>2 DEF Coming, Unfetched, Boots, HandlerGoesOn, TapStale, TapBad, TapChooses, TapAnswered, Awaits,
                  Replied, Edited, CallFails, Done
    <3> QED
      BY <1>4, <3>1, <3>2
  <2>2. Handled' \subseteq Handled
    BY <2>1 DEF Handled
  <2> QED
    BY <2>1, <2>2 DEF OneTap
<1> QED
  BY <1>1, <1>2, <1>3, <1>4 DEF BotNext

-----------------------------------------------------------------------------
(* Who is to choose an option has it above *)

Pending == Range(Coming) \cup Handled

\* Message m shows u the node u is at, and its taps are of that node.
Good(u, m) == m \in DOMAIN screen[u] /\ screen[u][m] = Render(tree, state[u]) /\ Agrees(u, m)

LEMMA ShownIsGood ==
  ASSUME NEW u \in Users
  PROVE  Shown(u) <=> \E m \in DOMAIN screen[u] : Good(u, m) /\ (awaits = "edit" /\ User = u => m # current.msg)
  BY DEF Shown, Good

\* A message stays good while nothing happens to it, to its user, or to the tree.
LEMMA StaysGood ==
  ASSUME NEW u \in Users, NEW m, Good(u, m), UNCHANGED tree, state'[u] = state[u],
         m \in DOMAIN screen'[u], screen'[u][m] = screen[u][m], Pending' \subseteq Pending
  PROVE  Good(u, m)'
  BY DEF Good, Agrees, Pending, Render

\* A good message that no handler will write over.
LEMMA GoodIsShown ==
  ASSUME NEW u \in Users, NEW m, Good(u, m)', ~(awaits' = "edit" /\ User' = u /\ m = current'.msg)
  PROVE  Shown(u)'
  BY DEF Shown, Good

\* All that a step does to the users it is not about.
LEMMA OthersKeepButtons ==
  ASSUME UNCHANGED tree, Pending' \subseteq Pending,
         NEW u \in Users, state'[u] = state[u], screen'[u] = screen[u], Shown(u),
         awaits' = "edit" /\ User' = u => awaits = "edit" /\ User = u /\ current'.msg = current.msg
  PROVE  Shown(u)'
<1>1. PICK m \in DOMAIN screen[u] : Good(u, m) /\ (awaits = "edit" /\ User = u => m # current.msg)
  BY ShownIsGood
<1>2. Good(u, m)'
  BY <1>1, StaysGood
<1> QED
  BY <1>1, <1>2, GoodIsShown

\* A user who taps a message that shows where the user is taps one of its options.
LEMMA SendKeepsButtons ==
  ASSUME TypeOK, TypeOK', ButtonsInv, NEW v \in Users, UserStep(v)
  PROVE  ButtonsInv'
<1>1. PICK q \in Updates :
           /\ Send(q) /\ q.user = v
           /\ \/ q.kind # "tap" /\ hasty' = hasty
              \/ /\ q.kind = "tap" /\ q.msg \in DOMAIN screen[v] /\ q.at = screen[v][q.msg].at
                 /\ q.button < Len(screen[v][q.msg].to)
                 /\ hasty' = IF TapPending(v, q.msg) THEN hasty \cup {v} ELSE hasty
  BY UserSends
<1>2. UNCHANGED <<tree, state, screen, current, awaits, shows, failed>>
  BY <1>1 DEF Send
<1>3. Pending' = Pending \cup {q}
  <2>1. Coming' = Append(Coming, q) /\ Coming \in Seq(Updates)
    BY <1>1, SendComes, ComingType DEF ComingFacts
  <2>2. Range(Append(Coming, q)) = Range(Coming) \cup {q}
    BY <2>1, AppendFacts
  <2> QED
    BY <1>2, <2>1, <2>2 DEF Pending, Handled
<1> SUFFICES ASSUME NEW u \in Users \ (failed' \cup hasty'), state'[u] # NoNode, ~IsLeaf(tree', state'[u])
             PROVE  Shown(u)' \/ ToShow(u)'
  BY DEF ButtonsInv
<1>4. Shown(u) \/ ToShow(u)
  BY <1>1, <1>2 DEF ButtonsInv
<1>5. CASE ToShow(u)
  BY <1>2, <1>5 DEF ToShow, User
<1>6. CASE Shown(u)
  <2>1. PICK m \in DOMAIN screen[u] : Good(u, m) /\ (awaits = "edit" /\ User = u => m # current.msg)
    BY <1>6, ShownIsGood
  <2>2. screen[u][m].at = state[u] /\ screen[u][m].to = tree[state[u]]
    BY <2>1 DEF Good, Render
  <2>3. TapOf(q, u, m) => q.at = state[u] /\ q.button < Len(tree[state[u]])
    BY <1>1, <2>2 DEF TapOf
  <2>4. Good(u, m)'
    BY <1>2, <1>3, <2>1, <2>3 DEF Good, Agrees, Pending, Render
  <2> QED
    BY <1>2, <2>1, <2>4, GoodIsShown DEF User
<1> QED
  BY <1>4, <1>5, <1>6

\* A handler that begins leaves a good message to all but the user whom it is to show the root.
LEMMA BeginKeepsButtons ==
  ASSUME TypeOK, TypeOK', ButtonsInv, HandlerBegins
  PROVE  ButtonsInv'
<1> DEFINE q == Head(inbox)
<1>1. /\ q \in Updates /\ q.user \in Users /\ awaits' \in {"reply", "answer"} /\ inbox # <<>>
      /\ \/ StartBegins(q) /\ state' = [state EXCEPT ![q.user] = START]
         \/ state' = state
  BY BeginsLog
<1>2. current = NoUpdate /\ current' = q /\ UNCHANGED <<tree, screen, failed, hasty>>
  BY DEF HandlerBegins, StartBegins, TextBegins, TapBegins, Begins
<1>3. Pending' \subseteq Pending
  <2> DEFINE s == Coming
             t == Coming'
  <2>1. /\ current' = s[1] /\ Len(s) \in Nat /\ Len(t) = Len(s) - 1 /\ Len(s) >= 1
        /\ \A i \in 1..(Len(s) - 1) : t[i] = s[i + 1]
    BY BeginComes
  <2>2. s \in Seq(Updates) /\ t \in Seq(Updates)
    BY ComingType, ComingNext DEF ComingFacts
  <2> HIDE DEF s, t
  <2>3. DOMAIN s = 1..Len(s) /\ DOMAIN t = 1..(Len(s) - 1) /\ 1 \in DOMAIN s
    BY <2>1, <2>2
  <2>4. \A i \in DOMAIN t : i + 1 \in DOMAIN s /\ t[i] = s[i + 1]
    BY <2>1, <2>3
  <2>5. Range(t) \subseteq Range(s) /\ current' \in Range(s)
    BY <2>1, <2>3, <2>4 DEF Range
  <2> QED
    BY <2>5 DEF Pending, Handled, s, t
<1> HIDE DEF q
<1> SUFFICES ASSUME NEW u \in Users \ (failed' \cup hasty'), state'[u] # NoNode, ~IsLeaf(tree', state'[u])
             PROVE  Shown(u)' \/ ToShow(u)'
  BY DEF ButtonsInv
<1>4. CASE StartBegins(q) /\ u = q.user
  <2>1. state'[u] = START
    BY <1>1, <1>4 DEF StartBegins, TypeOK
  <2>2. shows' = Render(tree, START) /\ awaits' = "reply" /\ q.kind = "start"
    BY <1>4 DEF StartBegins
  <2>3. q # NoUpdate
    BY <1>1, UpdateType
  <2> QED
    BY <1>2, <1>4, <2>1, <2>2, <2>3 DEF ToShow, User
<1>5. CASE ~(StartBegins(q) /\ u = q.user)
  <2>1. state'[u] = state[u]
    BY <1>1, <1>5 DEF TypeOK
  <2>2. Shown(u)
    BY <1>2, <2>1 DEF ButtonsInv, ToShow
  <2> QED
    BY <1>1, <1>2, <1>3, <2>1, <2>2, OthersKeepButtons
<1> QED
  BY <1>4, <1>5

\* A tap that is refused is of another message than the one that shows where the user is.
LEMMA RefusalKeepsButtons ==
  ASSUME TypeOK, ButtonsInv, TapStale \/ TapBad
  PROVE  ButtonsInv'
<1>1. /\ awaits = "answer" /\ UNCHANGED <<tree, screen, telegramVars, countVars, state, current>>
      /\ state[User] # current.at \/ Resolve(tree, current.at, current.button) = NoNode
  BY DEF TapStale, TapBad, TapAnswered, Awaits
<1>2. /\ current \in Updates /\ current # NoUpdate /\ current.kind = "tap" /\ User \in Users
      /\ current.at \in Nodes /\ current.button \in Nat
  BY <1>1, TapType
<1>3. Pending' = Pending /\ current \in Pending /\ User' = User
  BY <1>1, <1>2 DEF Pending, Coming, Unfetched, Handled, User
<1> SUFFICES ASSUME NEW u \in Users \ (failed \cup hasty), state[u] # NoNode, ~IsLeaf(tree, state[u])
             PROVE  Shown(u)'
  BY <1>1 DEF ButtonsInv
<1>4. Shown(u)
  BY <1>1 DEF ButtonsInv, ToShow
<1>5. PICK m \in DOMAIN screen[u] : Good(u, m)
  BY <1>4, ShownIsGood
<1>6. Good(u, m)'
  BY <1>1, <1>3, <1>5, StaysGood
<1>7. ASSUME User = u, m = current.msg PROVE FALSE
  <2>1. current.at = state[u] /\ current.button < Len(tree[state[u]])
    BY <1>2, <1>3, <1>5, <1>7 DEF Good, Agrees, Pending, TapOf, User
  <2>2. state[u] \in DOMAIN tree /\ tree[state[u]] \in Seq(Nodes)
    BY BotAssumption DEF TypeOK
  <2>3. tree[state[u]][current.button + 1] \in Nodes
    BY <1>2, <2>1, <2>2
  <2> QED
    BY <1>1, <1>7, <2>1, <2>3, BotAssumption DEF Resolve
<1> QED
  BY <1>1, <1>3, <1>6, <1>7, GoodIsShown

\* A tap that is acted on is to show its user the next node.
LEMMA ChoiceKeepsButtons ==
  ASSUME TypeOK, ButtonsInv, TapChooses
  PROVE  ButtonsInv'
<1> DEFINE next == Resolve(tree, current.at, current.button)
<1>1. /\ awaits = "answer" /\ User \in Users /\ current # NoUpdate
      /\ state' = [state EXCEPT ![User] = next]
      /\ awaits' = "edit" /\ shows' = Render(tree, next) /\ current' = current
      /\ UNCHANGED <<tree, screen, telegramVars, countVars>>
  BY ChoiceFacts
<1> HIDE DEF next
<1>2. Pending' = Pending /\ User' = User
  BY <1>1 DEF Pending, Coming, Unfetched, Handled, User
<1> SUFFICES ASSUME NEW u \in Users \ (failed \cup hasty), state'[u] # NoNode, ~IsLeaf(tree, state'[u])
             PROVE  Shown(u)' \/ ToShow(u)'
  BY <1>1 DEF ButtonsInv
<1>3. CASE u = User
  <2>1. state'[u] = next
    BY <1>1, <1>3 DEF TypeOK
  <2> QED
    BY <1>1, <1>2, <1>3, <2>1 DEF ToShow
<1>4. CASE u # User
  <2>1. state'[u] = state[u]
    BY <1>1, <1>4 DEF TypeOK
  <2>2. Shown(u)
    BY <1>1, <1>4, <2>1 DEF ButtonsInv, ToShow
  <2> QED
    BY <1>1, <1>2, <1>4, <2>1, <2>2, OthersKeepButtons
<1> QED
  BY <1>3, <1>4

\* The call is made: the message it has brought is good, and one that was stays so.
LEMMA CallKeepsButtons ==
  ASSUME TypeOK, Known, OneTap, ButtonsInv, Replied \/ Edited
  PROVE  ButtonsInv'
<1>1. /\ screen' = Made /\ Done /\ awaits \in {"reply", "edit"}
      /\ UNCHANGED <<tree, state, telegramVars, countVars>>
  BY DEF Replied, Edited
<1>2. awaits' = "nothing" /\ current' = NoUpdate
  BY <1>1 DEF Done
<1>3. current \in Updates /\ current # NoUpdate /\ current \in Pending /\ current \in Handled
  BY <1>1 DEF TypeOK, Pending, Handled
<1>4. Pending' = Range(Coming) /\ Pending' \subseteq Pending
  BY <1>1, <1>2 DEF Pending, Coming, Unfetched, Handled
<1>5. /\ User \in Users /\ screen[User] \in Seq(Messages) /\ shows \in Messages
      /\ \A u \in Users : u # User => screen'[u] = screen[u]
  BY <1>1, <1>3, MadeFacts DEF TypeOK
<1> SUFFICES ASSUME NEW u \in Users \ (failed \cup hasty), state[u] # NoNode, ~IsLeaf(tree, state[u])
             PROVE  Shown(u)'
  BY <1>1 DEF ButtonsInv
<1>6. Shown(u) \/ ToShow(u)
  BY DEF ButtonsInv
<1>7. CASE u # User
  <2>1. Shown(u)
    BY <1>6, <1>7 DEF ToShow
  <2> QED
    BY <1>1, <1>2, <1>4, <1>5, <1>7, <2>1, OthersKeepButtons
<1>8. CASE u = User /\ awaits = "reply" /\ current.kind = "text"
  <2>1. Shown(u) /\ screen' = screen
    BY <1>1, <1>6, <1>8 DEF ToShow, Made
  <2> QED
    BY <1>1, <1>2, <1>4, <2>1, OthersKeepButtons
<1>9. CASE u = User /\ awaits = "reply" /\ current.kind # "text"
  <2>1. screen'[u] = Append(screen[u], shows)
    BY <1>1, <1>3, <1>9, MadeFacts
  <2>2. /\ DOMAIN screen[u] = 1..Len(screen[u]) /\ DOMAIN screen'[u] = 1..(Len(screen[u]) + 1)
        /\ screen'[u][Len(screen[u]) + 1] = shows /\ Len(screen[u]) \in Nat
        /\ \A i \in DOMAIN screen[u] : screen'[u][i] = screen[u][i]
    BY <1>5, <1>9, <2>1, AppendFacts
  <2>3. CASE Shown(u)
    <3>1. PICK m \in DOMAIN screen[u] : Good(u, m)
      BY <2>3, ShownIsGood
    <3>2. m \in DOMAIN screen'[u] /\ screen'[u][m] = screen[u][m]
      BY <2>2, <3>1
    <3>3. Good(u, m)'
      BY <1>1, <1>4, <3>1, <3>2, StaysGood
    <3> QED
      BY <1>2, <3>3, GoodIsShown
  <2>4. CASE ToShow(u)
    <3> PICK m : m = Len(screen[u]) + 1
      OBVIOUS
    <3>1. m \in DOMAIN screen'[u] /\ screen'[u][m] = Render(tree, state[u]) /\ m \notin DOMAIN screen[u]
      BY <2>2, <2>4 DEF ToShow
    <3>2. \A q \in Pending : ~TapOf(q, u, m)
      BY <3>1, ComingRange DEF Known, TapOf, Pending
    <3>3. Good(u, m)'
      BY <1>1, <1>4, <3>1, <3>2 DEF Good, Agrees, Render, Pending
    <3> QED
      BY <1>2, <3>3, GoodIsShown
  <2> QED
    BY <1>6, <2>3, <2>4
<1>10. CASE u = User /\ awaits = "edit"
  <2>1. screen'[u] = [screen[u] EXCEPT ![current.msg] = shows]
    BY <1>1, <1>3, <1>10, MadeFacts
  <2>2. /\ DOMAIN screen'[u] = DOMAIN screen[u]
        /\ \A i \in DOMAIN screen[u] : i # current.msg => screen'[u][i] = screen[u][i]
        /\ current.msg \in DOMAIN screen[u] => screen'[u][current.msg] = shows
    BY <2>1
  <2>3. CASE Shown(u)
    <3>1. PICK m \in DOMAIN screen[u] : Good(u, m) /\ m # current.msg
      BY <1>10, <2>3, ShownIsGood
    <3>2. Good(u, m)'
      BY <1>1, <1>4, <2>2, <3>1, StaysGood
    <3> QED
      BY <1>2, <3>2, GoodIsShown
  <2>4. CASE ToShow(u)
    <3> PICK m : m = current.msg
      OBVIOUS
    <3>1. current.kind = "tap" /\ current.user = u
      BY <1>10, TapType DEF User
    <3>2. m \in DOMAIN screen[u]
      BY <1>3, <3>1 DEF Known
    <3>3. screen'[u][m] = Render(tree, state[u])
      BY <2>2, <2>4, <3>2 DEF ToShow
    <3>4. \A q \in Range(Coming) : ~TapOf(q, u, m)
      <4> SUFFICES ASSUME NEW i \in DOMAIN Coming, TapOf(Coming[i], u, m) PROVE FALSE
        BY DEF Range
      <4>1. Coming[i].kind = "tap" /\ Coming[i].user = u /\ Coming[i].msg = m
        BY DEF TapOf
      <4>2. ~TapOf(current, u, m)
        BY <1>3, <4>1 DEF OneTap
      <4> QED
        BY <3>1, <4>2 DEF TapOf
    <3>5. Good(u, m)'
      BY <1>1, <1>4, <2>2, <3>2, <3>3, <3>4 DEF Good, Agrees, Render, Pending
    <3> QED
      BY <1>2, <3>5, GoodIsShown
  <2> QED
    BY <1>6, <2>3, <2>4
<1> QED
  BY <1>1, <1>7, <1>8, <1>9, <1>10

LEMMA ButtonsKept ==
  TypeOK /\ TypeOK' /\ Known /\ OneTap /\ ButtonsInv /\ [BotNext]_botVars => ButtonsInv'
<1> SUFFICES ASSUME TypeOK, TypeOK', Known, OneTap, ButtonsInv, [BotNext]_botVars PROVE ButtonsInv'
  OBVIOUS
<1>1. CASE \E u \in Users : UserStep(u)
  BY <1>1, SendKeepsButtons
<1>2. CASE HandlerBegins
  BY <1>2, BeginKeepsButtons
<1>3. CASE TapStale \/ TapBad
  BY <1>3, RefusalKeepsButtons
<1>4. CASE TapChooses
  BY <1>4, ChoiceKeepsButtons
<1>5. CASE Replied \/ Edited
  BY <1>5, CallKeepsButtons
<1>6. CASE Fetch
  <2>1. Coming' = Coming /\ UNCHANGED <<tree, state, screen, taskVars, failed, hasty>>
    BY <1>6, FetchComes DEF Fetch
  <2>2. Pending' = Pending /\ User' = User
    BY <2>1 DEF Pending, Handled, User
  <2>3. \A u \in Users : ToShow(u) => ToShow(u)'
    BY <2>1, <2>2 DEF ToShow
  <2>4. \A u \in Users : Shown(u) => Shown(u)'
    BY <2>1, <2>2, OthersKeepButtons
  <2> QED
    BY <2>1, <2>3, <2>4 DEF ButtonsInv
<1>7. CASE CallFails
  <2>1. /\ current # NoUpdate /\ current' = NoUpdate /\ awaits' = "nothing" /\ failed' = failed \cup {User}
        /\ screen' \in {screen, Made} /\ UNCHANGED <<tree, state, telegramVars, hasty>>
    BY <1>7 DEF CallFails, Done, TypeOK
  <2>2. Pending' \subseteq Pending
    BY <2>1 DEF Pending, Coming, Unfetched, Handled
  <2>3. \A u \in Users : u # User => screen'[u] = screen[u]
    BY <2>1, MadeFacts
  <2>4. ASSUME NEW u \in Users, u # User, Shown(u) PROVE Shown(u)'
    BY <2>1, <2>2, <2>3, <2>4, OthersKeepButtons
  <2> QED
    BY <2>1, <2>4 DEF ButtonsInv, ToShow
<1>8. CASE Crash
  <2>1. \A u \in Users : state'[u] = NoNode
    BY <1>8 DEF Crash
  <2> QED
    BY <2>1 DEF ButtonsInv
<1>9. CASE Boots
  <2>1. \A u \in Users : state'[u] = NoNode
    BY <1>9 DEF Boots, TypeOK
  <2> QED
    BY <2>1 DEF ButtonsInv
<1>10. CASE UNCHANGED botVars
  BY <1>10 DEF ButtonsInv, Shown, ToShow, Agrees, Coming, Unfetched, Handled, Render, User, IsLeaf
<1> QED
  BY <1>1, <1>2, <1>3, <1>4, <1>5, <1>6, <1>7, <1>8, <1>9, <1>10 DEF BotNext, HandlerGoesOn

\* Who is told to choose one of the options above has a message that shows them, unless a
\* call has failed, or two taps of one message were to be handled.
THEOREM NudgedHaveButtons == BotSpec => []NudgeHasButtons
<1>1. Init => Known /\ OneTap /\ ButtonsInv
  <2> SUFFICES ASSUME Init PROVE Known /\ OneTap /\ ButtonsInv
    OBVIOUS
  <2>1. TypeOK /\ Handled = {} /\ server = <<>> /\ inbox = <<>> /\ \A u \in Users : state[u] = NoNode
    BY InitType DEF Init, Handled
  <2>2. Range(server) = {} /\ Range(inbox) = {} /\ Range(Coming) = {}
    <3>1. Range(server) = {} /\ Range(inbox) = {}
      BY <2>1 DEF Range
    <3> QED
      BY <2>1, <3>1, ComingRange
  <2>3. DOMAIN Coming = {}
    BY <2>2 DEF Range
  <2> QED
    BY <2>1, <2>2, <2>3 DEF Known, OneTap, ButtonsInv
<1>2. TypeOK /\ ButtonsInv => NudgeHasButtons
  <2> SUFFICES ASSUME TypeOK, ButtonsInv, NEW u \in Users,
                      state[u] # NoNode, ~IsLeaf(tree, state[u]), u \notin failed \cup hasty,
                      current = NoUpdate \/ current.user # u \/ current.kind = "text"
               PROVE  \E m \in DOMAIN screen[u] : screen[u][m] = Render(tree, state[u])
    BY DEF NudgeHasButtons
  <2>1. ~ToShow(u)
    BY DEF ToShow, User, TypeOK
  <2> QED
    BY <2>1 DEF ButtonsInv, Shown
<1> QED
  BY <1>1, <1>2, KnownKept, OneTapKept, ButtonsKept, TypeCorrect, PTL DEF BotSpec
=============================================================================
