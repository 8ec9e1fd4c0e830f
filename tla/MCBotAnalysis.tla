---------------------------- MODULE MCBotAnalysis ----------------------------
(***************************************************************************)
(* The runs of BotAnalysis.                                                 *)
(***************************************************************************)
EXTENDS BotAnalysis, TLC

CONSTANTS a, b, c

\* A tree with a leaf at once, one further on, and a way back to the root.
Loop == START :> <<a, b>> @@ a :> <<>> @@ b :> <<c, START>> @@ c :> <<>>

\* The same root with one option less, which leads elsewhere.
Shorter == START :> <<b>> @@ b :> <<c>> @@ c :> <<>>

\* One that load_tree refuses.
Broken == START :> <<a, b>> @@ a :> <<>>

\* The least a session can be about.
Single == START :> <<a>> @@ a :> <<>>

\* A session that is at its end once it starts.
Bare == START :> <<>>

AnyTree == {Loop, Shorter, Bare, Broken}
SimTree == {Single}
=============================================================================
