---------------------------- MODULE DecisionTree ----------------------------
(***************************************************************************)
(* engine.py and render_node of bot.py: a tree is a function from its nodes *)
(* to the sequences of nodes their options lead to, in the order of the      *)
(* buttons.  Texts and labels are left out.                                 *)
(***************************************************************************)
EXTENDS Naturals, Sequences, Functions

CONSTANTS
  START,    \* START_NODE
  NoNode    \* no node: None

\* load_tree, which refuses any other.
Loads(t) == START \in DOMAIN t /\ \A n \in DOMAIN t : Range(t[n]) \subseteq DOMAIN t

IsLeaf(t, n) == t[n] = <<>>

\* resolve_choice, for an index that is not negative; option i is t[n][i + 1].
Resolve(t, n, i) == IF i < Len(t[n]) THEN t[n][i + 1] ELSE NoNode

\* A message of the bot: the node it shows and where its buttons lead.  A leaf has
\* no button, and so has a text that shows no node.
Render(t, n) == [at |-> n, to |-> t[n]]
Plain == [at |-> NoNode, to |-> <<>>]
=============================================================================
