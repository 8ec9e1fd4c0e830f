----------------------------- MODULE MCRecords -----------------------------
(***************************************************************************)
(* The runs of Records: short bodies of every kind, and what is alike.        *)
(***************************************************************************)
EXTENDS Records

ShortBodies == {<<>>, <<"word">>, <<"word", "nl", "rule">>, <<"word", "cr">>}

\* No two seals have a `---` in their headers: what is said of records that are not
\* plain is said of one at a time.
OneRuled == \A s, t \in Seals : s = t \/ RuleFree(s) \/ RuleFree(t)

Symmetry == Permutations(Seals) \cup Permutations(Ids)
=============================================================================
