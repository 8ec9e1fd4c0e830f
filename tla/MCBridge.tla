------------------------------ MODULE MCBridge ------------------------------
(***************************************************************************)
(* The runs of Bridge.  What a record has beside parents and sha is only told *)
(* apart where there are no other records: no target but restore reads them, *)
(* and restore reads nothing else.                                          *)
(***************************************************************************)
EXTENDS Bridge

AloneFiles == {f \in [Ids -> FileStates] : \A i \in Ids \ {Root} : f[i] = "absent"}
Parentless == {p \in [Ids -> ParentLists] : \A i \in Ids \ {Root} : p[i] = <<>>}

FewInit ==
  /\ \/ target = "restore" /\ extras = {} /\ long = FALSE
     \/ file \in AloneFiles /\ parents \in Parentless
  /\ BridgeInit

FewSpec == FewInit /\ [][BridgeNext]_bridgeVars

FewFairSpec == FewSpec /\ WF_bridgeVars(Command)
=============================================================================
