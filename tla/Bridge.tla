------------------------------- MODULE Bridge -------------------------------
(***************************************************************************)
(* `wkb.py bridge`: the record that was read and verified goes to the target *)
(* of the command line, to the walk of Lineage if that is "restore".        *)
(*                                                                         *)
(* What a record holds is told apart as far as the targets do: "core" is all *)
(* of CORE_FIELDS but the parents, which each target has or leaves out       *)
(* together; "source" and "raw" are the two fields a seal may add to them.   *)
(***************************************************************************)
EXTENDS Lineage

VARIABLES
  target,  \* of the command line: one of KNOWN_TARGETS, or "other"
  extras,  \* the fields of the record that are not in CORE_FIELDS
  long,    \* its body does not fit into a cell
  output   \* status, dropped_fields and what of the record is in the payload, whole

bridgeVars == <<vars, target, extras, long, output>>

None == [status |-> "", dropped |-> {}, payload |-> {}]

BridgeInit ==
  /\ Init
  /\ target \in {"json", "csv", "restore", "other"}
  /\ extras \in SUBSET {"source", "raw"}
  /\ long \in BOOLEAN
  /\ output = None

-----------------------------------------------------------------------------
(* The targets but restore *)

Json == [status |-> "SUCCESS", dropped |-> {}, payload |-> {"core", "parent", "body"}]

\* A cell holds one parent and one line, and a body ends with a line end at least.
Csv ==
  LET several == Len(parents[Root]) > 1
      dropped == {<<"body", "LOSSY_ENCODING">>}
                   \cup (IF several THEN {<<"parent", "LOSSY_ENCODING">>} ELSE {})
                   \cup (IF long THEN {<<"body", "CONSTRAINT_EXCEEDED">>} ELSE {})
  IN  [status |-> "DEGRADED", dropped |-> dropped,
       payload |-> {"core"} \cup (IF several THEN {} ELSE {"parent"})]

Fallback ==
  [status |-> "DEGRADED", dropped |-> extras \X {"NO_TARGET_EQUIVALENT"},
   payload |-> {"core", "parent"}]

\* bridge_record, once the sha was found to match.
Translates ==
  /\ result = "reading" /\ file[Root] = "whole" /\ target # "restore"
  /\ result' = "translated"
  /\ output' = CASE target = "json" -> Json [] target = "csv" -> Csv [] target = "other" -> Fallback
  /\ UNCHANGED <<storeVars, walkVars, target, extras, long>>

-----------------------------------------------------------------------------

\* cmd_bridge, up to the end of the process.
Command ==
  \/ /\ \/ Refuses
        \/ target = "restore" /\ (Begins \/ Walks)
     /\ UNCHANGED <<target, extras, long, output>>
  \/ Translates

BridgeNext ==
  \/ Command
  \/ ~Ended /\ (\E i \in Ids : SealStep(i)) /\ UNCHANGED <<target, extras, long, output>>

BridgeSpec == BridgeInit /\ [][BridgeNext]_bridgeVars

\* The command runs; nobody need seal anything.
BridgeFairSpec == BridgeSpec /\ WF_bridgeVars(Command)

-----------------------------------------------------------------------------

(* A claim of the repository that the code does not keep. *)

\* What the payload lacks of the record.
Lost == ({"core", "parent", "body"} \cup extras) \ output.payload

\* wkb.py:533: "the Bridge pattern: explicit SUCCESS/DEGRADED/FAILED, not silent loss",
\* and scripts/smoke.sh:25: "SUCCESS, lossless".  Where the status is SUCCESS, whatever the
\* payload lacks is at least in dropped_fields.
NoSilentLoss ==
  result = "translated" /\ output.status = "SUCCESS" => Lost \subseteq {d[1] : d \in output.dropped}
=============================================================================
