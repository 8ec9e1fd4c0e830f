------------------------------ MODULE Lineage ------------------------------
(***************************************************************************)
(* `wkb.py bridge --target restore`: a record is read, its sha checked, and *)
(* its ancestors are walked depth first, oldest first, through whatever      *)
(* parents each of them names, while other processes may be sealing records  *)
(* in the same directory.                                                   *)
(*                                                                         *)
(* A file is absent; or "empty", which is any content in which split_record  *)
(* finds no header, as that of a file just opened for writing; or "garbled", *)
(* cut within a character or with a header that is no mapping; or "torn",    *)
(* with a body of another sha: cut, edited, or with a '\r' in it; or whole. *)
(* A seal takes a file from the first to the last.  No two seals draw the    *)
(* same id here, and nobody edits the parents in a header.                   *)
(*                                                                         *)
(* A definition named Slip... is a mistake a change of wkb.py could make, in *)
(* the place of the definition after it.                                    *)
(***************************************************************************)
EXTENDS Naturals, FiniteSets, SequencesExt

CONSTANTS
  Ids,        \* the ids of records, sealed or not
  Root,       \* the id of the record that is bridged
  MaxParents, \* how many parents a record names at most
  Limit       \* how many calls of _resolve_parent_chain the stack has room for

ASSUME LineageAssumption ==
  /\ IsFiniteSet(Ids) /\ Root \in Ids
  /\ MaxParents \in Nat /\ Limit \in Nat \ {0}

VARIABLES
  file,    \* per id, what <id>.md holds
  parents, \* per id, the parents its record names, in order
  visited, \* the ids the walk has met
  stack,   \* the calls of _resolve_parent_chain: whose parents, and which are to come
  chain,   \* the ancestors found so far, as the calls will return them
  missing, \* the ids of those not found, likewise
  result   \* how the command ended, or "reading" or "walking"; "translated" is another target's end

storeVars == <<file, parents>>
walkVars == <<visited, stack, chain, missing>>
vars == <<storeVars, walkVars, result>>

FileStates == {"absent", "empty", "garbled", "torn", "whole"}
Results == {"reading", "walking", "SUCCESS", "DEGRADED", "FAILED", "error", "traceback", "overflow",
            "translated"}

ParentLists == UNION {[1..n -> Ids] : n \in 0..MaxParents}

TypeOK ==
  /\ file \in [Ids -> FileStates]
  /\ parents \in [Ids -> Seq(Ids)]
  /\ visited \in SUBSET Ids
  /\ stack \in Seq([id : Ids, todo : Seq(Ids)])
  /\ chain \in Seq(Ids) /\ missing \in Seq(Ids)
  /\ result \in Results
  /\ result = "walking" => stack # <<>>

\* The call that is running, and the parent it has come to.
Top == stack[Len(stack)]
Parent == Head(Top.todo)

\* The next parent of the call that is running.
Onward == [stack EXCEPT ![Len(stack)].todo = Tail(@)]

Init ==
  /\ file \in [Ids -> FileStates]
  /\ parents \in [Ids -> ParentLists]
  /\ visited = {} /\ stack = <<>>
  /\ chain = <<>> /\ missing = <<>>
  /\ result = "reading"

-----------------------------------------------------------------------------
(* cmd_bridge and bridge_record, up to the walk *)

\* path.read_text(), split_record(), and the sha of the record itself.
Refuses ==
  /\ result = "reading" /\ file[Root] # "whole"
  /\ result' = CASE file[Root] \in {"absent", "garbled"} -> "traceback"
                 [] file[Root] = "empty" -> "error"
                 [] file[Root] = "torn" -> "FAILED"
  /\ UNCHANGED <<storeVars, walkVars>>

Begins ==
  /\ result = "reading" /\ file[Root] = "whole"
  /\ result' = "walking"
  /\ stack' = <<[id |-> Root, todo |-> parents[Root]]>>
  /\ UNCHANGED <<storeVars, visited, chain, missing>>

-----------------------------------------------------------------------------
(* _resolve_parent_chain.  The lists the calls build are extended by those of *)
(* the calls they make as these return, so that all of them together are one, *)
(* to which each step appends.                                              *)

Walking == result = "walking" /\ Top.todo # <<>>

\* The cycle guard.
Skips ==
  /\ Walking /\ Parent \in visited
  /\ stack' = Onward
  /\ UNCHANGED <<storeVars, visited, chain, missing, result>>

\* Slip: a record that does not parse is passed over.
SlipFindsNone ==
  /\ Walking /\ Parent \notin visited
  /\ file[Parent] \in {"absent", "empty"}
  /\ visited' = visited \cup {Parent}
  /\ missing' = IF file[Parent] = "absent" THEN Append(missing, Parent) ELSE missing
  /\ stack' = Onward
  /\ UNCHANGED <<storeVars, chain, result>>

\* No such file, or split_record raises WkbError.
FindsNone ==
  /\ Walking /\ Parent \notin visited
  /\ file[Parent] \in {"absent", "empty"}
  /\ visited' = visited \cup {Parent}
  /\ missing' = Append(missing, Parent)
  /\ stack' = Onward
  /\ UNCHANGED <<storeVars, chain, result>>

\* Slip: the guard is looked at, but nothing is noted in it.
SlipDescends ==
  /\ Walking /\ Parent \notin visited
  /\ file[Parent] \in {"torn", "whole"} /\ Len(stack) < Limit
  /\ stack' = Append(Onward, [id |-> Parent, todo |-> parents[Parent]])
  /\ UNCHANGED <<storeVars, visited, chain, missing, result>>

\* The record parses, and is walked in turn, its body never compared with its sha.
Descends ==
  /\ Walking /\ Parent \notin visited
  /\ file[Parent] \in {"torn", "whole"} /\ Len(stack) < Limit
  /\ visited' = visited \cup {Parent}
  /\ stack' = Append(Onward, [id |-> Parent, todo |-> parents[Parent]])
  /\ UNCHANGED <<storeVars, chain, missing, result>>

\* A UnicodeDecodeError or an AttributeError, which nothing catches.
Trips ==
  /\ Walking /\ Parent \notin visited
  /\ file[Parent] = "garbled"
  /\ result' = "traceback"
  /\ UNCHANGED <<storeVars, walkVars>>

\* A RecursionError.
Overflows ==
  /\ Walking /\ Parent \notin visited
  /\ file[Parent] \in {"torn", "whole"} /\ Len(stack) = Limit
  /\ result' = "overflow"
  /\ UNCHANGED <<storeVars, walkVars>>

\* Slip: the first call returns like any other.
SlipReturns ==
  /\ result = "walking" /\ Top.todo = <<>>
  /\ chain' = Append(chain, Top.id)
  /\ stack' = Front(stack)
  /\ UNCHANGED <<storeVars, visited, missing, result>>

\* Slip: what a call has found goes before what was there.
SlipPrepends ==
  /\ result = "walking" /\ Top.todo = <<>> /\ Len(stack) > 1
  /\ chain' = <<Top.id>> \o chain
  /\ stack' = Front(stack)
  /\ UNCHANGED <<storeVars, visited, missing, result>>

Returns ==
  /\ result = "walking" /\ Top.todo = <<>> /\ Len(stack) > 1
  /\ chain' = Append(chain, Top.id)
  /\ stack' = Front(stack)
  /\ UNCHANGED <<storeVars, visited, missing, result>>

\* Slip: the record is put at the end of its own chain.
SlipConcludes ==
  /\ result = "walking" /\ Top.todo = <<>> /\ Len(stack) = 1
  /\ result' = IF missing = <<>> THEN "SUCCESS" ELSE "DEGRADED"
  /\ chain' = Append(chain, Top.id)
  /\ stack' = <<>>
  /\ UNCHANGED <<storeVars, visited, missing>>

\* _bridge_to_restore with what the first call returned.
Concludes ==
  /\ result = "walking" /\ Top.todo = <<>> /\ Len(stack) = 1
  /\ result' = IF missing = <<>> THEN "SUCCESS" ELSE "DEGRADED"
  /\ stack' = <<>>
  /\ UNCHANGED <<storeVars, visited, chain, missing>>

Walks == Skips \/ FindsNone \/ Descends \/ Trips \/ Overflows \/ Returns \/ Concludes

BridgeStep == Refuses \/ Begins \/ Walks

-----------------------------------------------------------------------------

\* write_text() of a seal: the file is made, then filled, at once or in parts.
SealStep(i) ==
  /\ \/ file[i] = "absent" /\ file' = [file EXCEPT ![i] = "empty"]
     \/ file[i] = "empty"
        /\ \E s \in {"garbled", "torn", "whole"} : file' = [file EXCEPT ![i] = s]
     \/ file[i] \in {"garbled", "torn"} /\ file' = [file EXCEPT ![i] = "whole"]
  /\ UNCHANGED <<parents, walkVars, result>>

Ended == result \notin {"reading", "walking"}

Next == BridgeStep \/ (~Ended /\ \E i \in Ids : SealStep(i))

Spec == Init /\ [][Next]_vars

\* The command runs; nobody need seal anything.
FairSpec == Spec /\ WF_vars(BridgeStep)

-----------------------------------------------------------------------------

Named(i) == ToSet(parents[i])

Briefed == result \in {"SUCCESS", "DEGRADED"}

\* _resolve_parent_chain: a briefing leaves out no ancestor.  Every parent of the
\* record, and of each ancestor in the chain, is in the chain or counted missing,
\* and none is in both, or in one of them twice.
NothingLost ==
  Briefed
    => /\ \A i \in {Root} \cup ToSet(chain) : Named(i) \subseteq ToSet(chain) \cup ToSet(missing)
       /\ IsInjective(chain \o missing)

\* Nor does it add one: what is in the chain is a parent of the record or of a later
\* member of the chain, and so led to from the record; what is missing is a parent
\* of one of these.
NothingAdded ==
  Briefed
    => /\ \A m \in 1..Len(chain) :
            \/ chain[m] \in Named(Root)
            \/ \E n \in (m + 1)..Len(chain) : chain[m] \in Named(chain[n])
       /\ \A i \in ToSet(missing) : \E j \in {Root} \cup ToSet(chain) : i \in Named(j)

\* The schema does not forbid a cycle (wkb.py:213), but seals make none.
Acyclic ==
  \E age \in [Ids -> 1..Cardinality(Ids)] :
    \A i \in Ids : \A p \in Named(i) : age[p] < age[i]

\* wkb.py:207, 238: without a cycle the chain is oldest first.  No record comes
\* before one of its parents, and the record itself is not in it.
OldestFirst ==
  Briefed /\ Acyclic
    => /\ Root \notin ToSet(chain)
       /\ \A m, n \in 1..Len(chain) : chain[m] \in Named(chain[n]) => m < n

\* wkb.py:213: with a cycle or without, the walk ends, and it runs out of stack only
\* on a chain of as many different ancestors: a cycle never makes it.
RestoreEnds ==
  <>(Ended /\ (result = "overflow" => IsInjective([m \in 1..(Len(stack) - 1) |-> stack[m + 1].id])))
=============================================================================
