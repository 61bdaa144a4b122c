---------------------------- MODULE Publications ----------------------------
(***************************************************************************)
(* What a reader of the evidence API may rely on, whatever the scanner is  *)
(* doing: at every moment there is one current publication, and it changes *)
(* in three ways only.  A complete refresh publishes new evidence under    *)
(* its own generation; a failed one republishes the same evidence, under   *)
(* a new revision and marked stale; a restart forgets everything.          *)
(*                                                                         *)
(* Scanner implements this specification, and EvidenceEngine serves pages  *)
(* from it.                                                                *)
(***************************************************************************)
EXTENDS Naturals

CONSTANTS
  Revisions,   \* revisions one process may publish, natural numbers
  Evidences,   \* what a complete scan may find
  NoEvidence   \* what is published before any complete scan

VARIABLE current

Unpublished ==
  [revision |-> 0, generation |-> 0, stale |-> FALSE, evidence |-> NoEvidence]

CurrentType ==
  [revision   : Nat,
   generation : Nat,
   stale      : BOOLEAN,
   evidence   : Evidences \cup {NoEvidence}]

Init == current = Unpublished

PublishComplete ==
  \E revision \in Revisions :
    /\ revision > current.revision
    /\ \E evidence \in Evidences :
         current' = [revision   |-> revision,
                     generation |-> revision,
                     stale      |-> FALSE,
                     evidence   |-> evidence]

PublishFailure ==
  \E revision \in Revisions :
    /\ revision > current.revision
    /\ current' = [revision   |-> revision,
                   generation |-> current.generation,
                   stale      |-> TRUE,
                   evidence   |-> current.evidence]

Restart == current' = Unpublished

Next == PublishComplete \/ PublishFailure \/ Restart

Spec == Init /\ [][Next]_current

=============================================================================
