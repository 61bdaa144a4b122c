-------------------------- MODULE ArchiveCatalog ---------------------------
(***************************************************************************)
(* What the recovery analysis relies on of the WAL catalog it is given     *)
(* (internal/formats/barmancloud: WALCollector.Finish hands the catalog of *)
(* each server to AnalyzeRecovery in the same refresh).  TimelineAncestry  *)
(* assumes it, and the catalogs of WALContinuity are shown to have it.     *)
(***************************************************************************)
EXTENDS Integers, EvidenceStates

(* Ranges of a timeline neither touch nor overlap, and if the catalog has  *)
(* a verdict, a gap begins where a range is not the last of its timeline.  *)
Continuous(wal) ==
  /\ \A r, s \in wal.ranges :
       /\ r.start <= r.end
       /\ r.timeline = s.timeline /\ r # s => r.end + 1 < s.start \/ s.end + 1 < r.start
  /\ \A r \in wal.ranges :
       /\ wal.state # Unknown
       /\ \E s \in wal.ranges : s.timeline = r.timeline /\ s.start > r.end
       => \E gap \in wal.gaps : gap.timeline = r.timeline /\ gap.start = r.end + 1

=============================================================================
