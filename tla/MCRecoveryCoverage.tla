------------------------- MODULE MCRecoveryCoverage -------------------------
(***************************************************************************)
(* Small instances of RecoveryCoverage.  Segments hold two LSNs, so that a *)
(* switch and the end of a backup can be told apart within one.            *)
(***************************************************************************)
EXTENDS RecoveryCoverage

SegmentSize == 2

(* The ranges and gaps of the archived positions of each timeline, as      *)
(* WALContinuity compacts them; all gaps have the same status.             *)
Runs(timeline, positions) ==
  {[timeline |-> timeline, start |-> pair[1], end |-> pair[2]] :
     pair \in {p \in positions \X positions :
                 /\ p[1] .. p[2] \subseteq positions
                 /\ p[1] <= p[2]
                 /\ p[1] - 1 \notin positions
                 /\ p[2] + 1 \notin positions}}

Gaps(timeline, positions, status) ==
  {[timeline |-> timeline, start |-> pair[1], end |-> pair[2], status |-> status] :
     pair \in {p \in (1..6) \X (1..6) :
                 /\ p[1] <= p[2]
                 /\ p[1] .. p[2] \cap positions = {}
                 /\ p[1] - 1 \in positions
                 /\ p[2] + 1 \in positions}}

Archive(archived, status) ==
  LET gaps == UNION {Gaps(t, archived[t], status) : t \in DOMAIN archived}
  IN  [state       |-> CASE gaps = {}                           -> Healthy
                         [] gaps # {} /\ status = Candidate -> Warning
                         [] gaps # {} /\ status = Confirmed -> Unhealthy,
       segmentSize |-> SegmentSize,
       ranges      |-> UNION {Runs(t, archived[t]) : t \in DOMAIN archived},
       gaps        |-> gaps]

NoArchive == [state |-> Unknown, segmentSize |-> 0, ranges |-> {}, gaps |-> {}]

Doubtful(archive) == [archive EXCEPT !.state = Unknown]

Records == [parent : {1, 2}, lsn : {3, 4, 5, 6, 8}]

(* Every possible history of timelines 2 and 3 over these LSNs, and some   *)
(* that are impossible: empty, without a parent or an LSN, with a parent   *)
(* that is no ancestor, and with LSNs that decrease.                       *)
MCContents ==
  {<<>>} \cup {<<r>> : r \in Records}
  \cup {<<pair[1], pair[2]>> :
          pair \in {p \in Records \X Records : p[1].parent = 1 /\ p[1].lsn < p[2].lsn}}
  \cup {<<[parent |-> 0, lsn |-> 3]>>, <<[parent |-> 1, lsn |-> 0]>>, <<[parent |-> 3, lsn |-> 3]>>,
        <<[parent |-> 1, lsn |-> 5], [parent |-> 2, lsn |-> 3]>>}

Backup(timeline, begin, end, endLSN) ==
  [id |-> "plain", state |-> Healthy, systemID |-> NoSystemID, segmentSize |-> SegmentSize,
   timeline |-> timeline, beginTimeline |-> timeline, begin |-> begin,
   endTimeline |-> timeline, end |-> end, endLSN |-> endLSN]

-----------------------------------------------------------------------------
(* Paths: one backup, every combination of archive and histories. *)

PathArchives ==
  {Archive(<<one, two, three>>, status) :
     one    \in {1..4, 1..2, {1, 2, 4}, {1, 3, 4}, 2..4},
     two    \in {{}, 2..4, {2, 4}, 3..4},
     three  \in {{}, 3..4, {2, 4}},
     status \in {Candidate, Confirmed}}
  \cup {NoArchive, Doubtful(Archive(<<1..4, 2..4, {}>>, Candidate))}

PathInventories ==
  {<<Backup(1, 1, 1, 0)>>, <<Backup(1, 1, 2, 5)>>, <<Backup(1, 2, 2, 4)>>,
   <<Backup(2, 2, 3, 0)>>, <<[Backup(1, 1, 1, 0) EXCEPT !.timeline = 0]>>}

-----------------------------------------------------------------------------
(* Inventories: several backups, of one cluster or of two, on a few        *)
(* archives, with a limit that their paths reach.                          *)

InventoryArchives ==
  {Archive(<<1..4, 2..4, 3..4>>, Candidate),
   Archive(<<1..4, 2..4, {}>>, Candidate),
   Archive(<<1..4, {}, {}>>, Candidate),
   Archive(<<{1, 2, 4}, 2..4, {}>>, Confirmed),
   Archive(<<1..4, 2..4, {}, {4}>>, Candidate),
   NoArchive}

(* With and without an object that says it is the history of timeline 1. *)
MCListings ==
  {[t \in {2, 3} |-> n[t - 1]] : n \in {<<0, 0>>, <<1, 0>>, <<0, 1>>, <<1, 1>>, <<2, 1>>}}
  \cup {<<1, 1>>, <<1, 1, 1>>}

CONSTANTS s1, s2

Of(backup, id) == [backup EXCEPT !.systemID = id]

Usable == {Backup(1, 1, 1, 0), Of(Backup(1, 1, 2, 5), s1), Of(Backup(1, 2, 2, 4), s2), Backup(2, 2, 3, 0)}

Odd ==
  {[Backup(1, 1, 1, 0) EXCEPT !.state = Warning],
   [Backup(1, 1, 1, 0) EXCEPT !.segmentSize = 4],
   [Backup(1, 2, 1, 0) EXCEPT !.timeline = 0],
   [Backup(1, 1, 1, 0) EXCEPT !.id = "odd"],
   Of([Backup(1, 1, 1, 0) EXCEPT !.state = Unhealthy], s1)}

SeveralBackups ==
  {<<>>} \cup {<<b>> : b \in Odd} \cup {<<b, c>> : b, c \in Usable \cup Odd}
  \cup {<<Backup(1, 1, 1, 0), Backup(1, 1, 2, 5), b>> : b \in Odd}

MCArchives == PathArchives \cup InventoryArchives

MCInventories ==
  [archive \in MCArchives |->
     (IF archive \in PathArchives THEN PathInventories ELSE {})
     \cup (IF archive \in InventoryArchives THEN SeveralBackups ELSE {})]
=============================================================================
