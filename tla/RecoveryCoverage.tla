-------------------------- MODULE RecoveryCoverage --------------------------
(***************************************************************************)
(* Recovery coverage of one Barman server (internal/formats/barmancloud/   *)
(* recovery.go, AnalyzeRecovery): when its timeline histories are judged,  *)
(* every structurally usable backup is followed through the WAL archive,   *)
(* on its own timeline and on each timeline that a valid history connects, *)
(* to the first position that is not proven.                               *)
(*                                                                         *)
(* Backups come sorted by name, which is their index here.  Paths are      *)
(* listed in the order they are found; the code sorts them by backup and   *)
(* target before it returns.  Reasons, assumptions and receipt times are   *)
(* left out, and names but for whether they are acceptable.                *)
(***************************************************************************)
EXTENDS TimelineAncestry, SequencesExt

CONSTANTS
  Inventories,                \* the backup catalogs that may come with each archive
  SystemIDs,                  \* PostgreSQL system identifiers
  NoSystemID,                 \* metadata without one
  MaxRecoveryPaths,
  MinimumConfigured,          \* ExpectedMinimumRedundancy is set, to
  ExpectedMinimumRedundancy,
  PolicyConfigured            \* ExpectedRetentionPolicy is set

(* What the analysis reads in the metadata of a backup; timeline 0, end    *)
(* LSN 0 and segment size 0 mean that the metadata does not say.  An end   *)
(* LSN that does not parse is one that no switch comes after.  The name of *)
(* a backup is that of its directory (backupObjectKey), whatever it is: an *)
(* odd one is longer than 256 or has a control character.                  *)
BackupMetadata ==
  [id : {"plain", "odd"}, state : State, systemID : SystemIDs \cup {NoSystemID}, segmentSize : Nat,
   timeline : Nat, beginTimeline : Nat, begin : Nat, endTimeline : Nat, end : Nat,
   endLSN : Nat]

ASSUME InventoriesAssumption == Inventories \in [Archives -> SUBSET Seq(BackupMetadata)]

ASSUME OptionsAssumption ==
  /\ MaxRecoveryPaths \in Nat \ {0}
  /\ MinimumConfigured \in BOOLEAN
  /\ ExpectedMinimumRedundancy \in Nat
  /\ PolicyConfigured \in BOOLEAN

Frontier         == "frontier"
CandidateLimited == "candidate-limited"
GapLimited       == "gap-limited"
UnknownLimited   == "unknown-limited"
CoverageStop == {Frontier, CandidateLimited, GapLimited, UnknownLimited}

(* A path of which nothing was followed has timeline and frontier 0. *)
RecoveryPath ==
  [backup : Nat \ {0}, target : Nat, state : State, stop : CoverageStop,
   timeline : Nat, frontier : Nat]

VARIABLES
  backups,         \* the server's backups, by name
  next,            \* the backup to be followed next
  paths,           \* recovery paths found so far
  coverageState,   \* their verdict
  retentionState   \* the verdict on retention

coverageVars == <<backups, next, paths, coverageState, retentionState>>

vars == <<ancestryVars, coverageVars>>

-----------------------------------------------------------------------------
(* Following the archive on one timeline *)

Reached(frontier, state, stop) == [frontier |-> frontier, state |-> state, stop |-> stop]

NotObserved(position) == Reached(position, Unknown, UnknownLimited)

(* The range of a timeline that holds a position: none, or one. *)
Holding(timeline, position) ==
  {r \in rangesForTimeline(timeline) : r.start <= position /\ position <= r.end}

IsLastRange(range) ==
  \A r \in rangesForTimeline(range.timeline) : r.start <= range.start

(* gapAfter, and what each status of a gap means to a path. *)
StopAfter(range) ==
  LET statuses == {gap.status : gap \in {g \in wal.gaps : /\ g.timeline = range.timeline
                                                          /\ g.start = range.end + 1}}
  IN  CASE Confirmed \in statuses -> Reached(range.end, Unhealthy, GapLimited)
        [] Confirmed \notin statuses /\ Candidate \in statuses ->
             Reached(range.end, Warning, CandidateLimited)
        [] statuses = {} -> NotObserved(range.end)

(* Mutant: the end of the archive is as good as the required segment.      *)
ReachFrontier(timeline, start, required) ==
  IF Holding(timeline, start) = {}
  THEN NotObserved(start)
  ELSE LET range == CHOOSE r \in Holding(timeline, start) : TRUE
       IN  IF range.end >= required \/ IsLastRange(range)
           THEN Reached(required, Healthy, Frontier)
           ELSE StopAfter(range)

(* Mutant: a gap after the required segment is looked at.                  *)
ReachEndOfRange(timeline, start, required) ==
  IF Holding(timeline, start) = {}
  THEN NotObserved(start)
  ELSE LET range == CHOOSE r \in Holding(timeline, start) : TRUE
       IN  IF IsLastRange(range) THEN Reached(required, Healthy, Frontier) ELSE StopAfter(range)

(* Every segment from start to required. *)
reachPosition(timeline, start, required) ==
  IF Holding(timeline, start) = {}
  THEN NotObserved(start)
  ELSE LET range == CHOOSE r \in Holding(timeline, start) : TRUE
       IN  CASE range.end >= required -> Reached(required, Healthy, Frontier)
             [] range.end < required /\ ~IsLastRange(range) -> StopAfter(range)
             [] range.end < required /\ IsLastRange(range)  -> NotObserved(range.end)

(* As far as the archive goes. *)
contiguousFrontier(timeline, start) ==
  IF Holding(timeline, start) = {}
  THEN NotObserved(start)
  ELSE LET range == CHOOSE r \in Holding(timeline, start) : TRUE
       IN  IF IsLastRange(range) THEN Reached(range.end, Healthy, Frontier)
                                 ELSE StopAfter(range)

-----------------------------------------------------------------------------
(* Paths of one backup *)

unknownPath(b, target) ==
  [backup |-> b, target |-> target, state |-> Unknown, stop |-> UnknownLimited,
   timeline |-> 0, frontier |-> 0]

AnchorsAreValid(backup) ==
  /\ backup.segmentSize > 0
  /\ backup.beginTimeline > 0
  /\ backup.beginTimeline = backup.endTimeline
  /\ backup.begin <= backup.end
  /\ backup.timeline \in {0, backup.beginTimeline}

branchBeforeBackup(edge, backup) ==
  IF backup.endLSN # 0 THEN edge.lsn <= backup.endLSN
                       ELSE edge.position <= backup.end

(* The part of a history that starts on a timeline. *)
descendantEdges(edges, start) ==
  LET from == {i \in DOMAIN edges : edges[i].parent = start}
  IN  IF from = {} THEN <<>>
                   ELSE SubSeq(edges, CHOOSE i \in from : TRUE, Len(edges))

(* What follows the segments of the backup itself: on to each switch in    *)
(* turn, which both timelines must hold, and then to the frontier.         *)
Leg(timeline, start, edge) ==
  LET reached == reachPosition(timeline, start, edge.position)
  IN  IF reached.state = Healthy /\ ~rangeContains(edge.child, edge.position)
      THEN NotObserved(reached.frontier)
      ELSE reached

(* The legs of a path, in order; it ends at the first that is not healthy. *)
Legs(backup, edges) ==
  LET n == Len(edges)
      TimelineOf(i) == IF i = 1 THEN backup.beginTimeline ELSE edges[i - 1].child
      StartOf(i)    == IF i = 1 THEN backup.end ELSE edges[i - 1].position
  IN  [i \in 0 .. n + 1 |->
         [timeline |-> IF i = 0 THEN backup.beginTimeline ELSE TimelineOf(i),
          reached  |-> CASE i = 0      -> reachPosition(backup.beginTimeline, backup.begin, backup.end)
                         [] i \in 1..n -> Leg(TimelineOf(i), StartOf(i), edges[i])
                         [] i = n + 1  -> contiguousFrontier(TimelineOf(i), StartOf(i))]]

evaluatePath(b, target, edges) ==
  IF wal.state = Unknown
  THEN unknownPath(b, target)
  ELSE LET legs   == Legs(backups[b], edges)
           last   == Len(edges) + 1
           broken == {i \in 0 .. last : legs[i].reached.state # Healthy}
           leg    == legs[IF broken = {} THEN last ELSE CHOOSE i \in broken : \A j \in broken : i <= j]
       IN  [backup   |-> b,
            target   |-> target,
            state    |-> leg.reached.state,
            stop     |-> leg.reached.stop,
            timeline |-> leg.timeline,
            frontier |-> leg.reached.frontier]

(* The edges of a history that lead on from a backup, and the valid       *)
(* histories that have some.                                               *)
Descent(h, backup) == descendantEdges(h.edges, backup.beginTimeline)

Continuing(backup) ==
  {h \in histories : /\ h.state = Healthy
                     /\ h.timeline # backup.beginTimeline
                     /\ Descent(h, backup) # <<>>}

(* Those that leave the timeline of the backup before it is consistent. *)
TooEarly(backup) ==
  {h \in Continuing(backup) : branchBeforeBackup(Descent(h, backup)[1], backup)}

(* Mutant: a timeline that branched off too early is not told from one    *)
(* that nothing connects.                                                  *)
ConnectedTimelinesOnly(backup) == {}

NotApplicable(backup) ==
  UNION {{edge.child : edge \in EdgesOf(Descent(h, backup))} : h \in TooEarly(backup)}

(* The timelines to follow the backup to, each with the edges that lead    *)
(* there and the history that has them; of several the first counts.       *)
Met(backup) ==
  UNION {{[timeline |-> Descent(h, backup)[i].child,
           edges    |-> SubSeq(Descent(h, backup), 1, i),
           via      |-> h.timeline] : i \in DOMAIN Descent(h, backup)} :
           h \in Continuing(backup) \ TooEarly(backup)}

FirstMet(backup) ==
  {target \in Met(backup) :
     \A other \in Met(backup) : other.timeline = target.timeline => target.via <= other.via}

(* Histories are gone through by timeline, each from edge to edge. *)
FoundBefore(s, t) ==
  \/ s.via < t.via
  \/ s.via = t.via /\ Len(s.edges) < Len(t.edges)

(* The elements of a set in order. *)
Sorted(S, Before(_, _)) ==
  CHOOSE s \in SetToSeqs(S) : \A i, j \in DOMAIN s : i < j => Before(s[i], s[j])

Targets(backup) == Sorted(FirstMet(backup), FoundBefore)

(* Mutant: a timeline that was followed is looked at again.                *)
UnconnectedOrFollowed(backup) ==
  {t \in observedTimelines : t > backup.beginTimeline /\ t \notin NotApplicable(backup)}

(* Later timelines in the archive that nothing connects to the backup. *)
Unconnected(backup) ==
  {t \in observedTimelines :
     /\ t > backup.beginTimeline
     /\ \A target \in FirstMet(backup) : target.timeline # t
     /\ t \notin NotApplicable(backup)}

(* All paths of a backup, in the order they are found. *)
PathsOf(b) ==
  LET backup == backups[b]
      lost   == Sorted(Unconnected(backup), <)
  IN  <<evaluatePath(b, backup.beginTimeline, <<>>)>>
      \o [i \in DOMAIN Targets(backup) |->
            evaluatePath(b, Targets(backup)[i].timeline, Targets(backup)[i].edges)]
      \o [i \in DOMAIN lost |-> unknownPath(b, lost[i])]

(* The limit is looked at when a path has been added, other than a         *)
(* backup's first; the path that reaches it is replaced by one that says   *)
(* so, and the analysis of the server ends.                                *)
LimitedAt(found) ==
  LET room == MaxRecoveryPaths - Len(paths)
      cut  == IF room > 2 THEN room ELSE 2
  IN  IF Len(found) >= cut THEN cut ELSE 0

-----------------------------------------------------------------------------
Init ==
  /\ Start
  /\ backups \in Inventories[wal]
  /\ next = 1
  /\ paths = <<>>
  /\ coverageState = Unknown
  /\ retentionState = Unknown

JudgeHistories == AncestryNext /\ UNCHANGED coverageVars

Following == phase = "judged" /\ next <= Len(backups)

conflictingSystemIDs ==
  \E b, c \in DOMAIN backups :
    /\ backups[b].state = Healthy /\ backups[b].systemID # NoSystemID
    /\ backups[c].state = Healthy /\ backups[c].systemID # NoSystemID
    /\ backups[b].systemID # backups[c].systemID

IsUsable(b) == backups[b].state = Healthy

(* Backups of different clusters: no archive can be told to be theirs. *)
RefuseConflicting ==
  /\ Following
  /\ conflictingSystemIDs
  /\ LET usable == Sorted({b \in DOMAIN backups : IsUsable(b)}, <)
     IN  paths' = [i \in DOMAIN usable |-> unknownPath(usable[i], backups[usable[i]].timeline)]
  /\ next' = Len(backups) + 1
  /\ UNCHANGED <<ancestryVars, backups, coverageState, retentionState>>

SkipBackup ==
  /\ Following
  /\ ~conflictingSystemIDs
  /\ ~IsUsable(next)
  /\ next' = next + 1
  /\ UNCHANGED <<ancestryVars, backups, paths, coverageState, retentionState>>

CannotAnchor(backup) ==
  ~AnchorsAreValid(backup) \/ backup.segmentSize # wal.segmentSize

RejectAnchors ==
  /\ Following
  /\ ~conflictingSystemIDs
  /\ IsUsable(next)
  /\ CannotAnchor(backups[next])
  /\ paths' = Append(paths, unknownPath(next, 0))
  /\ next' = next + 1
  /\ UNCHANGED <<ancestryVars, backups, coverageState, retentionState>>

FollowBackup ==
  /\ Following
  /\ ~conflictingSystemIDs
  /\ IsUsable(next)
  /\ ~CannotAnchor(backups[next])
  /\ LimitedAt(PathsOf(next)) = 0
  /\ paths' = paths \o PathsOf(next)
  /\ next' = next + 1
  /\ UNCHANGED <<ancestryVars, backups, coverageState, retentionState>>

(* Mutant: the path at the limit is kept as it is.                         *)
StopQuietlyAtLimit ==
  /\ Following
  /\ ~conflictingSystemIDs
  /\ IsUsable(next)
  /\ ~CannotAnchor(backups[next])
  /\ LET cut == LimitedAt(PathsOf(next))
     IN  /\ cut > 0
         /\ paths' = paths \o SubSeq(PathsOf(next), 1, cut)
  /\ next' = Len(backups) + 1
  /\ UNCHANGED <<ancestryVars, backups, coverageState, retentionState>>

StopAtLimit ==
  /\ Following
  /\ ~conflictingSystemIDs
  /\ IsUsable(next)
  /\ ~CannotAnchor(backups[next])
  /\ LET cut == LimitedAt(PathsOf(next))
     IN  /\ cut > 0
         /\ paths' = paths \o SubSeq(PathsOf(next), 1, cut - 1) \o <<unknownPath(next, 0)>>
  /\ next' = Len(backups) + 1
  /\ UNCHANGED <<ancestryVars, backups, coverageState, retentionState>>

coverageRollup == Rollup({paths[i].state : i \in DOMAIN paths})

(* A retention policy is not interpreted, so that it says nothing. *)
retentionSummary ==
  LET usable == Cardinality({b \in DOMAIN backups : IsUsable(b)})
  IN  CASE PolicyConfigured -> Unknown
        [] ~PolicyConfigured /\ MinimumConfigured /\ usable < ExpectedMinimumRedundancy -> Unhealthy
        [] OTHER -> Healthy

RollUpRecovery ==
  /\ phase = "judged"
  /\ next > Len(backups)
  /\ phase' = "done"
  /\ coverageState' = coverageRollup
  /\ retentionState' = retentionSummary
  /\ UNCHANGED <<wal, listed, todo, histories, known, timelineState, backups, next, paths>>

(* RecoveryCatalog.Validate, on what can vary: the numbers of paths and    *)
(* histories, edges that lead on, the names of backups, and one path from  *)
(* a backup to a target.                                                   *)
Validate ==
  /\ Len(paths) <= MaxRecoveryPaths
  /\ Cardinality(histories) <= MaxHistoryFiles
  /\ \A h \in histories :
       /\ h.timeline >= 2
       /\ Len(h.edges) <= MaxHistoryEntries
       /\ \A edge \in EdgesOf(h.edges) : edge.parent < edge.child
  /\ \A g, h \in histories : g.timeline = h.timeline => g = h
  /\ \A i \in DOMAIN paths : backups[paths[i].backup].id = "plain"
  /\ \A i, j \in DOMAIN paths :
       /\ paths[i].backup = paths[j].backup
       /\ paths[i].target = paths[j].target
       => i = j

Next ==
  \/ JudgeHistories
  \/ RefuseConflicting
  \/ SkipBackup
  \/ RejectAnchors
  \/ FollowBackup
  \/ StopAtLimit
  \/ RollUpRecovery

Spec == Init /\ [][Next]_vars

TypeOK ==
  /\ AncestryTypeOK
  /\ backups \in Seq(BackupMetadata)
  /\ next \in 1 .. Len(backups) + 1
  /\ paths \in Seq(RecoveryPath)
  /\ coverageState \in State
  /\ retentionState \in State

-----------------------------------------------------------------------------
(* Properties.  What a recovery needs is worked out again below, from the  *)
(* archived positions and the edges of one valid history, without ranges,  *)
(* legs or prefixes.                                                       *)

Archived(timeline) == UNION {r.start .. r.end : r \in rangesForTimeline(timeline)}

(* A switch at or before this LSN, or in this segment, cannot be followed. *)
AfterBackup(edge, backup) ==
  /\ backup.endLSN # 0 => edge.lsn > backup.endLSN
  /\ backup.endLSN = 0 => edge.position > backup.end

Children(edges) == {edge.child : edge \in edges}

(* The switches from one timeline to another, according to one valid       *)
(* history; none to a timeline itself.                                     *)
Lineages(from, to) ==
  {edges \in UNION ({SUBSET EdgesOf(h.edges) : h \in {g \in histories : g.state = Healthy}} \cup {{{}}}) :
     /\ edges = {} => from = to
     /\ edges # {} =>
          /\ to \in Children(edges)
          /\ from \notin Children(edges)
          /\ \A edge \in edges : /\ edge.parent # to
                                 /\ edge.parent \in Children(edges) \cup {from}}

Entry(edges, backup, timeline) ==
  IF timeline = backup.beginTimeline
  THEN backup.begin
  ELSE (CHOOSE edge \in edges : edge.child = timeline).position

(* Where a lineage leaves a timeline that it does not end on. *)
Exit(edges, timeline) == (CHOOSE edge \in edges : edge.parent = timeline).position

HasArchived(timeline, first, last) == first .. last \subseteq Archived(timeline)

(* A recovery that starts with the backup can go on to the newest segment  *)
(* of the target.                                                          *)
Replayable(backup, target) ==
  /\ wal.state # Unknown
  /\ HasArchived(backup.beginTimeline, backup.begin, backup.end)
  /\ \E edges \in Lineages(backup.beginTimeline, target) :
       /\ \A edge \in edges :
            /\ AfterBackup(edge, backup)
            /\ HasArchived(edge.parent, Entry(edges, backup, edge.parent), edge.position)
       /\ Entry(edges, backup, target) \in Archived(target)
       /\ \A position \in Archived(target) :
            HasArchived(target, Entry(edges, backup, target), position)

Anchored(b) == IsUsable(b) /\ ~CannotAnchor(backups[b]) /\ ~conflictingSystemIDs

LimitReached ==
  \E i \in DOMAIN paths : paths[i].target = 0 /\ Anchored(paths[i].backup)

PathsTo(b, target) == {i \in DOMAIN paths : paths[i].backup = b /\ paths[i].target = target}

(* evaluatePath: a path is healthy exactly if the archive holds every      *)
(* segment that a recovery along one valid history needs, from the         *)
(* beginning of the backup over each switch to the newest segment of the   *)
(* target, and each switch is after the end of the backup.                 *)
CoverageIsExact ==
  /\ \A i \in DOMAIN paths :
       paths[i].state = Healthy =>
         /\ Anchored(paths[i].backup)
         /\ Replayable(backups[paths[i].backup], paths[i].target)
         /\ paths[i].stop = Frontier
         /\ paths[i].timeline = paths[i].target
         /\ paths[i].frontier \in Archived(paths[i].target)
         /\ \A position \in Archived(paths[i].target) : position <= paths[i].frontier
  /\ ~LimitReached =>
       \A b \in 1 .. next - 1 : \A target \in observedTimelines :
         Anchored(b) /\ Replayable(backups[b], target)
           => \E i \in PathsTo(b, target) : paths[i].state = Healthy

(* reachPosition, contiguousFrontier: a path stops at a gap only if the    *)
(* gap is the first thing missing from what it needs.  A gap before the    *)
(* backup, on a timeline the path does not take, or after the switch that  *)
(* leaves a timeline stops nothing.                                        *)
GapsThatStopAreRequired ==
  \A i \in DOMAIN paths : paths[i].stop \in {CandidateLimited, GapLimited} =>
    LET path   == paths[i]
        backup == backups[path.backup]
    IN  /\ path.state = IF path.stop = GapLimited THEN Unhealthy ELSE Warning
        /\ \E gap \in wal.gaps :
             /\ gap.timeline = path.timeline
             /\ gap.start = path.frontier + 1
             /\ gap.status = IF path.stop = GapLimited THEN Confirmed ELSE Candidate
        /\ \E edges \in Lineages(backup.beginTimeline, path.target) :
             /\ path.timeline \in {backup.beginTimeline} \cup Children(edges)
             /\ Entry(edges, backup, path.timeline) <= path.frontier
             /\ HasArchived(path.timeline, Entry(edges, backup, path.timeline), path.frontier)
             /\ \/ path.timeline = path.target
                \/ path.timeline = backup.beginTimeline /\ path.frontier < backup.end
                \/ path.frontier < Exit(edges, path.timeline)

(* recoveryPaths: each later timeline in the archive is accounted for once *)
(* with each backup, by a path of its own or because it branched off       *)
(* before the backup was consistent, whichever histories mention it.       *)
TimelinesAreAccountedFor ==
  ~LimitReached =>
    \A b \in 1 .. next - 1 : Anchored(b) =>
      \A t \in observedTimelines : t > backups[b].beginTimeline =>
        LET tooEarly == \E edges \in Lineages(backups[b].beginTimeline, t) :
                          \E edge \in edges : ~AfterBackup(edge, backups[b])
        IN  Cardinality(PathsTo(b, t)) = IF tooEarly THEN 0 ELSE 1

(* coverageRollup: coverage is called healthy only if every usable backup  *)
(* can be replayed to the newest segment of its timeline and of each later *)
(* one that did not branch off before it; whatever the analysis gave up    *)
(* on, at its limit or otherwise, is not passed over.                      *)
HealthyCoverageIsWhole ==
  coverageState = Healthy =>
    /\ \E b \in DOMAIN backups : IsUsable(b)
    /\ \A b \in DOMAIN backups : IsUsable(b) =>
         /\ Anchored(b)
         /\ \A t \in observedTimelines : t >= backups[b].beginTimeline =>
              \/ Replayable(backups[b], t)
              \/ \E edges \in Lineages(backups[b].beginTimeline, t) :
                   \E edge \in edges : ~AfterBackup(edge, backups[b])

(* RecoveryCatalog.Validate: what the analysis yields is refused, and with *)
(* it every snapshot of the repository, only if timeline 1 has a history   *)
(* object (recovery.go:241), if the missing histories exceed the limit     *)
(* that the listed ones kept (273), if paths that are added without a look *)
(* at the limit, a backup's first, do (362), or if a usable backup lies in *)
(* a directory of an odd name, which the catalog takes (catalog.go:254)    *)
(* and the validation does not (753).  Nothing else that is listed or      *)
(* archived can make the paths or histories of a server invalid.           *)
RefusalsAreExplained ==
  phase = "done" /\ ~Validate =>
    \/ \E h \in histories : h.timeline = 1
    \/ /\ Cardinality(histories) > MaxHistoryFiles
       /\ \E h \in histories : h.timeline \in MissingTimelines
    \/ /\ Len(paths) > MaxRecoveryPaths
       /\ \A i \in MaxRecoveryPaths + 1 .. Len(paths) :
            LET backup == backups[paths[i].backup]
            IN  paths[i].target \in {0, backup.timeline, backup.beginTimeline}
    \/ \E b \in DOMAIN backups : IsUsable(b) /\ backups[b].id = "odd"

=============================================================================
