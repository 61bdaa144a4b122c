--------------------------- MODULE WALContinuity ---------------------------
(***************************************************************************)
(* WAL continuity of one Barman server (internal/formats/barmancloud/      *)
(* wal.go): a scan hands the archived objects to a collector in listing    *)
(* order, the collector compacts them into ranges of a log file, and       *)
(* Finish turns the ranges into archive positions, gaps and a verdict.  A  *)
(* gap that the previous catalog also held is confirmed.                   *)
(*                                                                         *)
(* The archive is the environment.  Between two scans, and while one is    *)
(* being paginated, objects may be archived and expired, so a scan may     *)
(* list any of the objects.  A provider should list in key order; an       *)
(* object may come up to Lag places late.  The segment size comes from the *)
(* backup metadata, which also changes from scan to scan.                  *)
(*                                                                         *)
(* Servers do not share anything but the listing, so one is modelled.  An  *)
(* object is what its key says of it; receipt times are left out.          *)
(***************************************************************************)
EXTENDS Integers, SequencesExt, ArchiveCatalog

CONSTANTS
  Objects,         \* the archived objects of the server, in key order
  Lag,             \* how late an object may be listed; 0 is key order
  SegmentsPerLog,  \* 2^32 / segment size, for the segment sizes in use
  Metadata,        \* what backups may record of their server
  OldestVersion,   \* 90300, the first PostgreSQL version that is supported
  NoContext,       \* the metadata records no segment size, or conflicting ones
  MaxRanges,       \* MaxWALRanges
  MaxDiagnostics,  \* MaxWALDiagnostics
  MaxGeneration    \* bound on the scans of one process

(* Where an object lies, what form its name has without the compression    *)
(* suffix, and whether that suffix is a known one or absent.  "malformed"  *)
(* is the name of no segment, partial, backup or history file.  A key with *)
(* a control character has it in what no class of names allows.            *)
Place == {"root", "hash-directory", "elsewhere"}
Form == {"segment", "partial", "backup", "history", "malformed"}
Text == {"printable", "control"}

ASSUME ObjectsAssumption ==
  /\ Objects \in Seq([key      : Text,
                      place    : Place,
                      form     : Form,
                      suffix   : {"known", "unsupported"},
                      timeline : Nat,
                      log      : Nat,
                      segment  : Nat])
  /\ \A k \in DOMAIN Objects :
       Objects[k].key = "control" =>
         \/ Objects[k].place = "elsewhere"
         \/ Objects[k].form = "malformed"
         \/ Objects[k].suffix = "unsupported"

(* Zero is what a backup does not record; a number of segments outside     *)
(* SegmentsPerLog is one that no valid segment size has.                   *)
ASSUME ContextAssumption ==
  /\ SegmentsPerLog \subseteq {2 ^ k : k \in 2..12}
  /\ Metadata \subseteq [version : Nat, segments : Nat]
  /\ OldestVersion \in Nat \ {0}
  /\ NoContext \notin SegmentsPerLog

ASSUME LimitsAssumption ==
  /\ Lag \in Nat
  /\ MaxRanges \in Nat \ {0}
  /\ MaxDiagnostics \in Nat
  /\ MaxGeneration \in Nat

-----------------------------------------------------------------------------
(* What is listed, and what the backups record *)

(* WALClass. *)
Class == {"segment", "partial", "backup", "history", "unknown"}

(* ClassifyWALObject: a name means something only in its own directory.    *)
Classify(object) ==
  IF \/ object.suffix = "unsupported"
     \/ object.timeline = 0
     \/ object.form = "malformed"
     \/ object.form = "history" /\ object.place # "root"
     \/ object.form # "history" /\ object.place # "hash-directory"
  THEN "unknown"
  ELSE object.form

ValidWALSegmentSize(segments) == segments \in SegmentsPerLog

(* walContext: what the backups that record anything agree on. *)
Context(backups) ==
  LET telling == {b \in backups : b.version # 0 /\ b.segments # 0}
      agreed  == CHOOSE b \in telling : TRUE
  IN  IF /\ telling # {}
         /\ \A b \in telling : b.version >= OldestVersion /\ ValidWALSegmentSize(b.segments)
         /\ telling = {agreed}
      THEN agreed.segments
      ELSE NoContext

-----------------------------------------------------------------------------
(* The collector: walServerBuilder *)

(* A run of adjacent segments of one log file. *)
RawRange == [timeline : Nat, log : Nat, start : Nat, end : Nat]

NewBuilder ==
  [ranges               |-> <<>>,
   duplicates           |-> 0,
   unknown              |-> 0,
   diagnostics          |-> 0,
   unprintable          |-> FALSE,
   diagnosticsTruncated |-> FALSE,
   rangesTruncated      |-> FALSE,
   outOfOrder           |-> FALSE]

(* Mutant: one range more than the limit.                                  *)
AppendRangeBeyondLimit(b, object) ==
  IF Len(b.ranges) > MaxRanges
  THEN [b EXCEPT !.rangesTruncated = TRUE]
  ELSE [b EXCEPT !.ranges = Append(@, [timeline |-> object.timeline,
                                       log      |-> object.log,
                                       start    |-> object.segment,
                                       end      |-> object.segment])]

AppendRange(b, object) ==
  IF Len(b.ranges) >= MaxRanges
  THEN [b EXCEPT !.rangesTruncated = TRUE]
  ELSE [b EXCEPT !.ranges = Append(@, [timeline |-> object.timeline,
                                       log      |-> object.log,
                                       start    |-> object.segment,
                                       end      |-> object.segment])]

(* Diagnostics are counted; unprintable is that one of those that are kept *)
(* names a key with a control character.                                   *)
AddDiagnostic(b, object) ==
  IF b.diagnostics >= MaxDiagnostics
  THEN [b EXCEPT !.diagnosticsTruncated = TRUE]
  ELSE [b EXCEPT !.diagnostics = @ + 1,
                 !.unprintable = @ \/ object.key = "control"]

SameLog(range, object) ==
  range.timeline = object.timeline /\ range.log = object.log

Repeats(range, object) == SameLog(range, object) /\ range.end = object.segment

Extends(range, object) == SameLog(range, object) /\ range.end + 1 = object.segment

Regresses(range, object) ==
  \/ object.timeline < range.timeline
  \/ /\ object.timeline = range.timeline
     /\ \/ object.log < range.log
        \/ object.log = range.log /\ object.segment < range.end

(* Mutant: a segment listed out of order is set aside and not remembered.  *)
AddSegmentForgetting(b, object) ==
  CASE b.ranges = <<>> -> AppendRange(b, object)
    [] b.ranges # <<>> /\ Repeats(Last(b.ranges), object) ->
         AddDiagnostic([b EXCEPT !.duplicates = @ + 1], object)
    [] b.ranges # <<>> /\ Extends(Last(b.ranges), object) ->
         [b EXCEPT !.ranges[Len(b.ranges)].end = object.segment]
    [] b.ranges # <<>> /\ Regresses(Last(b.ranges), object) -> AddDiagnostic(b, object)
    [] OTHER -> AppendRange(b, object)

AddSegment(b, object) ==
  CASE b.ranges = <<>> -> AppendRange(b, object)
    [] b.ranges # <<>> /\ Repeats(Last(b.ranges), object) ->
         AddDiagnostic([b EXCEPT !.duplicates = @ + 1], object)
    [] b.ranges # <<>> /\ Extends(Last(b.ranges), object) ->
         [b EXCEPT !.ranges[Len(b.ranges)].end = object.segment]
    [] b.ranges # <<>> /\ Regresses(Last(b.ranges), object) ->
         AddDiagnostic([b EXCEPT !.outOfOrder = TRUE], object)
    [] OTHER -> AppendRange(b, object)

Add(b, object) ==
  CASE Classify(object) = "segment" -> AddSegment(b, object)
    [] Classify(object) = "unknown" -> AddDiagnostic([b EXCEPT !.unknown = @ + 1], object)
    [] Classify(object) \in {"partial", "backup", "history"} -> AddDiagnostic(b, object)

-----------------------------------------------------------------------------
(* The catalog: WALCollector.Finish *)

(* WALPosition, where the segment number is one of the log file's. *)
WALPosition(log, segment, segments) == log * segments + segment

Adjacent(left, right) == left.timeline = right.timeline /\ left.end + 1 = right.start

(* One turn of Finish's loop: drop a raw range that the segment size does  *)
(* not allow, or join it to the range before, across log files.            *)
PlaceRange(placed, raw, segments) ==
  LET range == [timeline |-> raw.timeline,
                start    |-> WALPosition(raw.log, raw.start, segments),
                end      |-> WALPosition(raw.log, raw.end, segments)]
      last  == Len(placed.ranges)
  IN  CASE raw.start >= segments \/ raw.end >= segments ->
             [placed EXCEPT !.invalid = TRUE]
        [] /\ raw.start < segments /\ raw.end < segments
           /\ last > 0 /\ Adjacent(placed.ranges[last], range) ->
             [placed EXCEPT !.ranges[last].end = range.end]
        [] OTHER ->
             [placed EXCEPT !.ranges = Append(@, range)]

NothingPlaced == [ranges |-> <<>>, invalid |-> FALSE]

(* All of them, one after the other: placed[n] is what the first n raw     *)
(* ranges come to.                                                         *)
PlaceAll(raws, segments) ==
  LET placed[n \in 0 .. Len(raws)] ==
        IF n = 0 THEN NothingPlaced
                 ELSE PlaceRange(placed[n - 1], raws[n], segments)
  IN  placed[Len(raws)]

Candidate == "candidate"
Confirmed == "confirmed"

HoleOf(gap) == [timeline |-> gap.timeline, start |-> gap.start, end |-> gap.end]

(* The holes between neighbouring ranges of one timeline. *)
Between(ranges) ==
  {[timeline |-> ranges[i].timeline,
    start    |-> ranges[i].end + 1,
    end      |-> ranges[i + 1].start - 1] :
     i \in {j \in 1 .. (Len(ranges) - 1) :
              /\ ranges[j].timeline = ranges[j + 1].timeline
              /\ ranges[j].end + 1 < ranges[j + 1].start}}

(* Mutant: a gap is identified by where it starts.                         *)
GapsByStart(ranges, previous, generation) ==
  {LET prior == {gap \in previous : gap.timeline = hole.timeline /\ gap.start = hole.start}
   IN  [timeline |-> hole.timeline,
        start    |-> hole.start,
        end      |-> hole.end,
        status   |-> IF prior = {} THEN Candidate ELSE Confirmed,
        first    |-> IF prior = {} THEN generation
                                   ELSE (CHOOSE gap \in prior : TRUE).first,
        last     |-> generation] : hole \in Between(ranges)}

(* A hole that the previous catalog reported as well is confirmed.         *)
gapsForRanges(ranges, previous, generation) ==
  {LET prior == {gap \in previous : HoleOf(gap) = hole}
   IN  [timeline |-> hole.timeline,
        start    |-> hole.start,
        end      |-> hole.end,
        status   |-> IF prior = {} THEN Candidate ELSE Confirmed,
        first    |-> IF prior = {} THEN generation
                                   ELSE (CHOOSE gap \in prior : TRUE).first,
        last     |-> generation] : hole \in Between(ranges)}

(* Reasons to say nothing about continuity. *)
Uncertain(b, placed) ==
  \/ b.rangesTruncated
  \/ b.diagnosticsTruncated
  \/ b.outOfOrder
  \/ placed.invalid
  \/ b.duplicates > 0
  \/ b.unknown > 0
  \/ placed.ranges = <<>>

hasGapStatus(gaps, status) == \E gap \in gaps : gap.status = status

Verdict(b, placed, gaps) ==
  CASE Uncertain(b, placed) -> Unknown
    [] ~Uncertain(b, placed) /\ hasGapStatus(gaps, Confirmed) -> Unhealthy
    [] /\ ~Uncertain(b, placed)
       /\ ~hasGapStatus(gaps, Confirmed) /\ hasGapStatus(gaps, Candidate) -> Warning
    [] OTHER -> Healthy

NoCatalog ==
  [generation           |-> 0,
   segments             |-> NoContext,
   state                |-> Unknown,
   ranges               |-> <<>>,
   gaps                 |-> {},
   duplicates           |-> 0,
   unknown              |-> 0,
   diagnostics          |-> 0,
   unprintable          |-> FALSE,
   diagnosticsTruncated |-> FALSE,
   rangesTruncated      |-> FALSE]

(* ServerWAL, without context: counts and diagnostics only. *)
Uninterpreted(b, generation) ==
  [generation           |-> generation,
   segments             |-> NoContext,
   state                |-> Unknown,
   ranges               |-> <<>>,
   gaps                 |-> {},
   duplicates           |-> b.duplicates,
   unknown              |-> b.unknown,
   diagnostics          |-> b.diagnostics,
   unprintable          |-> b.unprintable,
   diagnosticsTruncated |-> b.diagnosticsTruncated,
   rangesTruncated      |-> b.rangesTruncated]

Interpreted(b, segments, previous, generation) ==
  LET placed == PlaceAll(b.ranges, segments)
      gaps   == gapsForRanges(placed.ranges, previous.gaps, generation)
  IN  [Uninterpreted(b, generation) EXCEPT
         !.segments = segments,
         !.ranges   = placed.ranges,
         !.gaps     = gaps,
         !.state    = Verdict(b, placed, gaps)]

Finish(b, context, previous, generation) ==
  IF context = NoContext THEN Uninterpreted(b, generation)
                         ELSE Interpreted(b, context, previous, generation)

(* WALCatalog.Validate. *)
ValidRanges(ranges) ==
  /\ Len(ranges) <= MaxRanges
  /\ \A i \in 1..Len(ranges) :
       /\ ranges[i].timeline # 0
       /\ ranges[i].start <= ranges[i].end
  /\ \A i \in 1 .. (Len(ranges) - 1) :
       /\ ranges[i].timeline <= ranges[i + 1].timeline
       /\ ranges[i].timeline = ranges[i + 1].timeline
            => ranges[i].end < ranges[i + 1].start

ValidGap(gap) ==
  /\ gap.timeline # 0
  /\ gap.start <= gap.end
  /\ gap.first # 0
  /\ gap.first <= gap.last
  /\ gap.status = Candidate <=> gap.first = gap.last

Validate(c) ==
  /\ c.diagnostics <= MaxDiagnostics
  /\ ~c.unprintable
  /\ c.ranges # <<>> \/ c.gaps # {} \/ c.state # Unknown => c.segments # NoContext
  /\ c.rangesTruncated \/ c.diagnosticsTruncated \/ c.duplicates > 0 \/ c.unknown > 0
       => c.state = Unknown
  /\ ValidRanges(c.ranges)
  /\ \A gap \in c.gaps : ValidGap(gap)

-----------------------------------------------------------------------------
VARIABLES
  pc,          \* "idle", or "listing" while a scan paginates
  generation,  \* scans begun by this process
  builder,     \* the collector of the running scan
  listed,      \* indices of the objects the running scan has listed
  catalog,     \* the published WAL catalog
  seen         \* what the scan that built it had listed, if the verdict is
               \* not unknown (for the properties)

vars == <<pc, generation, builder, listed, catalog, seen>>

WALRange == [timeline : Nat, start : Nat, end : Nat]
WALGap ==
  [timeline : Nat, start : Nat, end : Nat,
   status : {Candidate, Confirmed}, first : Nat, last : Nat]

TypeOK ==
  /\ pc \in {"idle", "listing"}
  /\ generation \in Nat
  /\ builder \in [ranges : Seq(RawRange),
                  duplicates : Nat, unknown : Nat,
                  diagnostics : 0..MaxDiagnostics,
                  unprintable : BOOLEAN,
                  diagnosticsTruncated : BOOLEAN,
                  rangesTruncated : BOOLEAN,
                  outOfOrder : BOOLEAN]
  /\ listed \subseteq DOMAIN Objects
  /\ catalog \in [generation : Nat,
                  segments : SegmentsPerLog \cup {NoContext},
                  state : State,
                  ranges : Seq(WALRange),
                  gaps : SUBSET WALGap,
                  duplicates : Nat, unknown : Nat, diagnostics : Nat,
                  unprintable : BOOLEAN,
                  diagnosticsTruncated : BOOLEAN,
                  rangesTruncated : BOOLEAN]
  /\ seen \subseteq DOMAIN Objects

Init ==
  /\ pc = "idle"
  /\ generation = 0
  /\ builder = NewBuilder
  /\ listed = {}
  /\ catalog = NoCatalog
  /\ seen = {}

BeginScan ==
  /\ pc = "idle"
  /\ generation < MaxGeneration
  /\ pc' = "listing"
  /\ generation' = generation + 1
  /\ builder' = NewBuilder
  /\ listed' = {}
  /\ UNCHANGED <<catalog, seen>>

(* The listing reaches an object.  Objects it passes over are not in the   *)
(* archive when their place in the listing is reached.                     *)
ListObject ==
  /\ pc = "listing"
  /\ \E k \in DOMAIN Objects \ listed :
       /\ \A j \in listed : j <= k + Lag
       /\ builder' = Add(builder, Objects[k])
       /\ listed' = listed \cup {k}
  /\ UNCHANGED <<pc, generation, catalog, seen>>

Contexts == {Context(backups) : backups \in SUBSET Metadata}

(* What the running scan builds, should its listing be complete now. *)
NewCatalog(context) == Finish(builder, context, catalog, generation)

(* The listing is complete, and the snapshot with this catalog published.  *)
CompleteScan ==
  /\ pc = "listing"
  /\ pc' = "idle"
  /\ \E context \in Contexts :
       /\ Validate(NewCatalog(context))
       /\ catalog' = NewCatalog(context)
  /\ seen' = IF catalog'.state = Unknown THEN {} ELSE listed
  /\ builder' = NewBuilder
  /\ listed' = {}
  /\ UNCHANGED generation

AbandonScan ==
  /\ pc = "listing"
  /\ pc' = "idle"
  /\ builder' = NewBuilder
  /\ listed' = {}
  /\ UNCHANGED <<generation, catalog, seen>>

(* The listing is complete, and Publish refuses the snapshot with this     *)
(* catalog.  The one published before stays, as after a failed scan.       *)
RefuseScan ==
  /\ \E context \in Contexts : ~Validate(NewCatalog(context))
  /\ AbandonScan

(* The scan fails or is cancelled, or its snapshot is refused for another  *)
(* part: the catalog stays, and is the previous one of the next scan.      *)
FailScan == AbandonScan

Restart ==
  /\ pc' = "idle"
  /\ generation' = 0
  /\ builder' = NewBuilder
  /\ listed' = {}
  /\ catalog' = NoCatalog
  /\ seen' = {}

Next ==
  \/ BeginScan \/ ListObject \/ CompleteScan
  \/ RefuseScan \/ FailScan \/ Restart

Spec == Init /\ [][Next]_vars

-----------------------------------------------------------------------------
(* Properties *)

(* An object that fills a position: a complete segment of some timeline,   *)
(* in the directory of its own name.                                       *)
IsSegment(object) ==
  /\ object.form = "segment" /\ object.place = "hash-directory"
  /\ object.suffix = "known" /\ object.timeline # 0

(* The positions that a set of listed objects fills, worked out from the   *)
(* objects and not from the ranges.                                        *)
Filled(listing, segments) ==
  {[timeline |-> Objects[k].timeline,
    at       |-> WALPosition(Objects[k].log, Objects[k].segment, segments)] :
     k \in {j \in listing : /\ IsSegment(Objects[j])
                            /\ Objects[j].segment < segments}}

(* The maximal holes that filled positions bound on both sides. *)
Holes(filled) ==
  {[timeline |-> pair[1].timeline, start |-> pair[1].at + 1, end |-> pair[2].at - 1] :
     pair \in {p \in filled \X filled :
                 /\ p[1].timeline = p[2].timeline
                 /\ p[1].at + 1 < p[2].at
                 /\ ~\E q \in filled : /\ q.timeline = p[1].timeline
                                       /\ p[1].at < q.at /\ q.at < p[2].at}}

Covered(ranges) ==
  UNION {{[timeline |-> ranges[i].timeline, at |-> position] :
            position \in ranges[i].start .. ranges[i].end} : i \in 1..Len(ranges)}

(* Finish: a verdict other than unknown is about exactly what was listed.  *)
(* The compact ranges cover the listed segments and nothing else, across   *)
(* log-file boundaries and in whatever order they were listed, and the     *)
(* gaps are the holes the listing has, healthy only if there are none.     *)
ContinuityIsExact ==
  catalog.state # Unknown =>
    LET filled == Filled(seen, catalog.segments)
    IN  /\ Covered(catalog.ranges) = filled
        /\ {HoleOf(gap) : gap \in catalog.gaps} = Holes(filled)
        /\ catalog.state = Healthy <=> Holes(filled) = {}

(* WALCatalog.Validate, wal.go:596: whatever was archived, and however it  *)
(* was listed, a catalog that a scan builds is refused only if an object   *)
(* was listed whose key has a control character; and with such an object   *)
(* it is published only past the limit on diagnostics.  The collector      *)
(* keeps the diagnostics that the validation then refuses.                 *)
RefusedOnlyForKeys ==
  pc = "listing" =>
    LET control == {k \in listed : Objects[k].key = "control"}
    IN  \A context \in Contexts :
          LET built == NewCatalog(context)
          IN  /\ ~Validate(built) => control # {}
              /\ control # {} => ~Validate(built) \/ built.diagnosticsTruncated

Publishes == pc = "listing" /\ pc' = "idle" /\ catalog'.generation = generation

(* gapsForRanges: between two certain scans under one segment size, a gap  *)
(* is confirmed exactly when the earlier listing had that same hole, any   *)
(* number of failed scans between them.                                    *)
GapLifecycle ==
  [][/\ Publishes
     /\ catalog.state # Unknown /\ catalog'.state # Unknown
     /\ catalog.segments = catalog'.segments
     => \A gap \in catalog'.gaps :
          gap.status = Confirmed
            <=> HoleOf(gap) \in Holes(Filled(seen, catalog.segments))]_vars

=============================================================================
