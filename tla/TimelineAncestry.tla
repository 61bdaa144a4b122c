-------------------------- MODULE TimelineAncestry --------------------------
(***************************************************************************)
(* Timeline histories of one Barman server (internal/formats/barmancloud/  *)
(* recovery.go, analyzeHistories): after a complete listing the history    *)
(* objects are read one by one, in timeline order, and each is judged      *)
(* against the histories read before it and against the WAL ranges.        *)
(*                                                                         *)
(* Reading is the environment's: an object may be unreadable, and may hold *)
(* anything.  A history is the list of its records, a parent timeline and  *)
(* the LSN at which it was left; the record's text is left out.  Codecs    *)
(* and byte limits only decide whether an object can be read.              *)
(*                                                                         *)
(* The WAL catalog is the one WALContinuity publishes, reduced to what the *)
(* analysis looks at.                                                      *)
(***************************************************************************)
EXTENDS Integers, Sequences, FiniteSets, ArchiveCatalog

CONSTANTS
  Archives,           \* WAL catalogs the analysis may be given
  Listings,           \* how many history objects each timeline may have
  Contents,           \* what a history object may hold
  MaxHistoryEntries,
  MaxHistoryFiles

Timelines == Nat \ {0}

WALRange == [timeline : Timelines, start : Nat, end : Nat]

Candidate == "candidate"
Confirmed == "confirmed"

WALGap == [timeline : Timelines, start : Nat, end : Nat, status : {Candidate, Confirmed}]

(* A catalog without arithmetic context has segment size 0 and no ranges.  *)
ServerWAL ==
  [state : State, segmentSize : Nat, ranges : SUBSET WALRange, gaps : SUBSET WALGap]

HistoryRecord == [parent : Nat, lsn : Nat]

HistoryEdge == [parent : Timelines, child : Timelines, lsn : Nat \ {0}, position : Nat]

(* The history objects of a listing: those of a timeline are numbered. *)
Objects(listing) == UNION {{t} \X (1 .. listing[t]) : t \in DOMAIN listing}

ASSUME AncestryAssumption ==
  /\ Archives \subseteq ServerWAL
  /\ \A wal \in Archives : IsFiniteSet(wal.ranges)
  /\ \A listing \in Listings :
       /\ DOMAIN listing \subseteq Timelines
       /\ listing \in [DOMAIN listing -> Nat]
       /\ IsFiniteSet(Objects(listing)) /\ Cardinality(Objects(listing)) <= MaxHistoryFiles
  /\ Contents \subseteq Seq(HistoryRecord)
  /\ MaxHistoryEntries \in Nat
  /\ MaxHistoryFiles \in Nat

(* The catalogs of WALContinuity are continuous. *)
ASSUME ContinuityAssumption == \A wal \in Archives : Continuous(wal)

-----------------------------------------------------------------------------
VARIABLES
  wal,            \* the server's WAL catalog
  listed,         \* how many history objects were listed for each timeline
  phase,          \* "reading" histories, then "judged"
  todo,           \* listed timelines whose history is still to be read
  histories,      \* the verdict on each history so far
  known,          \* allEdges: the edges that later histories must agree with
  timelineState   \* the verdict on ancestry

ancestryVars == <<wal, listed, phase, todo, histories, known, timelineState>>

TimelineHistory == [timeline : Timelines, state : State, edges : Seq(HistoryEdge)]

EdgesOf(edges) == {edges[i] : i \in DOMAIN edges}

rangesForTimeline(timeline) == {r \in wal.ranges : r.timeline = timeline}

rangeContains(timeline, position) ==
  \E r \in rangesForTimeline(timeline) : r.start <= position /\ position <= r.end

observedTimelines == {r.timeline : r \in wal.ranges}

(* ParseHistory refuses what cannot be an ancestry: both columns of the    *)
(* records increase.                                                       *)
PossibleHistory(entries, target) ==
  /\ target > 1
  /\ wal.segmentSize > 0
  /\ entries # <<>>
  /\ Len(entries) <= MaxHistoryEntries
  /\ \A i \in DOMAIN entries :
       /\ entries[i].parent \in 1 .. (target - 1)
       /\ entries[i].lsn > 0
  /\ \A i, j \in DOMAIN entries : i < j =>
       /\ entries[i].parent < entries[j].parent
       /\ entries[i].lsn < entries[j].lsn

(* Each record is an edge to the parent of the next, the last to the       *)
(* timeline whose history it is.                                           *)
ParseHistory(entries, target) ==
  [i \in DOMAIN entries |->
     [parent   |-> entries[i].parent,
      child    |-> IF i < Len(entries) THEN entries[i + 1].parent ELSE target,
      lsn      |-> entries[i].lsn,
      position |-> entries[i].lsn \div wal.segmentSize]]

(* Mutant: two edges agree when they leave the same parent.                *)
EdgesAgreeOnParent(edges) ==
  \A edge \in EdgesOf(edges), prior \in known :
    prior.child = edge.child => prior.parent = edge.parent

historyEdgesAgree(edges) ==
  \A edge \in EdgesOf(edges), prior \in known : prior.child = edge.child => prior = edge

(* Going from parent to parent for ever: a set of children that the        *)
(* parents do not leave.                                                   *)
cycleInEdges(edges) ==
  \E cycle \in SUBSET {edge.child : edge \in edges} :
    /\ cycle # {}
    /\ \A child \in cycle :
         \E edge \in edges : edge.child = child /\ edge.parent \in cycle

(* A child's archive, where there is one, begins with the switch segment.  *)
childRangesAgree(edges) ==
  \A edge \in EdgesOf(edges) :
    rangesForTimeline(edge.child) # {} =>
      /\ \A r \in rangesForTimeline(edge.child) : r.start >= edge.position
      /\ rangeContains(edge.child, edge.position)

-----------------------------------------------------------------------------
Start ==
  /\ wal \in Archives
  /\ listed \in Listings
  /\ phase = "reading"
  /\ todo = {t \in DOMAIN listed : listed[t] > 0}
  /\ histories = {}
  /\ known = {}
  /\ timelineState = Unknown

(* Histories are read in timeline order. *)
NextTimeline(timeline) ==
  /\ phase = "reading"
  /\ timeline \in todo
  /\ \A other \in todo : timeline <= other

Judge(timeline, state, edges) ==
  /\ todo' = todo \ {timeline}
  /\ histories' = histories \cup {[timeline |-> timeline, state |-> state, edges |-> edges]}
  /\ UNCHANGED <<wal, listed, phase, timelineState>>

(* More objects than one for a timeline: none is read. *)
RefuseDuplicates(timeline) ==
  /\ NextTimeline(timeline)
  /\ listed[timeline] > 1
  /\ Judge(timeline, Unknown, <<>>)
  /\ UNCHANGED known

(* The object cannot be opened, is too large, or does not decompress. *)
FailHistory(timeline) ==
  /\ NextTimeline(timeline)
  /\ listed[timeline] = 1
  /\ Judge(timeline, Unknown, <<>>)
  /\ UNCHANGED known

RejectHistory(timeline, entries) ==
  /\ NextTimeline(timeline)
  /\ listed[timeline] = 1
  /\ ~PossibleHistory(entries, timeline)
  /\ Judge(timeline, Unknown, <<>>)
  /\ UNCHANGED known

(* The history contradicts one that was read before. *)
ContradictHistory(timeline, entries) ==
  /\ NextTimeline(timeline)
  /\ listed[timeline] = 1
  /\ PossibleHistory(entries, timeline)
  /\ ~historyEdgesAgree(ParseHistory(entries, timeline))
  /\ Judge(timeline, Unknown, ParseHistory(entries, timeline))
  /\ UNCHANGED known

(* The edges are known from here on, whether or not the history turns out  *)
(* to be valid.                                                            *)
AcceptHistory(timeline, entries) ==
  LET edges == ParseHistory(entries, timeline)
      valid == ~cycleInEdges(known \cup EdgesOf(edges)) /\ childRangesAgree(edges)
  IN  /\ NextTimeline(timeline)
      /\ listed[timeline] = 1
      /\ PossibleHistory(entries, timeline)
      /\ historyEdgesAgree(edges)
      /\ Judge(timeline, IF valid THEN Healthy ELSE Unknown, edges)
      /\ known' = known \cup EdgesOf(edges)

(* Mutant: a timeline that others branched off from is known too.          *)
KnownTimelines ==
  UNION {{edge.child : edge \in EdgesOf(h.edges)} \cup {edge.parent : edge \in EdgesOf(h.edges)} :
           h \in {g \in histories : g.state = Healthy}}

(* Children of the valid histories need no history of their own. *)
KnownChildren ==
  UNION {{edge.child : edge \in EdgesOf(h.edges)} : h \in {g \in histories : g.state = Healthy}}

MissingTimelines ==
  {t \in observedTimelines \ KnownChildren :
     t > 1 /\ (t \in DOMAIN listed => listed[t] = 0)}

(* All listed histories are judged: add the missing ones, and the verdict. *)
JudgeAncestry ==
  /\ phase = "reading"
  /\ todo = {}
  /\ phase' = "judged"
  /\ histories' = histories \cup
       {[timeline |-> t, state |-> Unknown, edges |-> <<>>] : t \in MissingTimelines}
  /\ timelineState' =
       IF \/ observedTimelines = {} /\ histories = {}
          \/ \E h \in histories' : h.state # Healthy
       THEN Unknown
       ELSE Healthy
  /\ UNCHANGED <<wal, listed, todo, known>>

(* The collector, which all servers share, kept not all history objects:  *)
(* none is looked at.                                                      *)
TruncateHistories ==
  /\ phase = "reading"
  /\ histories = {}
  /\ phase' = "judged"
  /\ UNCHANGED <<wal, listed, todo, histories, known, timelineState>>

AncestryNext ==
  \/ \E timeline \in todo :
       \/ RefuseDuplicates(timeline)
       \/ FailHistory(timeline)
       \/ \E entries \in Contents :
            \/ RejectHistory(timeline, entries)
            \/ ContradictHistory(timeline, entries)
            \/ AcceptHistory(timeline, entries)
  \/ JudgeAncestry
  \/ TruncateHistories

AncestryTypeOK ==
  /\ wal \in ServerWAL
  /\ listed \in Listings
  /\ phase \in {"reading", "judged", "done"}
  /\ todo \subseteq DOMAIN listed
  /\ histories \subseteq TimelineHistory
  /\ known \subseteq HistoryEdge
  /\ timelineState \in State

-----------------------------------------------------------------------------
(* Properties *)

(* historyEdgesAgree, childRangesAgree: whatever order they were read in,  *)
(* valid histories never disagree on where a timeline came from, and each  *)
(* child's archive, if it has one, begins with the segment it switched in. *)
ValidHistoriesAgree ==
  \A g, h \in {v \in histories : v.state = Healthy} :
    \A e \in EdgesOf(g.edges), f \in EdgesOf(h.edges) :
      /\ e.child = f.child => e = f
      /\ \A r \in wal.ranges : r.timeline = e.child => r.start >= e.position
      /\ rangesForTimeline(e.child) # {} => rangeContains(e.child, e.position)

(* analyzeHistories: ancestry is called healthy only if every listed       *)
(* history is valid and every timeline in the archive, but the first, was  *)
(* branched off by one of them.                                            *)
HealthyAncestryIsComplete ==
  phase # "reading" /\ timelineState = Healthy =>
    /\ \A t \in DOMAIN listed : listed[t] > 0 =>
         \E h \in histories : h.timeline = t /\ h.state = Healthy /\ h.edges # <<>>
    /\ \A h \in histories : h.state = Healthy
    /\ \A t \in observedTimelines : t > 1 =>
         \E h \in histories : \E e \in EdgesOf(h.edges) : e.child = t
    /\ observedTimelines # {} \/ histories # {}

=============================================================================
