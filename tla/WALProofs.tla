----------------------------- MODULE WALProofs -----------------------------
(***************************************************************************)
(* What WALContinuity and WALBrowser do for every listing, every archive,  *)
(* every segment size and every reader: the catalogs that scans publish    *)
(* are valid and exactly what was listed, their gaps are confirmed exactly *)
(* when the previous scan had them too, and the pages that show a catalog  *)
(* are together exactly what was asked for, their links leading where they *)
(* say.                                                                    *)
(*                                                                         *)
(* The argument about continuity goes with the data: the raw ranges stand  *)
(* for the listed segments (Collected), the placed ranges for the raw ones *)
(* (PlacedUpTo), the gaps for the holes between them (HolesAreBetween).    *)
(* The one about pages goes from the order of the rows of one server to    *)
(* the rows of all (ListsRows) and to the page cut out of them (Window).   *)
(***************************************************************************)
EXTENDS WALContinuity, WALBrowser, NaturalsInduction, WellFoundedInduction, SequenceTheorems,
        FiniteSetTheorems, FunctionTheorems, TLAPS

(* Every nonempty set of numbers has a least one.                          *)
LEMMA LeastElement ==
  ASSUME NEW S \in SUBSET Nat, S # {}
  PROVE  \E x \in S : \A y \in S : x <= y
<1>1. PICK x \in S : \A y \in S : ~(<<y, x>> \in OpToRel(<, Nat))
  BY NatLessThanWellFounded, WFMin
<1>2. \A y \in S : ~(y < x)
  BY <1>1, Zenon DEF OpToRel
<1> QED
  BY <1>2

-----------------------------------------------------------------------------
(* The collector *)

Builder ==
  [ranges : Seq(RawRange), duplicates : Nat, unknown : Nat, diagnostics : 0..MaxDiagnostics,
   unprintable : BOOLEAN, diagnosticsTruncated : BOOLEAN, rangesTruncated : BOOLEAN, outOfOrder : BOOLEAN]

(* One range lies behind another of the same log file and does not touch   *)
(* it, or belongs to an earlier log file or timeline.                      *)
RawBefore(left, right) ==
  \/ left.timeline < right.timeline
  \/ /\ left.timeline = right.timeline
     /\ \/ left.log < right.log
        \/ left.log = right.log /\ left.end + 1 < right.start

RawsInOrder(ranges) ==
  /\ Len(ranges) <= MaxRanges
  /\ \A i \in 1 .. Len(ranges) : ranges[i].timeline # 0 /\ ranges[i].start <= ranges[i].end
  /\ \A i, j \in 1 .. Len(ranges) : i < j => RawBefore(ranges[i], ranges[j])

(* A segment lies in a range. *)
LiesIn(object, range) ==
  /\ SameLog(range, object)
  /\ range.start <= object.segment /\ object.segment <= range.end

(* Every number of a range is that of a listed segment. *)
NothingInvented(ranges, listing) ==
  \A i \in 1 .. Len(ranges) : \A s \in ranges[i].start .. ranges[i].end :
    \E k \in listing : /\ IsSegment(Objects[k])
                       /\ SameLog(ranges[i], Objects[k]) /\ Objects[k].segment = s

(* Every listed segment is in a range. *)
NothingLost(ranges, listing) ==
  \A k \in listing : IsSegment(Objects[k]) =>
    \E i \in 1 .. Len(ranges) : LiesIn(Objects[k], ranges[i])

(* A kept diagnostic names a listed key with a control character, and one  *)
(* is kept for each such key, up to the limit.                             *)
KeysKept(b, listing) ==
  /\ b.unprintable => \E k \in listing : Objects[k].key = "control"
  /\ (\E k \in listing : Objects[k].key = "control") => b.unprintable \/ b.diagnosticsTruncated

Collected(b, listing) ==
  /\ b \in Builder
  /\ KeysKept(b, listing)
  /\ RawsInOrder(b.ranges)
  /\ NothingInvented(b.ranges, listing)
  /\ ~b.rangesTruncated /\ ~b.outOfOrder => NothingLost(b.ranges, listing)

(* What the archived objects are: the fields of Objects.                   *)
LEMMA ObjectFacts ==
  ASSUME NEW k \in DOMAIN Objects
  PROVE  /\ Objects[k].place \in Place /\ Objects[k].form \in Form
         /\ Objects[k].suffix \in {"known", "unsupported"}
         /\ Objects[k].timeline \in Nat /\ Objects[k].log \in Nat /\ Objects[k].segment \in Nat
<1> DEFINE Object == [key : Text, place : Place, form : Form, suffix : {"known", "unsupported"},
                      timeline : Nat, log : Nat, segment : Nat]
<1>1. Objects[k] \in Object
  <2>1. Objects \in Seq(Object)
    BY ObjectsAssumption
  <2> HIDE DEF Object
  <2> QED
    BY <2>1
<1> QED
  BY <1>1

(* Classify: a segment is what the properties call one. *)
LEMMA ClassOfSegment ==
  ASSUME NEW k \in DOMAIN Objects
  PROVE  /\ Classify(Objects[k]) = "segment" <=> IsSegment(Objects[k])
         /\ Classify(Objects[k]) \in Class
BY ObjectFacts DEF Classify, IsSegment, Place, Form, Class

(* The order of the raw ranges is transitive.                              *)
LEMMA RawBeforeIsTransitive ==
  ASSUME NEW a \in RawRange, NEW b \in RawRange, NEW c \in RawRange,
         b.start <= b.end, RawBefore(a, b), RawBefore(b, c)
  PROVE  RawBefore(a, c)
BY DEF RawBefore, RawRange

(* What a segment changes about the ranges, if anything.                   *)
Single(object) ==
  [timeline |-> object.timeline, log |-> object.log, start |-> object.segment, end |-> object.segment]

Kept(old, new, object, certain) ==
  /\ new = old
  /\ certain => old # <<>> /\ Repeats(old[Len(old)], object)

Lengthened(old, new, object) ==
  /\ old # <<>>
  /\ Extends(old[Len(old)], object)
  /\ new = [old EXCEPT ![Len(old)].end = object.segment]

Appended(old, new, object) ==
  /\ Len(old) < MaxRanges
  /\ new = Append(old, Single(object))
  /\ old # <<>> => RawBefore(old[Len(old)], Single(object))

Grown(b, r, object, isSegment) ==
  /\ r \in Builder
  /\ r.rangesTruncated = FALSE => b.rangesTruncated = FALSE
  /\ r.outOfOrder = FALSE => b.outOfOrder = FALSE
  /\ \/ Kept(b.ranges, r.ranges, object,
             isSegment /\ r.rangesTruncated = FALSE /\ r.outOfOrder = FALSE)
     \/ isSegment /\ Lengthened(b.ranges, r.ranges, object)
     \/ isSegment /\ Appended(b.ranges, r.ranges, object)

(* What a new object changes about the diagnostics. *)
Marked(b, r, object) ==
  /\ r.unprintable => b.unprintable \/ object.key = "control"
  /\ b.unprintable => r.unprintable
  /\ b.diagnosticsTruncated => r.diagnosticsTruncated
  /\ object.key = "control" => r.unprintable \/ r.diagnosticsTruncated

(* AddDiagnostic counts at most MaxDiagnostics, remembers a key with a     *)
(* control character, and touches neither the ranges nor the flags that    *)
(* make them uncertain.                                                    *)
LEMMA AddDiagnosticFacts ==
  ASSUME NEW b \in Builder, NEW o
  PROVE  /\ AddDiagnostic(b, o) \in Builder
         /\ AddDiagnostic(b, o).ranges = b.ranges
         /\ AddDiagnostic(b, o).rangesTruncated = b.rangesTruncated
         /\ AddDiagnostic(b, o).outOfOrder = b.outOfOrder
         /\ Marked(b, AddDiagnostic(b, o), o)
<1>1. MaxDiagnostics \in Nat /\ b.diagnostics \in 0 .. MaxDiagnostics
  BY LimitsAssumption DEF Builder
<1>2. b.diagnostics < MaxDiagnostics => b.diagnostics + 1 \in 0 .. MaxDiagnostics
  BY <1>1
<1>3. CASE b.diagnostics >= MaxDiagnostics
  BY <1>3, Zenon DEF AddDiagnostic, Builder, Marked
<1>4. CASE ~(b.diagnostics >= MaxDiagnostics)
  <2>1. b.diagnostics + 1 \in 0 .. MaxDiagnostics /\ (b.unprintable \/ o.key = "control") \in BOOLEAN
    BY <1>1, <1>2, <1>4
  <2> QED
    BY <1>4, <2>1, Zenon DEF AddDiagnostic, Builder, Marked
<1> QED
  BY <1>3, <1>4

(* AppendRange appends the range of one segment, or notes that the ranges  *)
(* are truncated.                                                          *)
LEMMA AppendRangeFacts ==
  ASSUME NEW b \in Builder, NEW k \in DOMAIN Objects
  PROVE  LET r == AppendRange(b, Objects[k])
         IN  /\ r \in Builder
             /\ r.outOfOrder = b.outOfOrder
             /\ r.rangesTruncated = FALSE => b.rangesTruncated = FALSE
             /\ \/ r.ranges = b.ranges /\ r.rangesTruncated = TRUE
                \/ /\ r.ranges = Append(b.ranges, Single(Objects[k]))
                   /\ Len(b.ranges) < MaxRanges
<1> DEFINE more == Append(b.ranges, Single(Objects[k]))
<1>1. b.ranges \in Seq(RawRange) /\ Single(Objects[k]) \in RawRange
  BY ObjectFacts DEF Builder, RawRange, Single
<1>2. more \in Seq(RawRange) /\ Len(b.ranges) \in Nat
  BY <1>1
<1>3. MaxRanges \in Nat
  BY LimitsAssumption
<1>4. CASE Len(b.ranges) >= MaxRanges
  BY <1>4, Zenon DEF AppendRange, Builder
<1>5. CASE ~(Len(b.ranges) >= MaxRanges)
  <2>1. AppendRange(b, Objects[k]) = [b EXCEPT !.ranges = more]
    BY <1>5, Zenon DEF AppendRange, Single
  <2>2. Len(b.ranges) < MaxRanges
    BY <1>2, <1>3, <1>5
  <2> HIDE DEF more
  <2>3. /\ [b EXCEPT !.ranges = more] \in Builder
        /\ [b EXCEPT !.ranges = more].ranges = more
        /\ [b EXCEPT !.ranges = more].rangesTruncated = b.rangesTruncated
        /\ [b EXCEPT !.ranges = more].outOfOrder = b.outOfOrder
    BY <1>2, Zenon DEF Builder
  <2> QED
    BY <2>1, <2>2, <2>3, Zenon DEF more
<1> QED
  BY <1>4, <1>5

(* A segment that lies behind the last range grows the ranges by one.      *)
LEMMA AppendedIsGrown ==
  ASSUME NEW b \in Builder, NEW k \in DOMAIN Objects,
         b.ranges # <<>> => RawBefore(b.ranges[Len(b.ranges)], Single(Objects[k]))
  PROVE  Grown(b, AppendRange(b, Objects[k]), Objects[k], TRUE)
<1> DEFINE r == AppendRange(b, Objects[k])
<1>1. /\ r \in Builder
      /\ r.outOfOrder = b.outOfOrder
      /\ r.rangesTruncated = FALSE => b.rangesTruncated = FALSE
      /\ \/ r.ranges = b.ranges /\ r.rangesTruncated = TRUE
         \/ r.ranges = Append(b.ranges, Single(Objects[k])) /\ Len(b.ranges) < MaxRanges
  BY AppendRangeFacts, Zenon
<1> SUFFICES Grown(b, r, Objects[k], TRUE)
  OBVIOUS
<1> HIDE DEF r
<1>2. CASE r.ranges = b.ranges /\ r.rangesTruncated = TRUE
  BY <1>1, <1>2, Zenon DEF Grown, Kept
<1>3. CASE r.ranges = Append(b.ranges, Single(Objects[k])) /\ Len(b.ranges) < MaxRanges
  BY <1>1, <1>3, Zenon DEF Grown, Appended
<1> QED
  BY <1>1, <1>2, <1>3, Zenon

(* AddSegment keeps the ranges, lengthens the last or appends one; it      *)
(* keeps them without a flag only when the segment repeats the last one.   *)
LEMMA AddSegmentFacts ==
  ASSUME NEW b \in Builder, NEW k \in DOMAIN Objects, RawsInOrder(b.ranges)
  PROVE  Grown(b, AddSegment(b, Objects[k]), Objects[k], TRUE)
<1> DEFINE o == Objects[k]
           r == AddSegment(b, o)
           n == Len(b.ranges)
           last == b.ranges[n]
<1>1. /\ b.ranges \in Seq(RawRange) /\ n \in Nat
      /\ b.ranges # <<>> => n \in 1 .. n /\ Last(b.ranges) = last /\ last \in RawRange
  BY DEF Builder, Last
<1>2. CASE b.ranges = <<>>
  <2>1. r = AppendRange(b, o)
    BY <1>2, Zenon DEF AddSegment
  <2> QED
    BY <1>2, <2>1, AppendedIsGrown
<1>3. CASE b.ranges # <<>> /\ Repeats(last, o)
  <2>1. ~Extends(last, o) /\ ~Regresses(last, o)
    BY <1>1, <1>3, ObjectFacts DEF Repeats, Extends, Regresses, SameLog, RawRange
  <2>2. r = AddDiagnostic([b EXCEPT !.duplicates = @ + 1], o)
    BY <1>1, <1>3, <2>1 DEF AddSegment
  <2> DEFINE c == [b EXCEPT !.duplicates = @ + 1]
  <2>3. /\ c \in Builder /\ c.ranges = b.ranges
        /\ c.rangesTruncated = b.rangesTruncated /\ c.outOfOrder = b.outOfOrder
    <3>1. b.duplicates + 1 \in Nat
      BY DEF Builder
    <3> QED
      BY <3>1, Zenon DEF Builder
  <2> HIDE DEF c, r
  <2>4. /\ r \in Builder /\ r.ranges = c.ranges
        /\ r.rangesTruncated = c.rangesTruncated /\ r.outOfOrder = c.outOfOrder
    BY <2>2, <2>3, AddDiagnosticFacts, Zenon DEF c
  <2>5. Grown(b, r, o, TRUE)
    BY <1>1, <1>3, <2>3, <2>4, Zenon DEF Grown, Kept
  <2> QED
    BY <2>5 DEF r
<1>4. CASE b.ranges # <<>> /\ ~Repeats(last, o) /\ Extends(last, o)
  <2> DEFINE more == [b.ranges EXCEPT ![n].end = o.segment]
  <2>1. ~Regresses(last, o)
    BY <1>1, <1>4, ObjectFacts DEF Extends, Regresses, SameLog, RawRange
  <2>2. r = [b EXCEPT !.ranges = more]
    <3>1. r = [b EXCEPT !.ranges[n].end = o.segment]
      BY <1>1, <1>4, <2>1, Zenon DEF AddSegment
    <3> QED
      BY <3>1, Zenon
  <2>3. more \in Seq(RawRange)
    <3>1. [last EXCEPT !.end = o.segment] \in RawRange
      BY <1>1, <1>4, ObjectFacts DEF RawRange
    <3>2. more = [b.ranges EXCEPT ![n] = [last EXCEPT !.end = o.segment]]
      BY Zenon
    <3> QED
      BY <1>1, <1>4, <3>1, <3>2
  <2> HIDE DEF more
  <2>4. /\ [b EXCEPT !.ranges = more] \in Builder
        /\ [b EXCEPT !.ranges = more].ranges = more
        /\ [b EXCEPT !.ranges = more].rangesTruncated = b.rangesTruncated
        /\ [b EXCEPT !.ranges = more].outOfOrder = b.outOfOrder
    BY <2>3, Zenon DEF Builder
  <2> QED
    BY <1>4, <2>2, <2>4, Zenon DEF Grown, Lengthened, more
<1>5. CASE b.ranges # <<>> /\ ~Repeats(last, o) /\ ~Extends(last, o) /\ Regresses(last, o)
  <2>1. r = AddDiagnostic([b EXCEPT !.outOfOrder = TRUE], o)
    BY <1>1, <1>5 DEF AddSegment
  <2> DEFINE c == [b EXCEPT !.outOfOrder = TRUE]
  <2>2. /\ c \in Builder /\ c.ranges = b.ranges
        /\ c.rangesTruncated = b.rangesTruncated /\ c.outOfOrder = TRUE
    BY Zenon DEF Builder
  <2> HIDE DEF c, r
  <2>3. /\ r \in Builder /\ r.ranges = c.ranges
        /\ r.rangesTruncated = c.rangesTruncated /\ r.outOfOrder = c.outOfOrder
    BY <2>1, <2>2, AddDiagnosticFacts, Zenon DEF c
  <2>4. Grown(b, r, o, TRUE)
    BY <2>2, <2>3, Zenon DEF Grown, Kept
  <2> QED
    BY <2>4 DEF r
<1>6. CASE b.ranges # <<>> /\ ~Repeats(last, o) /\ ~Extends(last, o) /\ ~Regresses(last, o)
  <2>1. r = AppendRange(b, o)
    BY <1>1, <1>6 DEF AddSegment
  <2>2. RawBefore(last, Single(o))
    <3>1. /\ Single(o).timeline = o.timeline /\ Single(o).log = o.log /\ Single(o).start = o.segment
          /\ o.timeline \in Nat /\ o.log \in Nat /\ o.segment \in Nat
      BY ObjectFacts DEF Single
    <3>2. /\ last.timeline \in Nat /\ last.log \in Nat /\ last.end \in Nat
      BY <1>1, <1>6 DEF RawRange
    <3>3. /\ ~(o.timeline < last.timeline)
          /\ o.timeline = last.timeline =>
               /\ ~(o.log < last.log)
               /\ o.log = last.log =>
                    ~(o.segment < last.end) /\ last.end # o.segment /\ last.end + 1 # o.segment
      BY <1>6, Zenon DEF Repeats, Extends, Regresses, SameLog
    <3> QED
      BY <3>1, <3>2, <3>3, SMTT(30) DEF RawBefore
  <2> QED
    BY <1>6, <2>1, <2>2, AppendedIsGrown
<1> QED
  BY <1>2, <1>3, <1>4, <1>5, <1>6

(* Add does so for a segment and keeps the ranges for every other object.  *)
LEMMA AddFacts ==
  ASSUME NEW b \in Builder, NEW k \in DOMAIN Objects, RawsInOrder(b.ranges)
  PROVE  Grown(b, Add(b, Objects[k]), Objects[k], IsSegment(Objects[k]))
<1> DEFINE o == Objects[k]
<1>1. CASE Classify(o) = "segment"
  <2>1. Add(b, o) = AddSegment(b, o)
    BY <1>1 DEF Add
  <2>2. IsSegment(o) = TRUE
    BY <1>1, ClassOfSegment DEF IsSegment
  <2> QED
    BY <2>1, <2>2, AddSegmentFacts
<1>2. CASE Classify(o) # "segment"
  <2>1. IsSegment(o) = FALSE
    BY <1>2, ClassOfSegment DEF IsSegment
  <2>2. /\ Add(b, o) \in Builder
        /\ Add(b, o).ranges = b.ranges
        /\ Add(b, o).rangesTruncated = b.rangesTruncated
        /\ Add(b, o).outOfOrder = b.outOfOrder
    <3>1. CASE Classify(o) = "unknown"
      <4> DEFINE c == [b EXCEPT !.unknown = @ + 1]
      <4>1. Add(b, o) = AddDiagnostic(c, o)
        BY <3>1 DEF Add
      <4>2. /\ c \in Builder /\ c.ranges = b.ranges
            /\ c.rangesTruncated = b.rangesTruncated /\ c.outOfOrder = b.outOfOrder
        <5>1. b.unknown + 1 \in Nat
          BY DEF Builder
        <5> QED
          BY <5>1, Zenon DEF Builder
      <4> HIDE DEF c
      <4> QED
        BY <4>1, <4>2, AddDiagnosticFacts
    <3>2. CASE Classify(o) \in {"partial", "backup", "history"}
      <4>1. Add(b, o) = AddDiagnostic(b, o)
        BY <3>2 DEF Add
      <4> QED
        BY <4>1, AddDiagnosticFacts
    <3> QED
      BY <1>2, <3>1, <3>2, ClassOfSegment DEF Class
  <2> QED
    BY <2>1, <2>2 DEF Grown, Kept
<1> QED
  BY <1>1, <1>2

(* A key with a control character is never that of a segment (Classify).   *)
LEMMA ControlIsUnknown ==
  ASSUME NEW k \in DOMAIN Objects, Objects[k].key = "control"
  PROVE  Classify(Objects[k]) = "unknown"
BY ObjectsAssumption, ObjectFacts DEF Classify, Place, Form

(* A segment's key is printable and leaves no mark.                        *)
LEMMA AddSegmentMarks ==
  ASSUME NEW b \in Builder, NEW o, o.key # "control"
  PROVE  Marked(b, AddSegment(b, o), o)
<1> DEFINE r == AddSegment(b, o)
           duplicate == [b EXCEPT !.duplicates = @ + 1]
           late == [b EXCEPT !.outOfOrder = TRUE]
<1>1. \/ r = AppendRange(b, o)
      \/ r = AddDiagnostic(duplicate, o)
      \/ r = AddDiagnostic(late, o)
      \/ r = [b EXCEPT !.ranges[Len(b.ranges)].end = o.segment]
  <2> DEFINE longer == [b EXCEPT !.ranges[Len(b.ranges)].end = o.segment]
             appended == AppendRange(b, o)
             repeated == AddDiagnostic(duplicate, o)
             regressed == AddDiagnostic(late, o)
  <2>1. r = CASE b.ranges = <<>> -> appended
              [] b.ranges # <<>> /\ Repeats(Last(b.ranges), o) -> repeated
              [] b.ranges # <<>> /\ Extends(Last(b.ranges), o) -> longer
              [] b.ranges # <<>> /\ Regresses(Last(b.ranges), o) -> regressed
              [] OTHER -> appended
    BY DEF AddSegment
  <2> HIDE DEF longer, appended, repeated, regressed, r
  <2>2. r = appended \/ r = repeated \/ r = regressed \/ r = longer
    BY <2>1
  <2> QED
    BY <2>2 DEF longer, appended, repeated, regressed
<1>2. /\ AppendRange(b, o).unprintable = b.unprintable
      /\ AppendRange(b, o).diagnosticsTruncated = b.diagnosticsTruncated
  BY Zenon DEF AppendRange, Builder
<1>3. /\ duplicate \in Builder /\ late \in Builder
      /\ duplicate.unprintable = b.unprintable /\ late.unprintable = b.unprintable
      /\ duplicate.diagnosticsTruncated = b.diagnosticsTruncated
      /\ late.diagnosticsTruncated = b.diagnosticsTruncated
  <2>1. b.duplicates + 1 \in Nat
    BY DEF Builder
  <2> QED
    BY <2>1, Zenon DEF Builder
<1>4. /\ [b EXCEPT !.ranges[Len(b.ranges)].end = o.segment].unprintable = b.unprintable
      /\ [b EXCEPT !.ranges[Len(b.ranges)].end = o.segment].diagnosticsTruncated
           = b.diagnosticsTruncated
  BY Zenon DEF Builder
<1> HIDE DEF r, duplicate, late
<1>5. Marked(duplicate, AddDiagnostic(duplicate, o), o) /\ Marked(late, AddDiagnostic(late, o), o)
  BY <1>3, AddDiagnosticFacts
<1> QED
  BY <1>1, <1>2, <1>3, <1>4, <1>5, Zenon DEF Marked, r

(* Add leaves a mark exactly for a key with a control character.           *)
LEMMA AddMarks ==
  ASSUME NEW b \in Builder, NEW k \in DOMAIN Objects
  PROVE  Marked(b, Add(b, Objects[k]), Objects[k])
<1> DEFINE o == Objects[k]
<1>1. CASE Classify(o) = "segment"
  <2>1. Add(b, o) = AddSegment(b, o) /\ o.key # "control"
    BY <1>1, ControlIsUnknown DEF Add
  <2> QED
    BY <2>1, AddSegmentMarks
<1>2. CASE Classify(o) = "unknown"
  <2> DEFINE c == [b EXCEPT !.unknown = @ + 1]
  <2>1. Add(b, o) = AddDiagnostic(c, o)
    BY <1>2 DEF Add
  <2>2. /\ c \in Builder /\ c.unprintable = b.unprintable
        /\ c.diagnosticsTruncated = b.diagnosticsTruncated
    <3>1. b.unknown + 1 \in Nat
      BY DEF Builder
    <3> QED
      BY <3>1, Zenon DEF Builder
  <2> HIDE DEF c
  <2>3. Marked(c, AddDiagnostic(c, o), o)
    BY <2>2, AddDiagnosticFacts
  <2> QED
    BY <2>1, <2>2, <2>3, Zenon DEF Marked
<1>3. CASE Classify(o) \in {"partial", "backup", "history"}
  <2>1. Add(b, o) = AddDiagnostic(b, o)
    BY <1>3 DEF Add
  <2> QED
    BY <2>1, AddDiagnosticFacts
<1> QED
  BY <1>1, <1>2, <1>3, ClassOfSegment DEF Class

(* Ranges that are kept stand for what is listed, the new object included  *)
(* when it repeats the last segment.                                       *)
LEMMA KeptIsCollected ==
  ASSUME NEW old \in Seq(RawRange), NEW new, NEW listing \in SUBSET DOMAIN Objects,
         NEW k \in DOMAIN Objects, NEW certain \in BOOLEAN, Kept(old, new, Objects[k], certain),
         RawsInOrder(old), NothingInvented(old, listing)
  PROVE  /\ RawsInOrder(new) /\ NothingInvented(new, listing \cup {k})
         /\ (IsSegment(Objects[k]) => certain) /\ NothingLost(old, listing)
              => NothingLost(new, listing \cup {k})
<1>1. new = old
  BY DEF Kept
<1>2. NothingInvented(new, listing \cup {k})
  BY <1>1 DEF NothingInvented
<1>3. ASSUME IsSegment(Objects[k]) => certain, NothingLost(old, listing)
      PROVE  NothingLost(new, listing \cup {k})
  <2> SUFFICES ASSUME NEW j \in listing \cup {k}, IsSegment(Objects[j])
               PROVE  \E i \in 1 .. Len(old) : LiesIn(Objects[j], old[i])
    BY <1>1 DEF NothingLost
  <2>1. CASE j \in listing
    BY <1>3, <2>1 DEF NothingLost
  <2>2. CASE j = k
    <3>1. old # <<>> /\ Repeats(old[Len(old)], Objects[k])
      BY <1>3, <2>2 DEF Kept
    <3>2. Len(old) \in 1 .. Len(old) /\ old[Len(old)] \in RawRange
      BY <3>1
    <3>3. old[Len(old)].start <= old[Len(old)].end
      BY <3>2 DEF RawsInOrder
    <3>4. LiesIn(Objects[k], old[Len(old)])
      BY <3>1, <3>2, <3>3 DEF Repeats, LiesIn, RawRange
    <3> QED
      BY <2>2, <3>2, <3>4
  <2> QED
    BY <2>1, <2>2
<1> QED
  BY <1>1, <1>2, <1>3

(* Ranges whose last one is lengthened stand for the new segment too.      *)
LEMMA LengthenedIsCollected ==
  ASSUME NEW old \in Seq(RawRange), NEW new, NEW listing \in SUBSET DOMAIN Objects,
         NEW k \in DOMAIN Objects, IsSegment(Objects[k]), Lengthened(old, new, Objects[k]),
         RawsInOrder(old), NothingInvented(old, listing)
  PROVE  /\ RawsInOrder(new) /\ NothingInvented(new, listing \cup {k})
         /\ NothingLost(old, listing) => NothingLost(new, listing \cup {k})
<1> DEFINE n == Len(old)
           o == Objects[k]
           last == old[n]
<1>1. n \in Nat /\ n \in 1 .. n /\ last \in RawRange /\ o.segment \in Nat
  BY ObjectFacts DEF Lengthened
<1>2. /\ last.timeline = o.timeline /\ last.log = o.log /\ last.end + 1 = o.segment
      /\ last.start <= last.end /\ last.timeline # 0
      /\ last.timeline \in Nat /\ last.log \in Nat /\ last.start \in Nat /\ last.end \in Nat
  BY <1>1 DEF Lengthened, Extends, SameLog, RawsInOrder, RawRange
<1> DEFINE longer == [last EXCEPT !.end = o.segment]
<1>3. /\ longer.timeline = last.timeline /\ longer.log = last.log /\ longer.start = last.start
      /\ longer.end = o.segment
  BY <1>1 DEF RawRange
<1>4. /\ Len(new) = n /\ new[n] = longer
      /\ \A i \in 1 .. n : i # n => new[i] = old[i]
      /\ \A i \in 1 .. n : old[i] \in RawRange
  <2>1. new = [old EXCEPT ![n] = longer]
    BY Zenon DEF Lengthened
  <2> HIDE DEF longer
  <2> QED
    BY <1>1, <2>1
<1> HIDE DEF longer, n, last
<1>5. RawsInOrder(new)
  <2>1. Len(new) <= MaxRanges
    BY <1>4 DEF RawsInOrder, n
  <2>2. \A i \in 1 .. Len(new) : new[i].timeline # 0 /\ new[i].start <= new[i].end
    <3> SUFFICES ASSUME NEW i \in 1 .. n PROVE new[i].timeline # 0 /\ new[i].start <= new[i].end
      BY <1>4
    <3>1. CASE i = n
      BY <1>1, <1>2, <1>3, <1>4, <3>1
    <3>2. CASE i # n
      BY <1>4, <3>2 DEF RawsInOrder, n
    <3> QED
      BY <3>1, <3>2
  <2>3. \A i, j \in 1 .. Len(new) : i < j => RawBefore(new[i], new[j])
    <3> SUFFICES ASSUME NEW i \in 1 .. n, NEW j \in 1 .. n, i < j PROVE RawBefore(new[i], new[j])
      BY <1>4
    <3>1. i # n /\ new[i] = old[i] /\ RawBefore(old[i], old[j])
      BY <1>1, <1>4 DEF RawsInOrder, n
    <3>2. CASE j = n
      BY <1>3, <1>4, <3>1, <3>2 DEF RawBefore, last
    <3>3. CASE j # n
      BY <1>4, <3>1, <3>3
    <3> QED
      BY <3>2, <3>3
  <2> QED
    BY <2>1, <2>2, <2>3 DEF RawsInOrder
<1>6. NothingInvented(new, listing \cup {k})
  <2> SUFFICES ASSUME NEW i \in 1 .. n, NEW s \in new[i].start .. new[i].end
               PROVE  \E j \in listing \cup {k} :
                        IsSegment(Objects[j]) /\ SameLog(new[i], Objects[j]) /\ Objects[j].segment = s
    BY <1>4 DEF NothingInvented
  <2>1. CASE i # n
    BY <1>4, <2>1 DEF NothingInvented, n
  <2>2. CASE i = n /\ s = o.segment
    BY <1>2, <1>3, <1>4, <2>2 DEF SameLog
  <2>3. CASE i = n /\ s # o.segment
    <3>1. s \in last.start .. last.end
      BY <1>2, <1>3, <1>4, <2>3
    <3>2. PICK j \in listing : IsSegment(Objects[j]) /\ SameLog(last, Objects[j]) /\ Objects[j].segment = s
      BY <1>1, <3>1 DEF NothingInvented, n, last
    <3> QED
      BY <1>3, <1>4, <2>3, <3>2 DEF SameLog
  <2> QED
    BY <2>1, <2>2, <2>3
<1>7. ASSUME NothingLost(old, listing) PROVE NothingLost(new, listing \cup {k})
  <2> SUFFICES ASSUME NEW j \in listing \cup {k}, IsSegment(Objects[j])
               PROVE  \E i \in 1 .. n : LiesIn(Objects[j], new[i])
    BY <1>4 DEF NothingLost
  <2>1. CASE j \in listing
    <3>1. PICK i \in 1 .. n : LiesIn(Objects[j], old[i])
      BY <1>7, <2>1 DEF NothingLost, n
    <3>2. CASE i # n
      BY <1>4, <3>1, <3>2
    <3>3. CASE i = n
      <4>1. Objects[j].segment \in Nat /\ LiesIn(Objects[j], last)
        BY <2>1, <3>1, <3>3, ObjectFacts DEF last
      <4> QED
        BY <1>1, <1>2, <1>3, <1>4, <4>1, SMTT(30) DEF LiesIn, SameLog
    <3> QED
      BY <3>2, <3>3
  <2>2. CASE j = k
    <3>1. LiesIn(o, new[n])
      BY <1>1, <1>2, <1>3, <1>4 DEF LiesIn, SameLog
    <3> QED
      BY <1>1, <2>2, <3>1
  <2> QED
    BY <2>1, <2>2
<1> QED
  BY <1>5, <1>6, <1>7

(* So do ranges to which the new segment is appended, and they stay in     *)
(* order.                                                                  *)
LEMMA AppendedIsCollected ==
  ASSUME NEW old \in Seq(RawRange), NEW new, NEW listing \in SUBSET DOMAIN Objects,
         NEW k \in DOMAIN Objects, IsSegment(Objects[k]), Appended(old, new, Objects[k]),
         RawsInOrder(old), NothingInvented(old, listing)
  PROVE  /\ RawsInOrder(new) /\ NothingInvented(new, listing \cup {k})
         /\ NothingLost(old, listing) => NothingLost(new, listing \cup {k})
<1> DEFINE n == Len(old)
           o == Objects[k]
           last == old[n]
           single == Single(o)
<1>1. n \in Nat /\ o.segment \in Nat /\ o.timeline \in Nat /\ o.log \in Nat
  BY ObjectFacts
<1>2. /\ single.timeline = o.timeline /\ single.log = o.log
      /\ single.start = o.segment /\ single.end = o.segment
      /\ single \in RawRange
  BY <1>1 DEF Single, RawRange
<1> HIDE DEF single
<1>3. /\ Len(new) = n + 1 /\ new[n + 1] = single
      /\ \A i \in 1 .. n : i \in 1 .. n + 1 /\ new[i] = old[i] /\ old[i] \in RawRange
  <2>1. new = Append(old, single)
    BY DEF Appended, single
  <2> QED
    BY <1>1, <2>1
<1>4. \A i \in 1 .. n + 1 : i # n + 1 => i \in 1 .. n
  BY <1>1
<1>5. n + 1 \in 1 .. n + 1
  BY <1>1
<1> HIDE DEF n
<1>6. RawsInOrder(new)
  <2>1. Len(new) <= MaxRanges
    BY <1>1, <1>3, LimitsAssumption DEF Appended, n
  <2>2. \A i \in 1 .. Len(new) : new[i].timeline # 0 /\ new[i].start <= new[i].end
    <3> SUFFICES ASSUME NEW i \in 1 .. n + 1 PROVE new[i].timeline # 0 /\ new[i].start <= new[i].end
      BY <1>3
    <3>1. CASE i = n + 1
      BY <1>1, <1>2, <1>3, <3>1 DEF IsSegment
    <3>2. CASE i # n + 1
      BY <1>3, <1>4, <3>2 DEF RawsInOrder, n
    <3> QED
      BY <3>1, <3>2
  <2>3. \A i, j \in 1 .. Len(new) : i < j => RawBefore(new[i], new[j])
    <3> SUFFICES ASSUME NEW i \in 1 .. n + 1, NEW j \in 1 .. n + 1, i < j PROVE RawBefore(new[i], new[j])
      BY <1>3
    <3>1. i # n + 1 /\ i \in 1 .. n /\ n \in 1 .. n
      BY <1>1
    <3>2. CASE j # n + 1
      BY <1>3, <1>4, <3>1, <3>2 DEF RawsInOrder, n
    <3>3. CASE j = n + 1
      <4>1. old # <<>>
        BY <3>1 DEF n
      <4>2. RawBefore(last, single) /\ last.start <= last.end /\ last \in RawRange
        BY <1>3, <3>1, <4>1 DEF Appended, RawsInOrder, n, single
      <4>3. CASE i = n
        BY <1>3, <3>1, <3>3, <4>2, <4>3
      <4>4. CASE i # n
        <5>1. i < n
          BY <1>1, <3>1, <4>4
        <5>2. RawBefore(old[i], last)
          BY <3>1, <5>1 DEF RawsInOrder, n
        <5> QED
          BY <1>2, <1>3, <3>1, <3>3, <4>2, <5>2, RawBeforeIsTransitive
      <4> QED
        BY <4>3, <4>4
    <3> QED
      BY <3>2, <3>3
  <2> QED
    BY <2>1, <2>2, <2>3 DEF RawsInOrder
<1>7. NothingInvented(new, listing \cup {k})
  <2> SUFFICES ASSUME NEW i \in 1 .. n + 1, NEW s \in new[i].start .. new[i].end
               PROVE  \E j \in listing \cup {k} :
                        IsSegment(Objects[j]) /\ SameLog(new[i], Objects[j]) /\ Objects[j].segment = s
    BY <1>3 DEF NothingInvented
  <2>1. CASE i # n + 1
    BY <1>3, <1>4, <2>1 DEF NothingInvented, n
  <2>2. CASE i = n + 1
    BY <1>1, <1>2, <1>3, <2>2 DEF SameLog
  <2> QED
    BY <2>1, <2>2
<1>8. ASSUME NothingLost(old, listing) PROVE NothingLost(new, listing \cup {k})
  <2> SUFFICES ASSUME NEW j \in listing \cup {k}, IsSegment(Objects[j])
               PROVE  \E i \in 1 .. n + 1 : LiesIn(Objects[j], new[i])
    BY <1>3 DEF NothingLost
  <2>1. CASE j \in listing
    <3>1. PICK i \in 1 .. n : LiesIn(Objects[j], old[i])
      BY <1>8, <2>1 DEF NothingLost, n
    <3> QED
      BY <1>3, <3>1
  <2>2. CASE j = k
    <3>1. LiesIn(o, new[n + 1])
      BY <1>1, <1>2, <1>3 DEF LiesIn, SameLog
    <3> QED
      BY <1>5, <2>2, <3>1
  <2> QED
    BY <2>1, <2>2
<1> QED
  BY <1>6, <1>7, <1>8

(* Whatever is added, what is collected stays exactly what was listed.     *)
LEMMA CollectStep ==
  ASSUME NEW b, NEW listing \in SUBSET DOMAIN Objects, Collected(b, listing),
         NEW k \in DOMAIN Objects
  PROVE  Collected(Add(b, Objects[k]), listing \cup {k})
<1> DEFINE o == Objects[k]
           r == Add(b, o)
           certain == IsSegment(o) /\ r.rangesTruncated = FALSE /\ r.outOfOrder = FALSE
<1>1. b \in Builder /\ b.ranges \in Seq(RawRange)
  BY DEF Collected, Builder
<1>2. Grown(b, r, o, IsSegment(o))
  BY <1>1, AddFacts DEF Collected
<1> HIDE DEF r
<1>3. /\ r \in Builder
      /\ r.rangesTruncated = FALSE => b.rangesTruncated = FALSE
      /\ r.outOfOrder = FALSE => b.outOfOrder = FALSE
      /\ r.rangesTruncated \in BOOLEAN /\ r.outOfOrder \in BOOLEAN
      /\ b.rangesTruncated \in BOOLEAN /\ b.outOfOrder \in BOOLEAN
  <2>1. r \in Builder
    BY <1>2 DEF Grown
  <2> QED
    BY <1>1, <1>2, <2>1, Zenon DEF Grown, Builder
<1>4. certain \in BOOLEAN
  BY Zenon DEF IsSegment
<1>5. RawsInOrder(b.ranges) /\ NothingInvented(b.ranges, listing)
  BY DEF Collected
<1>6. /\ RawsInOrder(r.ranges) /\ NothingInvented(r.ranges, listing \cup {k})
      /\ (IsSegment(o) => certain) /\ NothingLost(b.ranges, listing)
           => NothingLost(r.ranges, listing \cup {k})
  <2>1. CASE Kept(b.ranges, r.ranges, o, certain)
    <3> HIDE DEF certain
    <3> QED
      BY <1>1, <1>4, <1>5, <2>1, KeptIsCollected, Zenon
  <2>2. CASE IsSegment(o) /\ Lengthened(b.ranges, r.ranges, o)
    BY <1>1, <1>5, <2>2, LengthenedIsCollected, Zenon
  <2>3. CASE IsSegment(o) /\ Appended(b.ranges, r.ranges, o)
    BY <1>1, <1>5, <2>3, AppendedIsCollected, Zenon
  <2> QED
    BY <1>2, <2>1, <2>2, <2>3, Zenon DEF Grown
<1>7. ASSUME ~r.rangesTruncated, ~r.outOfOrder PROVE NothingLost(r.ranges, listing \cup {k})
  <2>1. r.rangesTruncated = FALSE /\ r.outOfOrder = FALSE
    BY <1>3, <1>7, Zenon
  <2>2. ~b.rangesTruncated /\ ~b.outOfOrder
    BY <1>3, <2>1, Zenon
  <2>3. NothingLost(b.ranges, listing)
    BY <2>2, Zenon DEF Collected
  <2> QED
    BY <1>6, <2>1, <2>3, Zenon
<1>8. KeysKept(r, listing \cup {k})
  <2>1. Marked(b, r, o)
    BY <1>1, AddMarks DEF r
  <2>2. KeysKept(b, listing)
    BY DEF Collected
  <2> QED
    BY <2>1, <2>2 DEF Marked, KeysKept
<1> QED
  BY <1>3, <1>6, <1>7, <1>8, Zenon DEF Collected, r

-----------------------------------------------------------------------------
(* Archive positions *)

(* Positions of an earlier log file come before those of a later one       *)
(* (WALPosition), as long as the earlier segment number is below the       *)
(* segments of a log file.                                                 *)
LEMMA PositionOrder ==
  ASSUME NEW segments \in Nat, NEW low \in Nat, NEW high \in Nat, low < high,
         NEW s \in Nat, s < segments, NEW t \in Nat
  PROVE  WALPosition(low, s, segments) < WALPosition(high, t, segments)
<1>1. PICK d \in Nat : high = low + 1 + d
  <2>1. high - low - 1 \in Nat /\ high = low + 1 + (high - low - 1)
    OBVIOUS
  <2> QED
    BY <2>1
<1>2. high * segments = low * segments + segments + d * segments
  BY <1>1
<1>3. low * segments \in Nat /\ d * segments \in Nat
  OBVIOUS
<1> QED
  BY <1>2, <1>3 DEF WALPosition

(* Within a log file, positions are ordered as the segment numbers.        *)
LEMMA PositionType ==
  ASSUME NEW segments \in Nat, NEW log \in Nat, NEW s \in Nat
  PROVE  /\ WALPosition(log, s, segments) \in Nat
         /\ \A t \in Nat : WALPosition(log, s, segments) <= WALPosition(log, t, segments) <=> s <= t
         /\ \A t \in Nat : WALPosition(log, s, segments) < WALPosition(log, t, segments) <=> s < t
<1>1. log * segments \in Nat
  OBVIOUS
<1> QED
  BY <1>1 DEF WALPosition

Fits(raw, segments) == raw.start < segments /\ raw.end < segments

(* What a raw range and a placed range stand for. *)
Fills(raw, segments, timeline, position) ==
  /\ Fits(raw, segments)
  /\ raw.timeline = timeline
  /\ WALPosition(raw.log, raw.start, segments) <= position
  /\ position <= WALPosition(raw.log, raw.end, segments)

Holds(range, timeline, position) ==
  range.timeline = timeline /\ range.start <= position /\ position <= range.end

LiesBefore(left, right) ==
  \/ left.timeline < right.timeline
  \/ left.timeline = right.timeline /\ left.end + 1 < right.start

RangesInOrder(ranges) ==
  /\ \A i \in 1 .. Len(ranges) : ranges[i].timeline # 0 /\ ranges[i].start <= ranges[i].end
  /\ \A i, j \in 1 .. Len(ranges) : i < j => LiesBefore(ranges[i], ranges[j])

EndsWith(ranges, raw, segments) ==
  /\ Fits(raw, segments)
  /\ ranges[Len(ranges)].timeline = raw.timeline
  /\ ranges[Len(ranges)].end = WALPosition(raw.log, raw.end, segments)

Placement == [ranges : Seq(WALRange), invalid : BOOLEAN]

(* The first n raw ranges have been placed. *)
PlacedUpTo(placed, raws, segments, n) ==
  /\ placed \in Placement
  /\ Len(placed.ranges) <= n
  /\ RangesInOrder(placed.ranges)
  /\ placed.ranges # <<>> => \E j \in 1 .. n : EndsWith(placed.ranges, raws[j], segments)
  /\ placed.invalid = FALSE => \A j \in 1 .. n : Fits(raws[j], segments)
  /\ \A timeline, position \in Nat :
       (\E i \in 1 .. Len(placed.ranges) : Holds(placed.ranges[i], timeline, position))
         <=> \E j \in 1 .. n : Fills(raws[j], segments, timeline, position)

Placed(raw, segments) ==
  [timeline |-> raw.timeline,
   start    |-> WALPosition(raw.log, raw.start, segments),
   end      |-> WALPosition(raw.log, raw.end, segments)]

(* A raw range in order gives a range in order.                            *)
LEMMA PlacedType ==
  ASSUME NEW segments \in Nat, NEW raw \in RawRange, raw.timeline # 0, raw.start <= raw.end
  PROVE  LET range == Placed(raw, segments)
         IN  /\ range \in WALRange
             /\ range.timeline = raw.timeline /\ range.timeline \in Nat /\ range.timeline # 0
             /\ range.start = WALPosition(raw.log, raw.start, segments) /\ range.start \in Nat
             /\ range.end = WALPosition(raw.log, raw.end, segments) /\ range.end \in Nat
             /\ range.start <= range.end
BY PositionType DEF Placed, WALRange, RawRange

(* A range that comes next lies behind all that are placed. *)
LEMMA ComesNext ==
  ASSUME NEW segments \in Nat, NEW left \in RawRange, NEW right \in RawRange,
         left.start <= left.end, right.start <= right.end,
         RawBefore(left, right), Fits(left, segments), Fits(right, segments)
  PROVE  \/ left.timeline < right.timeline
         \/ /\ left.timeline = right.timeline
            /\ WALPosition(left.log, left.end, segments) < WALPosition(right.log, right.start, segments)
<1>1. /\ left.timeline \in Nat /\ left.log \in Nat /\ left.start \in Nat /\ left.end \in Nat
      /\ right.timeline \in Nat /\ right.log \in Nat /\ right.start \in Nat /\ right.end \in Nat
  BY DEF RawRange
<1>2. CASE left.timeline < right.timeline
  BY <1>2
<1>3. CASE left.timeline = right.timeline /\ left.log < right.log
  <2>1. WALPosition(left.log, left.end, segments) < WALPosition(right.log, right.start, segments)
    BY <1>1, <1>3, PositionOrder DEF Fits
  <2> QED
    BY <1>3, <2>1
<1>4. CASE left.timeline = right.timeline /\ left.log = right.log /\ left.end + 1 < right.start
  <2>1. left.end < right.start
    BY <1>1, <1>4
  <2>2. WALPosition(left.log, left.end, segments) < WALPosition(left.log, right.start, segments)
    BY <1>1, <2>1, PositionType
  <2> QED
    BY <1>4, <2>2
<1> QED
  BY <1>2, <1>3, <1>4 DEF RawBefore

(* PlaceRange drops a range that the segment size does not allow, and says *)
(* so.                                                                     *)
LEMMA DroppedRange ==
  ASSUME NEW segments \in Nat, NEW raws \in Seq(RawRange), NEW n \in Nat, n < Len(raws),
         NEW placed, PlacedUpTo(placed, raws, segments, n),
         ~Fits(raws[n + 1], segments)
  PROVE  PlacedUpTo(PlaceRange(placed, raws[n + 1], segments), raws, segments, n + 1)
<1> DEFINE raw == raws[n + 1]
           new == [placed EXCEPT !.invalid = TRUE]
<1>1. raw \in RawRange
  OBVIOUS
<1>2. PlaceRange(placed, raw, segments) = new
  <2>1. raw.start >= segments \/ raw.end >= segments
    BY <1>1 DEF Fits, RawRange
  <2> QED
    BY <2>1, Zenon DEF PlaceRange, Fits
<1>3. placed \in Placement
  BY DEF PlacedUpTo
<1>4. new \in Placement /\ new.ranges = placed.ranges /\ new.invalid = TRUE
  BY <1>3, Zenon DEF Placement
<1> HIDE DEF new
<1>5. \A j \in 1 .. n + 1 : j \in 1 .. n \/ j = n + 1
  OBVIOUS
<1>6. \A j \in 1 .. n : j \in 1 .. n + 1
  OBVIOUS
<1>7. Len(new.ranges) <= n + 1
  BY <1>3, <1>4 DEF PlacedUpTo, Placement
<1>8. \A timeline, position \in Nat :
        (\E i \in 1 .. Len(new.ranges) : Holds(new.ranges[i], timeline, position))
          <=> \E j \in 1 .. n + 1 : Fills(raws[j], segments, timeline, position)
  BY <1>4, <1>5, <1>6, Zenon DEF PlacedUpTo, Fills
<1>9. new.ranges # <<>> => \E j \in 1 .. n + 1 : EndsWith(new.ranges, raws[j], segments)
  BY <1>4, <1>6, Zenon DEF PlacedUpTo
<1>10. RangesInOrder(new.ranges)
  BY <1>4, Zenon DEF PlacedUpTo
<1>11. new.invalid # FALSE
  BY <1>4
<1> QED
  BY <1>2, <1>4, <1>7, <1>8, <1>9, <1>10, <1>11, Zenon DEF PlacedUpTo

(* The order of the placed ranges is transitive.                           *)
LEMMA LiesBeforeIsTransitive ==
  ASSUME NEW a \in WALRange, NEW b \in WALRange, NEW c \in WALRange,
         b.start <= b.end, LiesBefore(a, b), LiesBefore(b, c)
  PROVE  LiesBefore(a, c)
BY DEF LiesBefore, WALRange

(* The range that comes next lies behind the last that is placed, on its   *)
(* timeline or on a later one.                                             *)
LEMMA LastOfPlaced ==
  ASSUME NEW segments \in Nat, NEW raws \in Seq(RawRange), RawsInOrder(raws), NEW n \in Nat, n < Len(raws),
         NEW placed, PlacedUpTo(placed, raws, segments, n), Fits(raws[n + 1], segments),
         placed.ranges # <<>>
  PROVE  LET last  == placed.ranges[Len(placed.ranges)]
             range == Placed(raws[n + 1], segments)
         IN  \/ last.timeline < range.timeline
             \/ last.timeline = range.timeline /\ last.end < range.start
<1> DEFINE last == placed.ranges[Len(placed.ranges)]
           raw == raws[n + 1]
<1>1. PICK j \in 1 .. n : EndsWith(placed.ranges, raws[j], segments)
  BY DEF PlacedUpTo
<1>2. j \in 1 .. Len(raws) /\ n + 1 \in 1 .. Len(raws) /\ j < n + 1
  OBVIOUS
<1>3. /\ raws[j] \in RawRange /\ raws[j].start <= raws[j].end
      /\ raw \in RawRange /\ raw.start <= raw.end /\ raw.timeline # 0
      /\ RawBefore(raws[j], raw)
  BY <1>2 DEF RawsInOrder
<1>4. \/ raws[j].timeline < raw.timeline
      \/ /\ raws[j].timeline = raw.timeline
         /\ WALPosition(raws[j].log, raws[j].end, segments) < WALPosition(raw.log, raw.start, segments)
  BY <1>1, <1>3, ComesNext DEF EndsWith
<1>5. last.timeline = raws[j].timeline /\ last.end = WALPosition(raws[j].log, raws[j].end, segments)
  BY <1>1 DEF EndsWith
<1>6. Placed(raw, segments).timeline = raw.timeline
      /\ Placed(raw, segments).start = WALPosition(raw.log, raw.start, segments)
  BY DEF Placed
<1> QED
  BY <1>4, <1>5, <1>6

(* PlaceRange joins it to the last one when the two are adjacent.          *)
LEMMA JoinedRange ==
  ASSUME NEW segments \in Nat, NEW raws \in Seq(RawRange), RawsInOrder(raws), NEW n \in Nat, n < Len(raws),
         NEW placed, PlacedUpTo(placed, raws, segments, n), Fits(raws[n + 1], segments),
         placed.ranges # <<>>,
         Adjacent(placed.ranges[Len(placed.ranges)], Placed(raws[n + 1], segments))
  PROVE  PlacedUpTo(PlaceRange(placed, raws[n + 1], segments), raws, segments, n + 1)
<1> DEFINE raw == raws[n + 1]
           range == Placed(raw, segments)
           old == placed.ranges
           m == Len(old)
           last == old[m]
           longer == [last EXCEPT !.end = range.end]
           list == [old EXCEPT ![m] = longer]
           new == [placed EXCEPT !.ranges = list]
<1>1. n + 1 \in 1 .. Len(raws) /\ raw \in RawRange /\ raw.start <= raw.end /\ raw.timeline # 0
  BY DEF RawsInOrder
<1>2. /\ placed \in Placement /\ old \in Seq(WALRange) /\ m \in Nat /\ m \in 1 .. m /\ m <= n
      /\ last \in WALRange /\ RangesInOrder(old)
      /\ \A i \in 1 .. m : old[i] \in WALRange
  BY DEF PlacedUpTo, Placement
<1>3. /\ range.timeline = raw.timeline
      /\ range.start = WALPosition(raw.log, raw.start, segments) /\ range.start \in Nat
      /\ range.end = WALPosition(raw.log, raw.end, segments) /\ range.end \in Nat
      /\ range.start <= range.end
  BY <1>1, PlacedType
<1>4. last.timeline = range.timeline /\ last.end + 1 = range.start
  BY DEF Adjacent
<1>5. PlaceRange(placed, raw, segments) = new
  <2>1. PlaceRange(placed, raw, segments) = [placed EXCEPT !.ranges[m].end = range.end]
    <3>1. m > 0
      BY <1>2
    <3>2. raw.start < segments /\ raw.end < segments /\ ~(raw.start >= segments \/ raw.end >= segments)
      BY <1>1, SMTT(30) DEF Fits, RawRange
    <3> QED
      BY <3>1, <3>2, Zenon DEF PlaceRange, Placed
  <2> QED
    BY <2>1, Zenon
<1>6. longer \in WALRange /\ longer.timeline = last.timeline /\ longer.start = last.start
      /\ longer.end = range.end
  BY <1>2, <1>3 DEF WALRange
<1>7. last.timeline \in Nat /\ last.start \in Nat /\ last.end \in Nat
  BY <1>2 DEF WALRange
<1> HIDE DEF longer, range
<1>8. /\ list \in Seq(WALRange) /\ Len(list) = m /\ list[m] = longer
      /\ \A i \in 1 .. m : i # m => list[i] = old[i]
  BY <1>2, <1>6
<1> HIDE DEF list
<1>9. new \in Placement /\ new.ranges = list /\ new.invalid = placed.invalid
  BY <1>2, <1>8, Zenon DEF Placement
<1> HIDE DEF new, last, m, old
<1>10. RangesInOrder(list)
  <2>1. \A i \in 1 .. Len(list) : list[i].timeline # 0 /\ list[i].start <= list[i].end
    <3> SUFFICES ASSUME NEW i \in 1 .. m PROVE list[i].timeline # 0 /\ list[i].start <= list[i].end
      BY <1>8
    <3>1. old[i].timeline # 0 /\ old[i].start <= old[i].end
      BY <1>2 DEF RangesInOrder, m
    <3>2. CASE i = m
      BY <1>3, <1>4, <1>6, <1>7, <1>8, <3>1, <3>2, SMTT(30) DEF last
    <3>3. CASE i # m
      BY <1>8, <3>1, <3>3
    <3> QED
      BY <3>2, <3>3
  <2>2. \A i, j \in 1 .. Len(list) : i < j => LiesBefore(list[i], list[j])
    <3> SUFFICES ASSUME NEW i \in 1 .. m, NEW j \in 1 .. m, i < j PROVE LiesBefore(list[i], list[j])
      BY <1>8
    <3>1. i # m /\ list[i] = old[i] /\ LiesBefore(old[i], old[j])
      <4>1. i # m
        BY <1>2
      <4>2. LiesBefore(old[i], old[j])
        BY <1>2 DEF RangesInOrder, m
      <4> QED
        BY <1>8, <4>1, <4>2
    <3>2. CASE j = m
      BY <1>6, <1>8, <3>1, <3>2 DEF LiesBefore, last
    <3>3. CASE j # m
      BY <1>8, <3>1, <3>3
    <3> QED
      BY <3>2, <3>3
  <2> QED
    BY <2>1, <2>2 DEF RangesInOrder
<1>11. EndsWith(list, raw, segments)
  BY <1>3, <1>4, <1>6, <1>8 DEF EndsWith
<1>12. n + 1 \in 1 .. n + 1 /\ \A j \in 1 .. n : j \in 1 .. n + 1
  OBVIOUS
<1>13. \A j \in 1 .. n + 1 : j \in 1 .. n \/ j = n + 1
  OBVIOUS
<1>14. new.invalid = FALSE => \A j \in 1 .. n + 1 : Fits(raws[j], segments)
  BY <1>9, <1>13, Zenon DEF PlacedUpTo
<1>15. ASSUME NEW t \in Nat, NEW p \in Nat
       PROVE  (\E i \in 1 .. m : Holds(list[i], t, p))
                <=> \E j \in 1 .. n + 1 : Fills(raws[j], segments, t, p)
  <2>1. (\E i \in 1 .. m : Holds(old[i], t, p)) <=> \E j \in 1 .. n : Fills(raws[j], segments, t, p)
    BY DEF PlacedUpTo, m, old
  <2>2. Holds(longer, t, p) <=> Holds(last, t, p) \/ Fills(raw, segments, t, p)
    <3>1. last.start <= last.end
      BY <1>2 DEF RangesInOrder, m, last
    <3> QED
      BY <1>3, <1>4, <1>6, <1>7, <3>1 DEF Holds, Fills
  <2>3. (\E i \in 1 .. m : Holds(list[i], t, p))
          <=> (\E i \in 1 .. m : Holds(old[i], t, p)) \/ Fills(raw, segments, t, p)
    <3>1. ASSUME NEW i \in 1 .. m, Holds(list[i], t, p)
          PROVE  (\E k \in 1 .. m : Holds(old[k], t, p)) \/ Fills(raw, segments, t, p)
      BY <1>2, <1>8, <2>2, <3>1 DEF last
    <3>2. ASSUME NEW i \in 1 .. m, Holds(old[i], t, p)
          PROVE  \E k \in 1 .. m : Holds(list[k], t, p)
      BY <1>2, <1>8, <2>2, <3>2 DEF last
    <3>3. ASSUME Fills(raw, segments, t, p) PROVE \E k \in 1 .. m : Holds(list[k], t, p)
      BY <1>2, <1>8, <2>2, <3>3
    <3> QED
      BY <3>1, <3>2, <3>3
  <2> QED
    BY <1>12, <1>13, <2>1, <2>3, Zenon
<1>16. Len(list) <= n + 1
  BY <1>2, <1>8
<1> QED
  BY <1>5, <1>8, <1>9, <1>10, <1>11, <1>12, <1>14, <1>15, <1>16, Zenon DEF PlacedUpTo

(* PlaceRange appends it otherwise.                                        *)
LEMMA AddedRange ==
  ASSUME NEW segments \in Nat, NEW raws \in Seq(RawRange), RawsInOrder(raws), NEW n \in Nat, n < Len(raws),
         NEW placed, PlacedUpTo(placed, raws, segments, n), Fits(raws[n + 1], segments),
         placed.ranges # <<>> => ~Adjacent(placed.ranges[Len(placed.ranges)], Placed(raws[n + 1], segments))
  PROVE  PlacedUpTo(PlaceRange(placed, raws[n + 1], segments), raws, segments, n + 1)
<1> DEFINE raw == raws[n + 1]
           range == Placed(raw, segments)
           old == placed.ranges
           m == Len(old)
           last == old[m]
           list == Append(old, range)
           new == [placed EXCEPT !.ranges = list]
<1>1. n + 1 \in 1 .. Len(raws) /\ raw \in RawRange /\ raw.start <= raw.end /\ raw.timeline # 0
  BY DEF RawsInOrder
<1>2. /\ placed \in Placement /\ old \in Seq(WALRange) /\ m \in Nat /\ m <= n
      /\ RangesInOrder(old)
      /\ \A i \in 1 .. m : old[i] \in WALRange
      /\ m # 0 => old # <<>> /\ m \in 1 .. m
      /\ m = 0 => old = <<>>
  BY DEF PlacedUpTo, Placement
<1>3. /\ range \in WALRange /\ range.timeline = raw.timeline /\ range.timeline \in Nat /\ range.timeline # 0
      /\ range.start = WALPosition(raw.log, raw.start, segments) /\ range.start \in Nat
      /\ range.end = WALPosition(raw.log, raw.end, segments) /\ range.end \in Nat
      /\ range.start <= range.end
  BY <1>1, PlacedType
<1>4. PlaceRange(placed, raw, segments) = new
  <2>1. ~(raw.start >= segments \/ raw.end >= segments)
    BY <1>1, SMTT(30) DEF Fits, RawRange
  <2>2. ~(m > 0 /\ Adjacent(last, range))
    BY <1>2
  <2> QED
    BY <2>1, <2>2, Zenon DEF PlaceRange, Placed
<1>5. old # <<>> => LiesBefore(last, range)
  <2> SUFFICES ASSUME old # <<>> PROVE LiesBefore(last, range)
    OBVIOUS
  <2>1. \/ last.timeline < range.timeline
        \/ last.timeline = range.timeline /\ last.end < range.start
    BY LastOfPlaced
  <2>2. last.timeline = range.timeline => last.end + 1 # range.start
    BY DEF Adjacent
  <2>3. last \in WALRange
    BY <1>2
  <2>4. last.end \in Nat
    BY <2>3 DEF WALRange
  <2> QED
    BY <1>3, <2>1, <2>2, <2>4 DEF LiesBefore
<1> HIDE DEF range
<1>6. /\ list \in Seq(WALRange) /\ Len(list) = m + 1 /\ list[m + 1] = range
      /\ \A i \in 1 .. m : i \in 1 .. m + 1 /\ list[i] = old[i]
  BY <1>2, <1>3
<1> HIDE DEF list
<1>7. new \in Placement /\ new.ranges = list /\ new.invalid = placed.invalid
  BY <1>2, <1>6, Zenon DEF Placement
<1> HIDE DEF new, last, m, old
<1>8. m + 1 \in 1 .. m + 1 /\ \A i \in 1 .. m + 1 : i # m + 1 => i \in 1 .. m
  BY <1>2
<1>9. RangesInOrder(list)
  <2>1. \A i \in 1 .. Len(list) : list[i].timeline # 0 /\ list[i].start <= list[i].end
    <3> SUFFICES ASSUME NEW i \in 1 .. m + 1 PROVE list[i].timeline # 0 /\ list[i].start <= list[i].end
      BY <1>6
    <3>1. CASE i = m + 1
      BY <1>3, <1>6, <3>1
    <3>2. CASE i # m + 1
      BY <1>2, <1>6, <1>8, <3>2 DEF RangesInOrder, m
    <3> QED
      BY <3>1, <3>2
  <2>2. \A i, j \in 1 .. Len(list) : i < j => LiesBefore(list[i], list[j])
    <3> SUFFICES ASSUME NEW i \in 1 .. m + 1, NEW j \in 1 .. m + 1, i < j PROVE LiesBefore(list[i], list[j])
      BY <1>6
    <3>1. i \in 1 .. m /\ m # 0
      BY <1>2
    <3>2. CASE j # m + 1
      BY <1>2, <1>6, <1>8, <3>1, <3>2 DEF RangesInOrder, m
    <3>3. CASE j = m + 1
      <4>1. LiesBefore(last, range) /\ last \in WALRange /\ m \in 1 .. m
        BY <1>2, <1>5, <3>1 DEF last
      <4>2. CASE i = m
        BY <1>6, <3>1, <3>3, <4>1, <4>2 DEF last
      <4>3. CASE i # m
        <5>1. i < m
          BY <1>2, <3>1, <4>3
        <5>2. LiesBefore(old[i], last) /\ last.start <= last.end /\ old[i] \in WALRange
          BY <1>2, <3>1, <4>1, <5>1 DEF RangesInOrder, m, last
        <5>3. LiesBefore(old[i], range)
          BY <1>3, <4>1, <5>2, LiesBeforeIsTransitive
        <5> QED
          BY <1>6, <3>1, <3>3, <5>3
      <4> QED
        BY <4>2, <4>3
    <3> QED
      BY <3>2, <3>3
  <2> QED
    BY <2>1, <2>2 DEF RangesInOrder
<1>10. EndsWith(list, raw, segments)
  BY <1>3, <1>6 DEF EndsWith
<1>11. n + 1 \in 1 .. n + 1 /\ \A j \in 1 .. n : j \in 1 .. n + 1
  OBVIOUS
<1>12. \A j \in 1 .. n + 1 : j \in 1 .. n \/ j = n + 1
  OBVIOUS
<1>13. new.invalid = FALSE => \A j \in 1 .. n + 1 : Fits(raws[j], segments)
  BY <1>7, <1>12, Zenon DEF PlacedUpTo
<1>14. ASSUME NEW t \in Nat, NEW p \in Nat
       PROVE  (\E i \in 1 .. m + 1 : Holds(list[i], t, p))
                <=> \E j \in 1 .. n + 1 : Fills(raws[j], segments, t, p)
  <2>1. (\E i \in 1 .. m : Holds(old[i], t, p)) <=> \E j \in 1 .. n : Fills(raws[j], segments, t, p)
    BY DEF PlacedUpTo, m, old
  <2>2. Holds(range, t, p) <=> Fills(raw, segments, t, p)
    BY <1>3 DEF Holds, Fills
  <2>3. (\E i \in 1 .. m + 1 : Holds(list[i], t, p))
          <=> (\E i \in 1 .. m : Holds(old[i], t, p)) \/ Holds(range, t, p)
    BY <1>6, <1>8, Zenon
  <2> QED
    BY <1>11, <1>12, <2>1, <2>2, <2>3, Zenon
<1>15. Len(list) <= n + 1
  BY <1>2, <1>6
<1> QED
  BY <1>4, <1>6, <1>7, <1>9, <1>10, <1>11, <1>13, <1>14, <1>15, Zenon DEF PlacedUpTo

(* The raw ranges are placed one after the other. *)
Placing(f, raws, segments, n) ==
  f = [m \in 0 .. n |-> IF m = 0 THEN NothingPlaced ELSE PlaceRange(f[m - 1], raws[m], segments)]

(* There is such a function for every number of raw ranges: a least number *)
(* without one would have one before it.                                   *)
LEMMA PlacingExists ==
  ASSUME NEW raws, NEW segments
  PROVE  \A n \in Nat : \E f : Placing(f, raws, segments, n)
<1> DEFINE bad == {n \in Nat : ~ \E f : Placing(f, raws, segments, n)}
<1>1. ASSUME bad # {} PROVE FALSE
  <2>1. PICK n \in bad : \A m \in bad : n <= m
    BY <1>1, LeastElement
  <2>2. CASE n = 0
    <3> DEFINE f == [m \in 0 .. 0 |-> NothingPlaced]
    <3>1. Placing(f, raws, segments, 0)
      BY DEF Placing
    <3> QED
      BY <2>1, <2>2, <3>1
  <2>3. CASE n # 0
    <3> DEFINE m == n - 1
    <3>1. m \in Nat /\ n = m + 1 /\ m \notin bad
      BY <2>1, <2>3
    <3>2. PICK f : Placing(f, raws, segments, m)
      BY <3>1
    <3> DEFINE g == [i \in 0 .. n |-> IF i = n THEN PlaceRange(f[m], raws[n], segments) ELSE f[i]]
    <3> HIDE DEF m
    <3>3. \A i \in 0 .. m :
            f[i] = IF i = 0 THEN NothingPlaced ELSE PlaceRange(f[i - 1], raws[i], segments)
      BY <3>2 DEF Placing
    <3>4. \A i \in 0 .. n :
            g[i] = IF i = 0 THEN NothingPlaced ELSE PlaceRange(g[i - 1], raws[i], segments)
      <4> TAKE i \in 0 .. n
      <4>1. CASE i = n
        BY <3>1, <4>1
      <4>2. CASE i # n
        <5>1. i \in 0 .. m /\ g[i] = f[i]
          BY <3>1, <4>2
        <5>2. i # 0 => i - 1 \in 0 .. n /\ i - 1 # n /\ g[i - 1] = f[i - 1]
          BY <3>1, <4>2
        <5> QED
          BY <3>3, <5>1, <5>2
      <4> QED
        BY <4>1, <4>2
    <3>5. g = [i \in 0 .. n |-> g[i]]
      OBVIOUS
    <3> HIDE DEF g
    <3>6. Placing(g, raws, segments, n)
      BY <3>4, <3>5 DEF Placing
    <3> QED
      BY <2>1, <3>6
  <2> QED
    BY <2>2, <2>3
<1> QED
  BY <1>1

(* PlaceAll is its last value.                                             *)
LEMMA PlaceAllIsPlacing ==
  ASSUME NEW raws \in Seq(RawRange), NEW segments
  PROVE  \E f : Placing(f, raws, segments, Len(raws)) /\ PlaceAll(raws, segments) = f[Len(raws)]
<1> DEFINE n == Len(raws)
           f == CHOOSE g : Placing(g, raws, segments, n)
<1>1. n \in Nat
  OBVIOUS
<1>2. Placing(f, raws, segments, n)
  BY <1>1, PlacingExists
<1>3. PlaceAll(raws, segments) = f[n]
  BY Zenon DEF PlaceAll, Placing
<1> QED
  BY <1>2, <1>3

(* Placing one more raw range, in each of the three cases.                 *)
LEMMA PlaceRangeStep ==
  ASSUME NEW segments \in Nat, NEW raws \in Seq(RawRange), RawsInOrder(raws), NEW n \in Nat, n < Len(raws),
         NEW placed, PlacedUpTo(placed, raws, segments, n)
  PROVE  PlacedUpTo(PlaceRange(placed, raws[n + 1], segments), raws, segments, n + 1)
<1>1. CASE ~Fits(raws[n + 1], segments)
  BY <1>1, DroppedRange
<1>2. CASE /\ Fits(raws[n + 1], segments)
           /\ placed.ranges # <<>>
           /\ Adjacent(placed.ranges[Len(placed.ranges)], Placed(raws[n + 1], segments))
  BY <1>2, JoinedRange
<1>3. CASE /\ Fits(raws[n + 1], segments)
           /\ placed.ranges # <<>> =>
                ~Adjacent(placed.ranges[Len(placed.ranges)], Placed(raws[n + 1], segments))
  BY <1>3, AddedRange
<1> QED
  BY <1>1, <1>2, <1>3

(* All raw ranges have been placed. *)
LEMMA AllPlaced ==
  ASSUME NEW segments \in Nat, NEW raws \in Seq(RawRange), RawsInOrder(raws)
  PROVE  PlacedUpTo(PlaceAll(raws, segments), raws, segments, Len(raws))
<1> DEFINE L == Len(raws)
<1>1. PICK f : Placing(f, raws, segments, L) /\ PlaceAll(raws, segments) = f[L]
  BY PlaceAllIsPlacing
<1>2. \A i \in 0 .. L :
        f[i] = IF i = 0 THEN NothingPlaced ELSE PlaceRange(f[i - 1], raws[i], segments)
  BY <1>1 DEF Placing
<1> DEFINE bad == {n \in 0 .. L : ~PlacedUpTo(f[n], raws, segments, n)}
<1>3. ASSUME bad # {} PROVE FALSE
  <2>1. bad \in SUBSET Nat
    OBVIOUS
  <2>2. PICK n \in bad : \A m \in bad : n <= m
    BY <1>3, <2>1, LeastElement
  <2>3. CASE n = 0
    <3>1. f[0] = NothingPlaced
      BY <1>2
    <3>2. NothingPlaced \in Placement /\ NothingPlaced.ranges = <<>>
      BY DEF NothingPlaced, Placement
    <3>3. \A j \in 1 .. 0 : FALSE
      OBVIOUS
    <3>4. Len(<<>>) = 0 /\ RangesInOrder(<<>>)
      BY DEF RangesInOrder
    <3>5. PlacedUpTo(NothingPlaced, raws, segments, 0)
      BY <3>2, <3>3, <3>4 DEF PlacedUpTo
    <3> QED
      BY <2>2, <2>3, <3>1, <3>5
  <2>4. CASE n # 0
    <3> DEFINE m == n - 1
    <3>1. m \in Nat /\ n = m + 1 /\ m < L /\ m \in 0 .. L /\ m \notin bad
      BY <2>2, <2>4
    <3>2. PlacedUpTo(f[m], raws, segments, m)
      BY <3>1
    <3>3. f[n] = PlaceRange(f[m], raws[m + 1], segments)
      BY <1>2, <2>2, <2>4
    <3> HIDE DEF m
    <3>4. PlacedUpTo(f[n], raws, segments, n)
      BY <3>1, <3>2, <3>3, PlaceRangeStep
    <3> QED
      BY <2>2, <3>4
  <2> QED
    BY <2>3, <2>4
<1>4. L \in 0 .. L
  OBVIOUS
<1>5. L \notin bad
  BY <1>3
<1> HIDE DEF L
<1> QED
  BY <1>1, <1>4, <1>5 DEF L

(* The segments of a log file are a number.                                *)
LEMMA SegmentsAreNumbers == SegmentsPerLog \subseteq Nat
BY ContextAssumption

Position == [timeline : Nat, at : Nat]

(* The positions that ranges cover.                                        *)
LEMMA CoveredPositions ==
  ASSUME NEW ranges \in Seq(WALRange), NEW q
  PROVE  q \in Covered(ranges)
           <=> q \in Position /\ \E i \in 1 .. Len(ranges) : Holds(ranges[i], q.timeline, q.at)
<1>1. \A i \in 1 .. Len(ranges) : /\ ranges[i].timeline \in Nat
                                  /\ ranges[i].start \in Nat /\ ranges[i].end \in Nat
  <2> TAKE i \in 1 .. Len(ranges)
  <2>1. ranges[i] \in WALRange
    OBVIOUS
  <2> QED
    BY <2>1 DEF WALRange
<1>2. ASSUME q \in Covered(ranges)
      PROVE  q \in Position /\ \E i \in 1 .. Len(ranges) : Holds(ranges[i], q.timeline, q.at)
  <2>1. PICK i \in 1 .. Len(ranges) :
          q \in {[timeline |-> ranges[i].timeline, at |-> position] :
                   position \in ranges[i].start .. ranges[i].end}
    BY <1>2, Zenon DEF Covered
  <2>2. PICK position \in ranges[i].start .. ranges[i].end :
          q = [timeline |-> ranges[i].timeline, at |-> position]
    BY <2>1
  <2> QED
    BY <1>1, <2>2 DEF Position, Holds
<1>3. ASSUME q \in Position, NEW i \in 1 .. Len(ranges), Holds(ranges[i], q.timeline, q.at)
      PROVE  q \in Covered(ranges)
  <2>1. q.at \in ranges[i].start .. ranges[i].end
    BY <1>1, <1>3 DEF Holds, Position
  <2>2. q = [timeline |-> ranges[i].timeline, at |-> q.at]
    BY <1>3 DEF Holds, Position
  <2>3. q \in {[timeline |-> ranges[i].timeline, at |-> position] :
                  position \in ranges[i].start .. ranges[i].end}
    BY <2>1, <2>2
  <2> QED
    BY <2>3, Zenon DEF Covered
<1> QED
  BY <1>2, <1>3

(* A range that ends two or more before another starts before it.          *)
LEMMA RoomBetween ==
  ASSUME NEW start \in Nat, NEW end \in Nat, start <= end, NEW next \in Nat, end + 1 < next
  PROVE  start < next
OBVIOUS

(* The holes that a set of positions has are those between neighbouring    *)
(* ranges, when the ranges cover it and do not touch.                      *)
LEMMA HolesAreBetween ==
  ASSUME NEW ranges \in Seq(WALRange), RangesInOrder(ranges)
  PROVE  Between(ranges) = Holes(Covered(ranges))
<1> DEFINE n == Len(ranges)
           filled == Covered(ranges)
           Hole(i) == [timeline |-> ranges[i].timeline,
                       start    |-> ranges[i].end + 1,
                       end      |-> ranges[i + 1].start - 1]
<1>1. /\ n \in Nat
      /\ \A i \in 1 .. n : /\ ranges[i].timeline \in Nat
                           /\ ranges[i].start \in Nat /\ ranges[i].end \in Nat
                           /\ ranges[i].start <= ranges[i].end
      /\ \A i, j \in 1 .. n : i < j => LiesBefore(ranges[i], ranges[j])
  <2> SUFFICES ASSUME NEW i \in 1 .. n
               PROVE  /\ ranges[i].timeline \in Nat
                      /\ ranges[i].start \in Nat /\ ranges[i].end \in Nat
    BY DEF RangesInOrder
  <2>1. ranges[i] \in WALRange
    OBVIOUS
  <2> QED
    BY <2>1 DEF WALRange
<1>2. \A q : q \in filled <=> q \in Position /\ \E i \in 1 .. n : Holds(ranges[i], q.timeline, q.at)
  BY CoveredPositions
<1> HIDE DEF filled, n
<1>3. ASSUME NEW i \in 1 .. n - 1, ranges[i].timeline = ranges[i + 1].timeline,
             ranges[i].end + 1 < ranges[i + 1].start
      PROVE  Hole(i) \in Holes(filled)
  <2> DEFINE t == ranges[i].timeline
             p == [timeline |-> t, at |-> ranges[i].end]
             q == [timeline |-> t, at |-> ranges[i + 1].start]
  <2>1. i \in 1 .. n /\ i + 1 \in 1 .. n
    BY <1>1
  <2>2. p \in Position /\ q \in Position
    BY <1>1, <2>1 DEF Position
  <2>3. Holds(ranges[i], p.timeline, p.at) /\ Holds(ranges[i + 1], q.timeline, q.at)
    BY <1>1, <1>3, <2>1 DEF Holds
  <2>4. p \in filled /\ q \in filled
    BY <1>2, <2>1, <2>2, <2>3
  <2>5. ASSUME NEW r \in filled, r.timeline = t, ranges[i].end < r.at, r.at < ranges[i + 1].start
        PROVE  FALSE
    <3>1. PICK j \in 1 .. n : Holds(ranges[j], r.timeline, r.at)
      BY <1>2
    <3>2. r.at \in Nat
      BY <1>2 DEF Position
    <3>3. CASE j <= i
      <4>1. ranges[j].end <= ranges[i].end
        <5>1. CASE j = i
          BY <1>1, <2>1, <5>1
        <5>2. CASE j # i
          <6>1. j < i
            BY <1>1, <2>1, <3>3, <5>2
          <6>2. ranges[j].timeline = ranges[i].timeline
            BY <2>5, <3>1 DEF Holds
          <6>3. LiesBefore(ranges[j], ranges[i])
            BY <1>1, <2>1, <6>1
          <6>4. ranges[j].end + 1 < ranges[i].start
            BY <1>1, <2>1, <6>2, <6>3 DEF LiesBefore
          <6> QED
            BY <1>1, <2>1, <6>4
        <5> QED
          BY <5>1, <5>2
      <4> QED
        BY <1>1, <2>1, <2>5, <3>1, <3>2, <4>1, SMTT(30) DEF Holds
    <3>4. CASE j >= i + 1
      <4>1. ranges[i + 1].start <= ranges[j].start
        <5>1. CASE j = i + 1
          BY <1>1, <2>1, <5>1
        <5>2. CASE j # i + 1
          <6>1. i + 1 < j
            BY <1>1, <2>1, <3>4, <5>2
          <6>2. ranges[j].timeline = ranges[i + 1].timeline
            BY <1>3, <2>5, <3>1 DEF Holds
          <6>3. LiesBefore(ranges[i + 1], ranges[j])
            BY <1>1, <2>1, <6>1
          <6>4. /\ ranges[i + 1].timeline \in Nat /\ ranges[j].start \in Nat
                /\ ranges[i + 1].start \in Nat /\ ranges[i + 1].end \in Nat
                /\ ranges[i + 1].start <= ranges[i + 1].end
            BY <1>1, <2>1
          <6>5. ranges[i + 1].end + 1 < ranges[j].start
            BY <6>2, <6>3, <6>4 DEF LiesBefore
          <6>6. ranges[i + 1].start < ranges[j].start
            BY <6>4, <6>5, RoomBetween, Zenon
          <6> QED
            BY <6>4, <6>6
        <5> QED
          BY <5>1, <5>2
      <4> QED
        BY <1>1, <2>1, <2>5, <3>1, <3>2, <4>1, SMTT(30) DEF Holds
    <3> QED
      BY <1>1, <2>1, <3>3, <3>4
  <2>6. /\ <<p, q>> \in filled \X filled
        /\ <<p, q>>[1] = p /\ <<p, q>>[2] = q
        /\ p.timeline = t /\ q.timeline = t /\ p.at = ranges[i].end /\ q.at = ranges[i + 1].start
    BY <2>4
  <2>7. <<p, q>> \in {s \in filled \X filled :
                 /\ s[1].timeline = s[2].timeline
                 /\ s[1].at + 1 < s[2].at
                 /\ ~\E r \in filled : /\ r.timeline = s[1].timeline
                                       /\ s[1].at < r.at /\ r.at < s[2].at}
    <3> HIDE DEF p, q
    <3> QED
      BY <1>3, <2>5, <2>6
  <2>8. Hole(i) = [timeline |-> p.timeline, start |-> p.at + 1, end |-> q.at - 1]
    BY <2>6
  <2> HIDE DEF p, q
  <2> QED
    BY <2>6, <2>7, <2>8 DEF Holes
<1>4. ASSUME NEW p \in filled, NEW q \in filled, p.timeline = q.timeline, p.at + 1 < q.at,
             \A r \in filled : r.timeline = p.timeline => ~(p.at < r.at /\ r.at < q.at)
      PROVE  \E i \in 1 .. n - 1 : /\ ranges[i].timeline = ranges[i + 1].timeline
                                   /\ ranges[i].end + 1 < ranges[i + 1].start
                                   /\ Hole(i) = [timeline |-> p.timeline, start |-> p.at + 1, end |-> q.at - 1]
  <2>1. p.timeline \in Nat /\ p.at \in Nat /\ q.at \in Nat
    BY <1>2 DEF Position
  <2>2. PICK i \in 1 .. n : Holds(ranges[i], p.timeline, p.at)
    BY <1>2
  <2>3. PICK j \in 1 .. n : Holds(ranges[j], q.timeline, q.at)
    BY <1>2
  <2>4. ASSUME NEW a \in Nat, NEW k \in 1 .. n, Holds(ranges[k], p.timeline, a)
        PROVE  ~(p.at < a /\ a < q.at)
    <3> DEFINE r == [timeline |-> p.timeline, at |-> a]
    <3>1. r \in Position /\ r.timeline = p.timeline /\ r.at = a
      BY <2>1 DEF Position
    <3>2. r \in filled
      BY <1>2, <2>4, <3>1
    <3> HIDE DEF r
    <3> QED
      BY <1>4, <3>1, <3>2
  <2>5. p.at = ranges[i].end
    <3> SUFFICES ASSUME p.at # ranges[i].end PROVE FALSE
      OBVIOUS
    <3>1. p.at + 1 \in Nat /\ Holds(ranges[i], p.timeline, p.at + 1)
      BY <1>1, <2>1, <2>2, SMTT(30) DEF Holds
    <3> QED
      BY <1>4, <2>1, <2>4, <3>1
  <2>6. q.at = ranges[j].start
    <3> SUFFICES ASSUME q.at # ranges[j].start PROVE FALSE
      OBVIOUS
    <3>1. q.at - 1 \in Nat /\ Holds(ranges[j], p.timeline, q.at - 1)
      BY <1>1, <1>4, <2>1, <2>3, SMTT(30) DEF Holds
    <3> QED
      BY <1>4, <2>1, <2>4, <3>1
  <2>7. ranges[i].timeline = p.timeline /\ ranges[j].timeline = p.timeline
    BY <1>4, <2>2, <2>3 DEF Holds
  <2>8. i < j
    <3>1. CASE j = i
      BY <1>1, <1>4, <2>5, <2>6, <3>1
    <3>2. CASE j < i
      <4>1. LiesBefore(ranges[j], ranges[i])
        BY <1>1, <3>2
      <4>2. ranges[j].end + 1 < ranges[i].start
        BY <1>1, <2>7, <4>1 DEF LiesBefore
      <4>3. /\ ranges[i].start \in Nat /\ ranges[i].end \in Nat /\ ranges[i].start <= ranges[i].end
            /\ ranges[j].start \in Nat /\ ranges[j].end \in Nat /\ ranges[j].start <= ranges[j].end
        BY <1>1
      <4>4. ranges[i].end + 1 < ranges[j].start
        BY <1>4, <2>5, <2>6
      <4>5. ASSUME NEW a \in Nat, NEW b \in Nat, NEW c \in Nat, NEW d \in Nat, a <= b, c <= d,
                   b + 1 < c
            PROVE  ~(d + 1 < a)
        BY <4>5
      <4> QED
        BY <4>2, <4>3, <4>4, <4>5, Zenon
    <3> QED
      BY <3>1, <3>2
  <2>9. j = i + 1
    <3> SUFFICES ASSUME j # i + 1 PROVE FALSE
      OBVIOUS
    <3>1. i + 1 \in 1 .. n /\ i < i + 1 /\ i + 1 < j
      BY <1>1, <2>8
    <3>2. LiesBefore(ranges[i], ranges[i + 1]) /\ LiesBefore(ranges[i + 1], ranges[j])
      BY <1>1, <3>1
    <3>3. /\ ranges[i + 1].timeline = p.timeline
          /\ ranges[i].end < ranges[i + 1].start /\ ranges[i + 1].start < ranges[j].start
      <4>1. ranges[i + 1].timeline = p.timeline
        BY <1>1, <2>7, <3>1, <3>2, <2>1 DEF LiesBefore
      <4>2. ranges[i].end + 1 < ranges[i + 1].start /\ ranges[i + 1].end + 1 < ranges[j].start
        BY <1>1, <2>7, <3>1, <3>2, <4>1 DEF LiesBefore
      <4>3. /\ ranges[i].end \in Nat /\ ranges[j].start \in Nat
            /\ ranges[i + 1].start \in Nat /\ ranges[i + 1].end \in Nat
            /\ ranges[i + 1].start <= ranges[i + 1].end
        BY <1>1, <3>1
      <4>4. ranges[i].end <= ranges[i].end
        BY <4>3
      <4>5. ranges[i].end < ranges[i + 1].start /\ ranges[i + 1].start < ranges[j].start
        BY <4>2, <4>3, <4>4, RoomBetween, Zenon
      <4> QED
        BY <4>1, <4>5
    <3>4. Holds(ranges[i + 1], p.timeline, ranges[i + 1].start) /\ ranges[i + 1].start \in Nat
      BY <1>1, <3>1, <3>3 DEF Holds
    <3> QED
      BY <2>4, <2>5, <2>6, <3>1, <3>3, <3>4
  <2>10. i \in 1 .. n - 1
    BY <1>1, <2>9
  <2> QED
    BY <1>4, <2>5, <2>6, <2>7, <2>9, <2>10
<1>5. Between(ranges) \subseteq Holes(filled)
  <2> SUFFICES ASSUME NEW hole \in Between(ranges) PROVE hole \in Holes(filled)
    OBVIOUS
  <2>1. PICK i \in 1 .. n - 1 : /\ ranges[i].timeline = ranges[i + 1].timeline
                                /\ ranges[i].end + 1 < ranges[i + 1].start
                                /\ hole = Hole(i)
    BY Zenon DEF Between, n
  <2> QED
    BY <1>3, <2>1
<1>6. Holes(filled) \subseteq Between(ranges)
  <2> SUFFICES ASSUME NEW hole \in Holes(filled) PROVE hole \in Between(ranges)
    OBVIOUS
  <2>1. PICK s \in filled \X filled :
          /\ s[1].timeline = s[2].timeline
          /\ s[1].at + 1 < s[2].at
          /\ ~\E r \in filled : /\ r.timeline = s[1].timeline
                                /\ s[1].at < r.at /\ r.at < s[2].at
          /\ hole = [timeline |-> s[1].timeline, start |-> s[1].at + 1, end |-> s[2].at - 1]
    BY Zenon DEF Holes
  <2>2. s[1] \in filled /\ s[2] \in filled
    OBVIOUS
  <2>3. \E i \in 1 .. n - 1 : /\ ranges[i].timeline = ranges[i + 1].timeline
                              /\ ranges[i].end + 1 < ranges[i + 1].start
                              /\ Hole(i) = hole
    BY <1>4, <2>1, <2>2
  <2> QED
    BY <2>3, Zenon DEF Between, n
<1> QED
  BY <1>5, <1>6 DEF filled

(* What is listed and what the raw ranges stand for, when nothing was      *)
(* dropped.                                                                *)
LEMMA FilledPositions ==
  ASSUME NEW segments \in Nat, NEW raws \in Seq(RawRange), NEW listing \in SUBSET DOMAIN Objects,
         NothingInvented(raws, listing), NothingLost(raws, listing),
         \A j \in 1 .. Len(raws) : Fits(raws[j], segments), NEW q
  PROVE  q \in Filled(listing, segments)
           <=> q \in Position /\ \E j \in 1 .. Len(raws) : Fills(raws[j], segments, q.timeline, q.at)
<1>1. \A j \in 1 .. Len(raws) : /\ raws[j].timeline \in Nat /\ raws[j].log \in Nat
                                /\ raws[j].start \in Nat /\ raws[j].end \in Nat
  <2> TAKE j \in 1 .. Len(raws)
  <2>1. raws[j] \in RawRange
    OBVIOUS
  <2> QED
    BY <2>1 DEF RawRange
<1>2. ASSUME q \in Filled(listing, segments)
      PROVE  q \in Position /\ \E j \in 1 .. Len(raws) : Fills(raws[j], segments, q.timeline, q.at)
  <2>1. PICK k \in listing :
          /\ IsSegment(Objects[k]) /\ Objects[k].segment < segments
          /\ q = [timeline |-> Objects[k].timeline,
                  at       |-> WALPosition(Objects[k].log, Objects[k].segment, segments)]
    BY <1>2, Zenon DEF Filled
  <2>2. Objects[k].timeline \in Nat /\ Objects[k].log \in Nat /\ Objects[k].segment \in Nat
    BY ObjectFacts
  <2>3. /\ q \in Position /\ q.timeline = Objects[k].timeline
        /\ q.at = WALPosition(Objects[k].log, Objects[k].segment, segments)
    BY <2>1, <2>2, PositionType DEF Position
  <2>4. PICK j \in 1 .. Len(raws) : LiesIn(Objects[k], raws[j])
    BY <2>1 DEF NothingLost
  <2>5. /\ raws[j].timeline = Objects[k].timeline /\ raws[j].log = Objects[k].log
        /\ raws[j].start <= Objects[k].segment /\ Objects[k].segment <= raws[j].end
    BY <2>4 DEF LiesIn, SameLog
  <2>6. /\ WALPosition(raws[j].log, raws[j].start, segments) <= q.at
        /\ q.at <= WALPosition(raws[j].log, raws[j].end, segments)
    <3>1. /\ WALPosition(raws[j].log, raws[j].start, segments)
               <= WALPosition(raws[j].log, Objects[k].segment, segments)
          /\ WALPosition(raws[j].log, Objects[k].segment, segments)
               <= WALPosition(raws[j].log, raws[j].end, segments)
      BY <1>1, <2>2, <2>5, PositionType
    <3> QED
      BY <2>3, <2>5, <3>1
  <2>7. Fills(raws[j], segments, q.timeline, q.at)
    BY <2>3, <2>5, <2>6 DEF Fills
  <2> QED
    BY <2>3, <2>7
<1>3. ASSUME q \in Position, NEW j \in 1 .. Len(raws), Fills(raws[j], segments, q.timeline, q.at)
      PROVE  q \in Filled(listing, segments)
  <2> DEFINE base == raws[j].log * segments
             s == q.at - base
  <2>1. base \in Nat /\ q.at \in Nat /\ q.timeline \in Nat
    BY <1>1, <1>3 DEF Position
  <2>2. /\ base + raws[j].start <= q.at /\ q.at <= base + raws[j].end
        /\ raws[j].timeline = q.timeline
    BY <1>3 DEF Fills, WALPosition
  <2> HIDE DEF base
  <2>3. s \in raws[j].start .. raws[j].end /\ q.at = base + s
    BY <1>1, <2>1, <2>2, SMTT(30)
  <2> HIDE DEF s
  <2>4. PICK k \in listing : /\ IsSegment(Objects[k]) /\ SameLog(raws[j], Objects[k])
                             /\ Objects[k].segment = s
    BY <2>3 DEF NothingInvented
  <2>5. s < segments
    BY <1>1, <2>3 DEF Fits
  <2>6. q.at = WALPosition(Objects[k].log, Objects[k].segment, segments)
    BY <2>3, <2>4 DEF WALPosition, base, SameLog
  <2>7. q = [timeline |-> Objects[k].timeline,
             at       |-> WALPosition(Objects[k].log, Objects[k].segment, segments)]
    BY <1>3, <2>2, <2>4, <2>6 DEF Position, SameLog
  <2> QED
    BY <2>4, <2>5, <2>7, Zenon DEF Filled
<1> QED
  BY <1>2, <1>3

(* The ranges of a catalog cover what was listed.                          *)
LEMMA CoversListing ==
  ASSUME NEW segments \in Nat, NEW b \in Builder, NEW listing \in SUBSET DOMAIN Objects,
         Collected(b, listing), ~Uncertain(b, PlaceAll(b.ranges, segments))
  PROVE  Covered(PlaceAll(b.ranges, segments).ranges) = Filled(listing, segments)
<1> DEFINE raws == b.ranges
           placed == PlaceAll(raws, segments)
<1>1. /\ raws \in Seq(RawRange) /\ RawsInOrder(raws)
      /\ NothingInvented(raws, listing) /\ NothingLost(raws, listing)
  BY DEF Builder, Collected, Uncertain
<1>2. PlacedUpTo(placed, raws, segments, Len(raws))
  BY <1>1, AllPlaced
<1>3. ~placed.invalid
  BY DEF Uncertain
<1> HIDE DEF placed, raws
<1>4. placed.ranges \in Seq(WALRange) /\ placed.invalid = FALSE
  BY <1>2, <1>3, Zenon DEF PlacedUpTo, Placement
<1>5. \A j \in 1 .. Len(raws) : Fits(raws[j], segments)
  BY <1>2, <1>4, Zenon DEF PlacedUpTo
<1>6. ASSUME NEW q PROVE q \in Covered(placed.ranges) <=> q \in Filled(listing, segments)
  <2>1. q \in Covered(placed.ranges)
          <=> q \in Position /\ \E i \in 1 .. Len(placed.ranges) : Holds(placed.ranges[i], q.timeline, q.at)
    BY <1>4, CoveredPositions
  <2>2. q \in Filled(listing, segments)
          <=> q \in Position /\ \E j \in 1 .. Len(raws) : Fills(raws[j], segments, q.timeline, q.at)
    BY <1>1, <1>5, FilledPositions
  <2>3. ASSUME q \in Position
        PROVE  (\E i \in 1 .. Len(placed.ranges) : Holds(placed.ranges[i], q.timeline, q.at))
                 <=> \E j \in 1 .. Len(raws) : Fills(raws[j], segments, q.timeline, q.at)
    <3>1. q.timeline \in Nat /\ q.at \in Nat
      BY <2>3 DEF Position
    <3> QED
      BY <1>2, <3>1, Zenon DEF PlacedUpTo
  <2> QED
    BY <2>1, <2>2, <2>3, Zenon
<1>7. Covered(placed.ranges) = Filled(listing, segments)
  BY <1>6, Zenon
<1> QED
  BY <1>7 DEF placed, raws

-----------------------------------------------------------------------------
(* Gaps *)

GapsAreDated(gaps, last) ==
  \A gap \in gaps : gap \in WALGap /\ ValidGap(gap) /\ gap.last <= last

Hole == [timeline : Nat, start : Nat, end : Nat]

(* A hole, as gapsForRanges reports it. *)
Reported(hole, previous, time) ==
  LET prior == {gap \in previous : HoleOf(gap) = hole}
  IN  [timeline |-> hole.timeline,
       start    |-> hole.start,
       end      |-> hole.end,
       status   |-> IF prior = {} THEN Candidate ELSE Confirmed,
       first    |-> IF prior = {} THEN time ELSE (CHOOSE gap \in prior : TRUE).first,
       last     |-> time]

(* A reported hole is a valid gap of this scan, confirmed exactly when the *)
(* previous catalog had it.                                                *)
LEMMA ReportedGap ==
  ASSUME NEW hole \in Hole, hole.timeline # 0, hole.start <= hole.end,
         NEW previous, NEW before \in Nat, GapsAreDated(previous, before),
         NEW time \in Nat, before < time
  PROVE  LET gap == Reported(hole, previous, time)
         IN  /\ gap \in WALGap /\ ValidGap(gap) /\ gap.last <= time
             /\ HoleOf(gap) = hole
             /\ gap.status \in {Candidate, Confirmed}
             /\ gap.status = Confirmed <=> hole \in {HoleOf(g) : g \in previous}
<1> DEFINE prior == {g \in previous : HoleOf(g) = hole}
           first == IF prior = {} THEN time ELSE (CHOOSE g \in prior : TRUE).first
           status == IF prior = {} THEN Candidate ELSE Confirmed
           gap == Reported(hole, previous, time)
<1>1. /\ first \in Nat /\ first # 0 /\ first <= time
      /\ first = time <=> prior = {}
  <2>1. CASE prior = {}
    BY <2>1
  <2>2. CASE prior # {}
    <3> DEFINE g == CHOOSE x \in prior : TRUE
    <3>1. g \in previous
      BY <2>2
    <3>2. first = g.first
      BY <2>2
    <3> HIDE DEF g, first, prior
    <3>3. g \in WALGap /\ ValidGap(g) /\ g.last <= before
      BY <3>1 DEF GapsAreDated
    <3>4. g.first \in Nat /\ g.last \in Nat /\ g.first # 0 /\ g.first <= g.last
      BY <3>3 DEF WALGap, ValidGap
    <3> QED
      BY <2>2, <3>2, <3>3, <3>4
  <2> QED
    BY <2>1, <2>2
<1>2. /\ status \in {Candidate, Confirmed}
      /\ status = Candidate <=> prior = {}
      /\ status = Confirmed <=> prior # {}
  BY DEF Candidate, Confirmed
<1>3. prior # {} <=> hole \in {HoleOf(g) : g \in previous}
  OBVIOUS
<1>4. gap = [timeline |-> hole.timeline, start |-> hole.start, end |-> hole.end,
             status |-> status, first |-> first, last |-> time]
  BY Zenon DEF Reported
<1> HIDE DEF gap, prior, first, status
<1>5. /\ gap.timeline = hole.timeline /\ gap.start = hole.start /\ gap.end = hole.end
      /\ gap.status = status /\ gap.first = first /\ gap.last = time
  BY <1>4
<1>6. gap \in WALGap
  BY <1>1, <1>2, <1>4 DEF WALGap, Hole
<1>7. HoleOf(gap) = hole
  BY <1>5 DEF HoleOf, Hole
<1>8. ValidGap(gap)
  BY <1>1, <1>2, <1>5, Zenon DEF ValidGap
<1>9. gap.last <= time
  BY <1>5
<1> QED
  BY <1>2, <1>3, <1>5, <1>6, <1>7, <1>8, <1>9 DEF gap

(* What lies between two neighbouring ranges is a hole of a real timeline, *)
(* not an empty one.                                                       *)
LEMMA HolesBetween ==
  ASSUME NEW ranges \in Seq(WALRange), RangesInOrder(ranges), NEW hole \in Between(ranges)
  PROVE  hole \in Hole /\ hole.timeline # 0 /\ hole.start <= hole.end
<1>1. PICK i \in 1 .. Len(ranges) - 1 :
        /\ ranges[i].end + 1 < ranges[i + 1].start
        /\ hole = [timeline |-> ranges[i].timeline,
                   start    |-> ranges[i].end + 1,
                   end      |-> ranges[i + 1].start - 1]
  BY Zenon DEF Between
<1>2. i \in 1 .. Len(ranges) /\ i + 1 \in 1 .. Len(ranges)
  OBVIOUS
<1>3. ranges[i] \in WALRange /\ ranges[i + 1] \in WALRange /\ ranges[i].timeline # 0
  BY <1>2 DEF RangesInOrder
<1>4. /\ ranges[i].timeline \in Nat /\ ranges[i].end \in Nat /\ ranges[i + 1].start \in Nat
  BY <1>3 DEF WALRange
<1> QED
  BY <1>1, <1>3, <1>4 DEF Hole

(* gapsForRanges: the gaps are the holes, and those the previous catalog   *)
(* had are confirmed.                                                      *)
LEMMA GapsOfRanges ==
  ASSUME NEW ranges \in Seq(WALRange), RangesInOrder(ranges),
         NEW previous, NEW before \in Nat, GapsAreDated(previous, before),
         NEW time \in Nat, before < time
  PROVE  LET gaps == gapsForRanges(ranges, previous, time)
         IN  /\ GapsAreDated(gaps, time)
             /\ {HoleOf(gap) : gap \in gaps} = Between(ranges)
             /\ \A gap \in gaps :
                  /\ gap.status \in {Candidate, Confirmed}
                  /\ gap.status = Confirmed <=> HoleOf(gap) \in {HoleOf(g) : g \in previous}
<1> DEFINE gaps == gapsForRanges(ranges, previous, time)
<1>1. gaps = {Reported(hole, previous, time) : hole \in Between(ranges)}
  BY Zenon DEF gapsForRanges, Reported
<1>2. \A hole \in Between(ranges) :
        /\ Reported(hole, previous, time) \in WALGap
        /\ ValidGap(Reported(hole, previous, time))
        /\ Reported(hole, previous, time).last <= time
        /\ HoleOf(Reported(hole, previous, time)) = hole
        /\ Reported(hole, previous, time).status \in {Candidate, Confirmed}
        /\ Reported(hole, previous, time).status = Confirmed <=> hole \in {HoleOf(g) : g \in previous}
  BY HolesBetween, ReportedGap
<1> HIDE DEF gaps
<1>3. GapsAreDated(gaps, time)
  BY <1>1, <1>2, Zenon DEF GapsAreDated
<1>4. {HoleOf(gap) : gap \in gaps} = Between(ranges)
  BY <1>1, <1>2
<1>5. \A gap \in gaps :
        /\ gap.status \in {Candidate, Confirmed}
        /\ gap.status = Confirmed <=> HoleOf(gap) \in {HoleOf(g) : g \in previous}
  BY <1>1, <1>2, Zenon
<1> QED
  BY <1>3, <1>4, <1>5 DEF gaps

Catalog ==
  [generation : Nat, segments : SegmentsPerLog \cup {NoContext}, state : State,
   ranges : Seq(WALRange), gaps : SUBSET WALGap,
   duplicates : Nat, unknown : Nat, diagnostics : Nat, unprintable : BOOLEAN,
   diagnosticsTruncated : BOOLEAN, rangesTruncated : BOOLEAN]

(* The verdict is unknown exactly when the collector or the placing is     *)
(* uncertain, and otherwise healthy exactly when there is no gap.          *)
LEMMA VerdictFacts ==
  ASSUME NEW b, NEW placed, NEW gaps
  PROVE  /\ Verdict(b, placed, gaps) \in State
         /\ Uncertain(b, placed) <=> Verdict(b, placed, gaps) = Unknown
         /\ ~Uncertain(b, placed) /\ (\A gap \in gaps : gap.status \in {Candidate, Confirmed}) =>
              (Verdict(b, placed, gaps) = Healthy <=> gaps = {})
BY DEF Verdict, State, Healthy, Warning, Unhealthy, Unknown, hasGapStatus

(* The catalog of a scan whose segment size is not known.                  *)
LEMMA UninterpretedFacts ==
  ASSUME NEW b \in Builder, NEW time \in Nat
  PROVE  LET c == Uninterpreted(b, time)
         IN  /\ c \in Catalog
             /\ c.generation = time /\ c.state = Unknown /\ c.ranges = <<>> /\ c.gaps = {}
             /\ c.diagnostics \in 0 .. MaxDiagnostics
             /\ c.duplicates = b.duplicates /\ c.unknown = b.unknown
             /\ c.unprintable = b.unprintable
             /\ c.diagnosticsTruncated = b.diagnosticsTruncated
             /\ c.rangesTruncated = b.rangesTruncated
<1>1. /\ b.duplicates \in Nat /\ b.unknown \in Nat /\ b.diagnostics \in 0 .. MaxDiagnostics
      /\ MaxDiagnostics \in Nat
  BY LimitsAssumption DEF Builder
<1>2. /\ b.diagnosticsTruncated \in BOOLEAN /\ b.rangesTruncated \in BOOLEAN
      /\ b.unprintable \in BOOLEAN
  BY Zenon DEF Builder
<1>3. b.diagnostics \in Nat
  BY <1>1
<1>4. <<>> \in Seq(WALRange) /\ Unknown \in State
  BY DEF State
<1>5. Uninterpreted(b, time) \in Catalog
  BY <1>1, <1>2, <1>3, <1>4, Zenon DEF Uninterpreted, Catalog
<1>6. LET c == Uninterpreted(b, time)
      IN  /\ c.generation = time /\ c.state = Unknown /\ c.ranges = <<>> /\ c.gaps = {}
          /\ c.diagnostics = b.diagnostics
          /\ c.duplicates = b.duplicates /\ c.unknown = b.unknown
          /\ c.unprintable = b.unprintable
          /\ c.diagnosticsTruncated = b.diagnosticsTruncated
          /\ c.rangesTruncated = b.rangesTruncated
  BY Zenon DEF Uninterpreted
<1> QED
  BY <1>1, <1>5, <1>6, Zenon

(* The catalog of a scan under a segment size.                             *)
LEMMA InterpretedFacts ==
  ASSUME NEW b \in Builder, NEW segments \in SegmentsPerLog, NEW previous, NEW time \in Nat,
         PlaceAll(b.ranges, segments).ranges \in Seq(WALRange),
         gapsForRanges(PlaceAll(b.ranges, segments).ranges, previous.gaps, time) \in SUBSET WALGap
  PROVE  LET c      == Interpreted(b, segments, previous, time)
             placed == PlaceAll(b.ranges, segments)
             gaps   == gapsForRanges(placed.ranges, previous.gaps, time)
         IN  /\ c \in Catalog
             /\ c.generation = time /\ c.segments = segments
             /\ c.ranges = placed.ranges /\ c.gaps = gaps
             /\ c.state = Verdict(b, placed, gaps)
             /\ c.diagnostics \in 0 .. MaxDiagnostics
             /\ c.duplicates = b.duplicates /\ c.unknown = b.unknown
             /\ c.unprintable = b.unprintable
             /\ c.diagnosticsTruncated = b.diagnosticsTruncated
             /\ c.rangesTruncated = b.rangesTruncated
<1> DEFINE placed == PlaceAll(b.ranges, segments)
           ranges == placed.ranges
           gaps == gapsForRanges(ranges, previous.gaps, time)
           state == Verdict(b, placed, gaps)
           u == Uninterpreted(b, time)
           c == [u EXCEPT !.segments = segments, !.ranges = ranges, !.gaps = gaps, !.state = state]
<1>1. Interpreted(b, segments, previous, time) = c
  BY Zenon DEF Interpreted
<1>2. state \in State
  BY VerdictFacts, Zenon
<1>3. /\ u \in Catalog
      /\ u.generation = time
      /\ u.diagnostics \in 0 .. MaxDiagnostics
      /\ u.duplicates = b.duplicates /\ u.unknown = b.unknown
      /\ u.unprintable = b.unprintable
      /\ u.diagnosticsTruncated = b.diagnosticsTruncated
      /\ u.rangesTruncated = b.rangesTruncated
  BY UninterpretedFacts, Zenon
<1>4. ranges \in Seq(WALRange) /\ gaps \in SUBSET WALGap
  OBVIOUS
<1> HIDE DEF u, state, gaps, ranges
<1>5. /\ c \in Catalog
      /\ c.generation = u.generation /\ c.segments = segments /\ c.ranges = ranges /\ c.gaps = gaps
      /\ c.state = state /\ c.diagnostics = u.diagnostics
      /\ c.duplicates = u.duplicates /\ c.unknown = u.unknown
      /\ c.unprintable = u.unprintable
      /\ c.diagnosticsTruncated = u.diagnosticsTruncated
      /\ c.rangesTruncated = u.rangesTruncated
  BY <1>2, <1>3, <1>4, Zenon DEF Catalog
<1> HIDE DEF c
<1>6. /\ c \in Catalog
      /\ c.generation = time /\ c.segments = segments /\ c.ranges = ranges /\ c.gaps = gaps
      /\ c.state = state /\ c.diagnostics \in 0 .. MaxDiagnostics
      /\ c.duplicates = b.duplicates /\ c.unknown = b.unknown
      /\ c.unprintable = b.unprintable
      /\ c.diagnosticsTruncated = b.diagnosticsTruncated
      /\ c.rangesTruncated = b.rangesTruncated
  BY <1>3, <1>5, Zenon
<1> QED
  BY <1>1, <1>6, Zenon DEF state, gaps, ranges

(* What the catalog says of the listing it was built from.                 *)
ExactFor(c, listing) ==
  c.state # Unknown =>
    LET filled == Filled(listing, c.segments)
    IN  /\ Covered(c.ranges) = filled
        /\ {HoleOf(gap) : gap \in c.gaps} = Holes(filled)
        /\ c.state = Healthy <=> Holes(filled) = {}

(* The ranges of a catalog are apart, in order, and its gaps are what lies *)
(* between them, whether or not the catalog has a verdict.                 *)
GapsBetweenRanges(c) ==
  /\ RangesInOrder(c.ranges)
  /\ {HoleOf(gap) : gap \in c.gaps} = Between(c.ranges)

(* So it is when there are no ranges.                                     *)
LEMMA NothingBetween ==
  ASSUME NEW c, c.ranges = <<>>, c.gaps = {}
  PROVE  GapsBetweenRanges(c)
<1>1. RangesInOrder(<<>>)
  BY DEF RangesInOrder
<1>2. Between(<<>>) = {}
  <2>1. 1 .. Len(<<>>) - 1 = {}
    OBVIOUS
  <2> QED
    BY <2>1, Zenon DEF Between
<1>3. {HoleOf(gap) : gap \in c.gaps} = {}
  OBVIOUS
<1> QED
  BY <1>1, <1>2, <1>3, Zenon DEF GapsBetweenRanges

(* What Finish makes of a listing and of the gaps known before.  It is     *)
(* refused for nothing but a key with a control character.                 *)
Built(c, listing, previous, time) ==
  /\ c \in Catalog
  /\ c.generation = time
  /\ Validate(c) <=> ~c.unprintable
  /\ KeysKept(c, listing)
  /\ GapsAreDated(c.gaps, time)
  /\ ExactFor(c, listing)
  /\ GapsBetweenRanges(c)
  /\ \A gap \in c.gaps : gap.status = Confirmed <=> HoleOf(gap) \in {HoleOf(g) : g \in previous}

(* Ranges in order and within the limit are what Validate accepts.         *)
LEMMA OrderedIsValid ==
  ASSUME NEW ranges \in Seq(WALRange), RangesInOrder(ranges), Len(ranges) <= MaxRanges
  PROVE  ValidRanges(ranges)
<1>1. \A i \in 1 .. Len(ranges) : ranges[i].timeline # 0 /\ ranges[i].start <= ranges[i].end
  BY DEF RangesInOrder
<1>2. ASSUME NEW i \in 1 .. Len(ranges) - 1
      PROVE  /\ ranges[i].timeline <= ranges[i + 1].timeline
             /\ ranges[i].timeline = ranges[i + 1].timeline => ranges[i].end < ranges[i + 1].start
  <2>1. i \in 1 .. Len(ranges) /\ i + 1 \in 1 .. Len(ranges) /\ i < i + 1
    OBVIOUS
  <2>2. LiesBefore(ranges[i], ranges[i + 1]) /\ ranges[i] \in WALRange /\ ranges[i + 1] \in WALRange
    BY <2>1 DEF RangesInOrder
  <2>3. /\ ranges[i].timeline \in Nat /\ ranges[i].end \in Nat
        /\ ranges[i + 1].timeline \in Nat /\ ranges[i + 1].start \in Nat
    BY <2>2 DEF WALRange
  <2> QED
    BY <2>2, <2>3 DEF LiesBefore
<1> QED
  BY <1>1, <1>2 DEF ValidRanges

(* A catalog without a segment size is valid and claims nothing.           *)
LEMMA WithoutContext ==
  ASSUME NEW b, NEW listing \in SUBSET DOMAIN Objects, Collected(b, listing),
         NEW previous, NEW time \in Nat
  PROVE  Built(Uninterpreted(b, time), listing, previous, time)
<1> DEFINE c == Uninterpreted(b, time)
<1>1. /\ c \in Catalog
      /\ c.generation = time /\ c.state = Unknown /\ c.ranges = <<>> /\ c.gaps = {}
      /\ c.diagnostics \in 0 .. MaxDiagnostics
      /\ c.unprintable = b.unprintable
      /\ c.diagnosticsTruncated = b.diagnosticsTruncated
  BY UninterpretedFacts, Zenon DEF Collected
<1> HIDE DEF c
<1>2. c.diagnostics <= MaxDiagnostics
  BY <1>1
<1>3. ValidRanges(<<>>)
  <2>1. <<>> \in Seq(WALRange) /\ RangesInOrder(<<>>) /\ Len(<<>>) <= MaxRanges
    BY LimitsAssumption DEF RangesInOrder
  <2> QED
    BY <2>1, OrderedIsValid
<1>4. Validate(c) <=> ~c.unprintable
  BY <1>1, <1>2, <1>3, Zenon DEF Validate
<1>5. KeysKept(c, listing)
  BY <1>1, Zenon DEF Collected, KeysKept
<1> QED
  BY <1>1, <1>4, <1>5, NothingBetween, Zenon DEF Built, GapsAreDated, ExactFor, c

(* A catalog under a segment size is valid and exact for the listing.      *)
LEMMA WithContext ==
  ASSUME NEW b, NEW listing \in SUBSET DOMAIN Objects, Collected(b, listing),
         NEW segments \in SegmentsPerLog,
         NEW previous, NEW before \in Nat, GapsAreDated(previous.gaps, before),
         NEW time \in Nat, before < time
  PROVE  Built(Interpreted(b, segments, previous, time), listing, previous.gaps, time)
<1> DEFINE placed == PlaceAll(b.ranges, segments)
           ranges == placed.ranges
           gaps == gapsForRanges(ranges, previous.gaps, time)
           c == Interpreted(b, segments, previous, time)
<1>1. /\ b \in Builder /\ b.ranges \in Seq(RawRange) /\ RawsInOrder(b.ranges)
      /\ segments \in Nat /\ segments # NoContext
  BY SegmentsAreNumbers, ContextAssumption DEF Builder, Collected
<1>2. PlacedUpTo(placed, b.ranges, segments, Len(b.ranges))
  BY <1>1, AllPlaced
<1>3. /\ ranges \in Seq(WALRange) /\ RangesInOrder(ranges) /\ Len(ranges) <= Len(b.ranges)
  BY <1>2 DEF PlacedUpTo, Placement
<1>4. Len(ranges) <= MaxRanges
  <2>1. Len(b.ranges) <= MaxRanges /\ Len(b.ranges) \in Nat /\ Len(ranges) \in Nat /\ MaxRanges \in Nat
    BY <1>1, <1>3, LimitsAssumption DEF RawsInOrder
  <2> HIDE DEF ranges
  <2> QED
    BY <1>3, <2>1
<1>5. /\ GapsAreDated(gaps, time)
      /\ {HoleOf(gap) : gap \in gaps} = Between(ranges)
      /\ \A gap \in gaps :
           /\ gap.status \in {Candidate, Confirmed}
           /\ gap.status = Confirmed <=> HoleOf(gap) \in {HoleOf(g) : g \in previous.gaps}
  <2> HIDE DEF ranges
  <2> QED
    BY <1>3, GapsOfRanges
<1>6. gaps \in SUBSET WALGap
  BY <1>5 DEF GapsAreDated
<1>7. /\ c \in Catalog
      /\ c.generation = time /\ c.segments = segments
      /\ c.ranges = ranges /\ c.gaps = gaps
      /\ c.state = Verdict(b, placed, gaps)
      /\ c.diagnostics \in 0 .. MaxDiagnostics
      /\ c.duplicates = b.duplicates /\ c.unknown = b.unknown
      /\ c.unprintable = b.unprintable
      /\ c.diagnosticsTruncated = b.diagnosticsTruncated
      /\ c.rangesTruncated = b.rangesTruncated
  BY <1>1, <1>3, <1>6, InterpretedFacts
<1>8. c.diagnostics <= MaxDiagnostics
  BY <1>7
<1>9. ValidRanges(ranges)
  BY <1>3, <1>4, OrderedIsValid
<1>10. /\ Uncertain(b, placed) <=> c.state = Unknown
       /\ ~Uncertain(b, placed) => (c.state = Healthy <=> gaps = {})
  BY <1>5, <1>7, VerdictFacts, Zenon
<1>11. ~Uncertain(b, placed) => Covered(ranges) = Filled(listing, segments)
  BY <1>1, CoversListing
<1>12. Between(ranges) = Holes(Covered(ranges))
  BY <1>3, HolesAreBetween
<1> HIDE DEF placed, ranges, gaps, c
<1>13. Validate(c) <=> ~c.unprintable
  <2>1. c.rangesTruncated \/ c.diagnosticsTruncated \/ c.duplicates > 0 \/ c.unknown > 0
          => c.state = Unknown
    BY <1>7, <1>10, Zenon DEF Uncertain
  <2>2. \A gap \in c.gaps : ValidGap(gap)
    BY <1>5, <1>7, Zenon DEF GapsAreDated
  <2> QED
    BY <1>1, <1>7, <1>8, <1>9, <2>1, <2>2, Zenon DEF Validate
<1>14. ExactFor(c, listing)
  <2> SUFFICES ASSUME c.state # Unknown
               PROVE  /\ Covered(ranges) = Filled(listing, segments)
                      /\ {HoleOf(gap) : gap \in gaps} = Holes(Filled(listing, segments))
                      /\ c.state = Healthy <=> Holes(Filled(listing, segments)) = {}
    BY <1>7, Zenon DEF ExactFor
  <2>1. Covered(ranges) = Filled(listing, segments)
    BY <1>10, <1>11, Zenon
  <2>2. {HoleOf(gap) : gap \in gaps} = Holes(Filled(listing, segments))
    BY <1>5, <1>12, <2>1, Zenon
  <2>3. {HoleOf(gap) : gap \in gaps} = {} <=> gaps = {}
    OBVIOUS
  <2> QED
    BY <1>10, <2>1, <2>2, <2>3, Zenon
<1>15. GapsBetweenRanges(c)
  BY <1>3, <1>5, <1>7, Zenon DEF GapsBetweenRanges
<1>16. KeysKept(c, listing)
  BY <1>7, Zenon DEF Collected, KeysKept
<1> QED
  BY <1>5, <1>7, <1>13, <1>14, <1>15, <1>16, Zenon DEF Built, c

(* Finish. *)
LEMMA FinishFacts ==
  ASSUME NEW b, NEW listing \in SUBSET DOMAIN Objects, Collected(b, listing),
         NEW context \in SegmentsPerLog \cup {NoContext},
         NEW previous, NEW before \in Nat, GapsAreDated(previous.gaps, before),
         NEW time \in Nat, before < time
  PROVE  Built(Finish(b, context, previous, time), listing, previous.gaps, time)
<1>1. CASE context = NoContext
  BY <1>1, WithoutContext, Zenon DEF Finish
<1>2. CASE context # NoContext
  <2>1. context \in SegmentsPerLog
    BY <1>2
  <2> QED
    BY <1>2, <2>1, WithContext, Zenon DEF Finish
<1> QED
  BY <1>1, <1>2

-----------------------------------------------------------------------------
(* The scans *)

(* The segment size is one that is allowed, or none.                       *)
LEMMA ContextFacts ==
  ASSUME NEW backups \in SUBSET Metadata
  PROVE  Context(backups) \in SegmentsPerLog \cup {NoContext}
<1> DEFINE telling == {b \in backups : b.version # 0 /\ b.segments # 0}
           agreed == CHOOSE b \in telling : TRUE
<1>1. telling # {} => agreed \in telling
  OBVIOUS
<1>2. \/ Context(backups) = NoContext
      \/ /\ telling # {}
         /\ \A b \in telling : ValidWALSegmentSize(b.segments)
         /\ Context(backups) = agreed.segments
  BY Zenon DEF Context
<1> HIDE DEF telling, agreed
<1> QED
  BY <1>1, <1>2 DEF ValidWALSegmentSize

ScanTypeOK ==
  /\ pc \in {"idle", "listing"}
  /\ generation \in Nat
  /\ listed \in SUBSET DOMAIN Objects
  /\ seen \in SUBSET DOMAIN Objects
  /\ catalog \in Catalog

(* The catalog is older than the scan that runs. *)
CatalogIsOlder ==
  /\ catalog.generation <= generation
  /\ pc = "listing" => catalog.generation < generation

Honest(c, listing) ==
  /\ GapsAreDated(c.gaps, c.generation)
  /\ ExactFor(c, listing)
  /\ GapsBetweenRanges(c)

WALInv ==
  /\ ScanTypeOK
  /\ CatalogIsOlder
  /\ Collected(builder, listed)
  /\ Honest(catalog, seen)

(* A new collector stands for an empty listing.                            *)
LEMMA NothingCollected == Collected(NewBuilder, {})
<1>1. MaxDiagnostics \in Nat /\ MaxRanges \in Nat
  BY LimitsAssumption
<1>2. 0 \in 0 .. MaxDiagnostics /\ <<>> \in Seq(RawRange)
  BY <1>1
<1>3. NewBuilder \in Builder
  BY <1>2, Zenon DEF NewBuilder, Builder
<1>4. NewBuilder.ranges = <<>>
  BY DEF NewBuilder
<1>5. RawsInOrder(<<>>)
  BY <1>1 DEF RawsInOrder
<1>6. NothingInvented(<<>>, {}) /\ NothingLost(<<>>, {}) /\ KeysKept(NewBuilder, {})
  BY DEF NothingInvented, NothingLost, KeysKept, NewBuilder
<1> QED
  BY <1>3, <1>4, <1>5, <1>6, Zenon DEF Collected

(* The catalog of a new process claims nothing.                            *)
LEMMA NoCatalogFacts ==
  /\ NoCatalog \in Catalog
  /\ NoCatalog.generation = 0
  /\ NoCatalog.state = Unknown
  /\ NoCatalog.gaps = {}
  /\ Honest(NoCatalog, {})
<1>1. /\ NoCatalog.generation = 0 /\ NoCatalog.state = Unknown /\ NoCatalog.ranges = <<>>
      /\ NoCatalog.gaps = {} /\ NoCatalog.diagnostics = 0
  BY Zenon DEF NoCatalog
<1>2. <<>> \in Seq(WALRange) /\ Unknown \in State /\ 0 \in Nat
  BY DEF State
<1>3. NoCatalog \in Catalog
  BY <1>2, Zenon DEF NoCatalog, Catalog
<1> QED
  BY <1>1, <1>3, NothingBetween, Zenon DEF Honest, GapsAreDated, ExactFor

(* The scans start in the invariant.                                       *)
LEMMA StartScans ==
  ASSUME pc = "idle", generation = 0, builder = NewBuilder, listed = {}, catalog = NoCatalog, seen = {}
  PROVE  WALInv
<1>1. ScanTypeOK
  BY NoCatalogFacts DEF ScanTypeOK
<1>2. CatalogIsOlder
  BY NoCatalogFacts DEF CatalogIsOlder
<1> QED
  BY <1>1, <1>2, NoCatalogFacts, NothingCollected, Zenon DEF WALInv

(* What the running scan builds is exact and dated by the scan (Finish).   *)
LEMMA ScanBuilds ==
  ASSUME WALInv, pc = "listing", NEW context \in Contexts
  PROVE  Built(NewCatalog(context), listed, catalog.gaps, generation)
<1>1. context \in SegmentsPerLog \cup {NoContext}
  BY ContextFacts DEF Contexts
<1>2. /\ generation \in Nat /\ catalog.generation \in Nat /\ catalog.generation < generation
      /\ listed \in SUBSET DOMAIN Objects
  BY DEF WALInv, ScanTypeOK, CatalogIsOlder, Catalog
<1>3. Collected(builder, listed) /\ GapsAreDated(catalog.gaps, catalog.generation)
  BY DEF WALInv, Honest
<1> QED
  BY <1>1, <1>2, <1>3, FinishFacts, Zenon DEF NewCatalog

(* A complete scan publishes such a catalog and leaves the collector       *)
(* empty.                                                                  *)
LEMMA CompleteStep ==
  ASSUME WALInv, CompleteScan
  PROVE  /\ Built(catalog', listed, catalog.gaps, generation)
         /\ WALInv'
<1>1. PICK context \in Contexts : catalog' = NewCatalog(context)
  BY DEF CompleteScan
<1>3. /\ pc = "listing" /\ pc' = "idle" /\ builder' = NewBuilder /\ listed' = {}
      /\ generation' = generation
      /\ seen' = IF catalog'.state = Unknown THEN {} ELSE listed
  BY DEF CompleteScan
<1>4. generation \in Nat /\ listed \in SUBSET DOMAIN Objects
  BY DEF WALInv, ScanTypeOK
<1>6. Built(catalog', listed, catalog.gaps, generation)
  BY <1>1, <1>3, ScanBuilds, Zenon
<1>7. /\ catalog' \in Catalog /\ catalog'.generation = generation
      /\ GapsAreDated(catalog'.gaps, generation) /\ ExactFor(catalog', listed)
      /\ GapsBetweenRanges(catalog')
  BY <1>6, Zenon DEF Built
<1>8. ScanTypeOK'
  BY <1>3, <1>4, <1>7 DEF ScanTypeOK
<1>9. CatalogIsOlder'
  BY <1>3, <1>4, <1>7 DEF CatalogIsOlder
<1>10. Collected(builder', listed')
  BY <1>3, NothingCollected
<1>11. Collected(builder, listed)' /\ Honest(catalog, seen)'
  BY <1>3, <1>7, <1>10 DEF Honest, ExactFor
<1> QED
  BY <1>6, <1>8, <1>9, <1>11 DEF WALInv

(* Every step keeps the invariant: one case for every action of a scan.    *)
LEMMA WALInvStep == WALInv /\ [Next]_vars => WALInv'
<1> SUFFICES ASSUME WALInv, [Next]_vars PROVE WALInv'
  OBVIOUS
<1>1. CASE BeginScan
  <2>1. /\ pc' = "listing" /\ generation' = generation + 1 /\ builder' = NewBuilder /\ listed' = {}
        /\ catalog' = catalog /\ seen' = seen
    BY <1>1 DEF BeginScan
  <2>2. generation \in Nat /\ catalog.generation \in Nat /\ catalog.generation <= generation
    BY DEF WALInv, ScanTypeOK, CatalogIsOlder, Catalog
  <2>3. ScanTypeOK'
    BY <2>1, <2>2 DEF WALInv, ScanTypeOK
  <2>4. CatalogIsOlder'
    BY <2>1, <2>2 DEF CatalogIsOlder
  <2>5. Collected(builder, listed)'
    BY <2>1, NothingCollected
  <2>6. Honest(catalog, seen)'
    BY <2>1 DEF WALInv
  <2> QED
    BY <2>3, <2>4, <2>5, <2>6 DEF WALInv
<1>2. CASE ListObject
  <2>1. PICK k \in DOMAIN Objects : builder' = Add(builder, Objects[k]) /\ listed' = listed \cup {k}
    BY <1>2 DEF ListObject
  <2>2. pc' = pc /\ generation' = generation /\ catalog' = catalog /\ seen' = seen
    BY <1>2 DEF ListObject
  <2>3. ScanTypeOK'
    BY <2>1, <2>2 DEF WALInv, ScanTypeOK
  <2>4. CatalogIsOlder'
    BY <2>2 DEF WALInv, CatalogIsOlder
  <2>5. Collected(builder', listed')
    BY <2>1, CollectStep, Zenon DEF WALInv, ScanTypeOK
  <2>6. Honest(catalog, seen)'
    BY <2>2 DEF WALInv
  <2> QED
    BY <2>3, <2>4, <2>5, <2>6 DEF WALInv
<1>3. CASE CompleteScan
  BY <1>3, CompleteStep
<1>4. CASE RefuseScan \/ FailScan
  <2>1. /\ pc' = "idle" /\ builder' = NewBuilder /\ listed' = {}
        /\ generation' = generation /\ catalog' = catalog /\ seen' = seen
    BY <1>4 DEF RefuseScan, FailScan, AbandonScan
  <2>2. ScanTypeOK'
    BY <2>1 DEF WALInv, ScanTypeOK
  <2>3. CatalogIsOlder'
    BY <2>1 DEF WALInv, CatalogIsOlder
  <2>4. Collected(builder, listed)'
    BY <2>1, NothingCollected
  <2>5. Honest(catalog, seen)'
    BY <2>1 DEF WALInv
  <2> QED
    BY <2>2, <2>3, <2>4, <2>5 DEF WALInv
<1>5. CASE Restart
  <2>2. /\ pc' = "idle" /\ generation' = 0 /\ builder' = NewBuilder /\ listed' = {}
        /\ catalog' = NoCatalog /\ seen' = {}
    BY <1>5 DEF Restart
  <2>3. ScanTypeOK'
    BY <2>2, NoCatalogFacts DEF ScanTypeOK
  <2>4. CatalogIsOlder'
    BY <2>2, NoCatalogFacts DEF CatalogIsOlder
  <2>5. Collected(builder, listed)'
    BY <2>2, NothingCollected
  <2>6. Honest(catalog, seen)'
    BY <2>2, NoCatalogFacts
  <2> QED
    BY <2>3, <2>4, <2>5, <2>6 DEF WALInv
<1>6. CASE UNCHANGED vars
  BY <1>6 DEF vars, WALInv, ScanTypeOK, CatalogIsOlder
<1> QED
  BY <1>1, <1>2, <1>3, <1>4, <1>5, <1>6 DEF Next

(* The invariant holds throughout.                                         *)
LEMMA WALInvariance == Spec => []WALInv
<1>1. Init => WALInv
  BY StartScans DEF Init
<1> QED
  BY <1>1, WALInvStep, PTL DEF Spec

(* The collector, the listing and the catalog keep their types, whatever   *)
(* is listed (Add, Finish).                                                *)
THEOREM WALTypeCorrect == Spec => []TypeOK
<1>1. WALInv => TypeOK
  <2> SUFFICES ASSUME WALInv PROVE TypeOK
    OBVIOUS
  <2>1. ScanTypeOK /\ builder \in Builder
    BY Zenon DEF WALInv, Collected
  <2> QED
    BY <2>1, Zenon DEF ScanTypeOK, TypeOK, Builder, Catalog
<1> QED
  BY <1>1, WALInvariance, PTL

(* A catalog whose verdict is not unknown says exactly what the scan       *)
(* listed: its ranges cover the listed segments and no other, its gaps are *)
(* the holes between them, and it is healthy exactly when there is none    *)
(* (Finish, gapsForRanges).                                                *)
THEOREM ContinuityExact == Spec => []ContinuityIsExact
<1>1. WALInv => ContinuityIsExact
  BY Zenon DEF WALInv, Honest, ExactFor, ContinuityIsExact
<1> QED
  BY <1>1, WALInvariance, PTL

(* What a scan builds is in order, within the limits and unknown when it   *)
(* is truncated or contradictory, whatever was listed: publication refuses *)
(* it only for a listed key with a control character (addDiagnostic and    *)
(* Validate), and lets such a key pass only past the diagnostic limit.     *)
THEOREM RefusedForKeys == Spec => []RefusedOnlyForKeys
<1>1. WALInv => RefusedOnlyForKeys
  <2> SUFFICES ASSUME WALInv, pc = "listing", NEW context \in Contexts
               PROVE  LET control == {k \in listed : Objects[k].key = "control"}
                          built == NewCatalog(context)
                      IN  /\ ~Validate(built) => control # {}
                          /\ control # {} => ~Validate(built) \/ built.diagnosticsTruncated
    BY Zenon DEF RefusedOnlyForKeys
  <2> DEFINE built == NewCatalog(context)
  <2>1. (Validate(built) <=> ~built.unprintable) /\ KeysKept(built, listed)
    BY ScanBuilds, Zenon DEF Built
  <2> HIDE DEF built
  <2>2. {k \in listed : Objects[k].key = "control"} # {}
          <=> \E k \in listed : Objects[k].key = "control"
    OBVIOUS
  <2> QED
    BY <2>1, <2>2, Zenon DEF KeysKept, built
<1> QED
  BY <1>1, WALInvariance, PTL

(* The WAL catalog as the recovery analysis looks at it. *)
HandedOver ==
  [state |-> catalog.state, gaps |-> catalog.gaps,
   ranges |-> {catalog.ranges[i] : i \in 1 .. Len(catalog.ranges)}]

CatalogIsContinuous == Continuous(HandedOver)

(* Ranges in order, with the gaps between them, are continuous.            *)
LEMMA OrderedIsContinuous ==
  ASSUME NEW c \in Catalog, GapsBetweenRanges(c), NEW wal,
         wal.ranges = {c.ranges[i] : i \in 1 .. Len(c.ranges)}, wal.gaps = c.gaps
  PROVE  Continuous(wal)
<1> DEFINE list == c.ranges
           n == Len(list)
<1>1. /\ list \in Seq(WALRange) /\ n \in Nat
      /\ \A i \in 1 .. n : /\ list[i].timeline \in Nat
                           /\ list[i].start \in Nat /\ list[i].end \in Nat
                           /\ list[i].start <= list[i].end
      /\ \A i, j \in 1 .. n : i < j => LiesBefore(list[i], list[j])
  <2>1. list \in Seq(WALRange)
    BY DEF Catalog
  <2>2. n \in Nat /\ \A i \in 1 .. n : list[i] \in WALRange
    BY <2>1
  <2> HIDE DEF n
  <2>3. RangesInOrder(list)
    BY DEF GapsBetweenRanges
  <2> HIDE DEF list
  <2> QED
    BY <2>1, <2>2, <2>3 DEF RangesInOrder, WALRange, n
<1>2. /\ \A r \in wal.ranges : \E i \in 1 .. n : r = list[i]
      /\ Between(list) = {HoleOf(gap) : gap \in wal.gaps}
  BY DEF GapsBetweenRanges
<1> HIDE DEF list, n
<1>3. ASSUME NEW r \in wal.ranges, NEW s \in wal.ranges
      PROVE  /\ r.start <= r.end
             /\ r.timeline = s.timeline /\ r # s => r.end + 1 < s.start \/ s.end + 1 < r.start
  <2>1. PICK i \in 1 .. n : r = list[i]
    BY <1>2
  <2>2. PICK j \in 1 .. n : s = list[j]
    BY <1>2
  <2>3. r # s => LiesBefore(r, s) \/ LiesBefore(s, r)
    BY <1>1, <2>1, <2>2
  <2>4. r.timeline \in Nat /\ s.timeline \in Nat /\ r.start <= r.end
    BY <1>1, <2>1, <2>2
  <2> QED
    BY <2>3, <2>4 DEF LiesBefore
<1>4. ASSUME NEW r \in wal.ranges, NEW s \in wal.ranges, s.timeline = r.timeline, s.start > r.end
      PROVE  \E gap \in wal.gaps : gap.timeline = r.timeline /\ gap.start = r.end + 1
  <2>1. PICK i \in 1 .. n : r = list[i]
    BY <1>2
  <2>2. PICK j \in 1 .. n : s = list[j]
    BY <1>2
  <2>3. /\ r.timeline \in Nat /\ r.start \in Nat /\ r.end \in Nat /\ r.start <= r.end
        /\ s.timeline \in Nat /\ s.start \in Nat /\ s.end \in Nat /\ s.start <= s.end
    BY <1>1, <2>1, <2>2
  <2>4. i < j
    <3>1. i # j
      BY <1>4, <2>1, <2>2, <2>3
    <3>2. ~(j < i)
      <4>1. ~LiesBefore(s, r)
        <5>1. ~(s.end + 1 < r.start)
          BY <1>4, <2>3
        <5> QED
          BY <1>4, <2>3, <5>1 DEF LiesBefore
      <4> QED
        BY <1>1, <2>1, <2>2, <4>1
    <3> QED
      BY <3>1, <3>2
  <2> DEFINE next == list[i + 1]
  <2>5. i \in 1 .. n - 1 /\ i + 1 \in 1 .. n /\ i < i + 1
    BY <1>1, <2>4
  <2>6. LiesBefore(r, next) /\ next.timeline \in Nat
    BY <1>1, <2>1, <2>5
  <2>7. next = s \/ LiesBefore(next, s)
    <3>1. i + 1 = j \/ i + 1 < j
      BY <2>4
    <3> QED
      BY <1>1, <2>2, <2>5, <3>1
  <2>8. r.timeline = next.timeline /\ r.end + 1 < next.start
    <3> HIDE DEF next
    <3> QED
      BY <1>4, <2>3, <2>6, <2>7 DEF LiesBefore
  <2>9. [timeline |-> r.timeline, start |-> r.end + 1, end |-> next.start - 1] \in Between(list)
    BY <2>1, <2>5, <2>8, Zenon DEF Between, n
  <2> HIDE DEF next
  <2>10. PICK gap \in wal.gaps :
           HoleOf(gap) = [timeline |-> r.timeline, start |-> r.end + 1, end |-> next.start - 1]
    BY <1>2, <2>9
  <2>11. gap.timeline = r.timeline /\ gap.start = r.end + 1
    BY <2>10 DEF HoleOf
  <2> QED
    BY <2>11
<1> QED
  BY <1>3, <1>4 DEF Continuous

(* What the recovery analysis assumes of a WAL catalog holds of each that  *)
(* a scan publishes: its ranges are apart and every hole between two of    *)
(* one timeline is a gap (Finish; AnalyzeRecovery walks from range to      *)
(* range and expects a gap where one ends before the newest).              *)
THEOREM ContinuityAssured == Spec => []CatalogIsContinuous
<1>1. WALInv => CatalogIsContinuous
  <2> SUFFICES ASSUME WALInv PROVE Continuous(HandedOver)
    BY DEF CatalogIsContinuous
  <2>1. catalog \in Catalog /\ GapsBetweenRanges(catalog)
    BY DEF WALInv, ScanTypeOK, Honest
  <2>2. /\ HandedOver.ranges = {catalog.ranges[i] : i \in 1 .. Len(catalog.ranges)}
        /\ HandedOver.gaps = catalog.gaps
    BY DEF HandedOver
  <2> QED
    BY <2>1, <2>2, OrderedIsContinuous
<1> QED
  BY <1>1, WALInvariance, PTL

(* The WAL catalog as the WAL page looks at it: gaps in the order they are *)
(* listed in, each shown as its hole.                                      *)
Shown(gaps, diagnostics) ==
  [server |-> LeftOut, segs |-> IF catalog.segments = NoContext THEN 0 ELSE catalog.segments,
   ranges |-> catalog.ranges, gaps |-> gaps, diagnostics |-> diagnostics]

Differ(list) == \A i, j \in DOMAIN list : i # j => list[i] # list[j]

CatalogCanBeShown ==
  \A gaps \in Seq({HoleOf(gap) : gap \in catalog.gaps}), diagnostics \in Seq(WALDiagnostic) :
    /\ Differ(gaps)
    /\ \A i, j \in DOMAIN diagnostics : i # j => diagnostics[i].key # diagnostics[j].key
    => IsServer(Shown(gaps, diagnostics))

(* A hole between ranges in order is a span.                               *)
LEMMA HoleIsSpan ==
  ASSUME NEW list \in Seq(WALRange), RangesInOrder(list), NEW hole \in Between(list)
  PROVE  hole \in WALSpan /\ hole.start <= hole.end
<1> DEFINE n == Len(list)
<1>1. n \in Nat
  BY LenProperties
<1>2. PICK i \in 1 .. n - 1 :
        /\ list[i].end + 1 < list[i + 1].start
        /\ hole = [timeline |-> list[i].timeline, start |-> list[i].end + 1,
                   end |-> list[i + 1].start - 1]
  BY Zenon DEF Between
<1>3. i \in 1 .. n /\ i + 1 \in 1 .. n
  BY <1>1
<1>4. list[i] \in WALRange /\ list[i + 1] \in WALRange
  BY <1>3, ElementOfSeq
<1>5. list[i].timeline \in Nat /\ list[i].end \in Nat /\ list[i + 1].start \in Nat
  BY <1>4 DEF WALRange
<1>6. /\ list[i].end + 1 \in Nat /\ list[i + 1].start - 1 \in Nat
      /\ list[i].end + 1 <= list[i + 1].start - 1
  BY <1>2, <1>5
<1> QED
  BY <1>2, <1>5, <1>6 DEF WALSpan

(* Ranges in order begin at different places, ...                          *)
LEMMA RangesStartApart ==
  ASSUME NEW list \in Seq(WALRange), RangesInOrder(list),
         NEW i \in 1 .. Len(list), NEW j \in 1 .. Len(list)
  PROVE  /\ list[i].start <= list[i].end
         /\ i # j => /\ list[i].timeline # list[j].timeline \/ list[i].start # list[j].start
                     /\ list[i].timeline # list[j].timeline \/ list[i].end # list[j].end
<1>1. list[i] \in WALRange /\ list[j] \in WALRange
  BY ElementOfSeq
<1>2. /\ list[i].timeline \in Nat /\ list[i].start \in Nat /\ list[i].end \in Nat
      /\ list[j].timeline \in Nat /\ list[j].start \in Nat /\ list[j].end \in Nat
  BY <1>1 DEF WALRange
<1>3. list[i].start <= list[i].end /\ list[j].start <= list[j].end
  BY DEF RangesInOrder
<1>4. i # j => LiesBefore(list[i], list[j]) \/ LiesBefore(list[j], list[i])
  <2>1. i # j => i < j \/ j < i
    BY LenProperties
  <2> QED
    BY <2>1 DEF RangesInOrder
<1> QED
  BY <1>2, <1>3, <1>4 DEF LiesBefore

(* ... and so do the holes between them.                                   *)
LEMMA HolesStartApart ==
  ASSUME NEW list \in Seq(WALRange), RangesInOrder(list),
         NEW a \in Between(list), NEW b \in Between(list), a # b
  PROVE  a.timeline # b.timeline \/ a.start # b.start
<1> DEFINE n == Len(list)
           H(i) == [timeline |-> list[i].timeline, start |-> list[i].end + 1,
                    end |-> list[i + 1].start - 1]
<1>1. n \in Nat
  BY LenProperties
<1>2. PICK i \in 1 .. n - 1 : a = H(i)
  BY Zenon DEF Between
<1>3. PICK j \in 1 .. n - 1 : b = H(j)
  BY Zenon DEF Between
<1>4. i # j
  BY <1>2, <1>3
<1>5. i \in 1 .. n /\ j \in 1 .. n
  BY <1>1
<1>6. list[i].timeline # list[j].timeline \/ list[i].end # list[j].end
  BY <1>4, <1>5, RangesStartApart
<1>7. list[i].end \in Nat /\ list[j].end \in Nat
  <2>1. list[i] \in WALRange /\ list[j] \in WALRange
    BY <1>5, ElementOfSeq
  <2> QED
    BY <2>1 DEF WALRange
<1>8. /\ a.timeline = list[i].timeline /\ a.start = list[i].end + 1
      /\ b.timeline = list[j].timeline /\ b.start = list[j].end + 1
  BY <1>2, <1>3
<1> QED
  BY <1>6, <1>7, <1>8

(* What the WAL page assumes of the ranges and gaps of a server holds of   *)
(* each catalog that a scan publishes, in whatever order the gaps are      *)
(* listed (Finish; filterWALRows sorts rows by where they begin).          *)
THEOREM CatalogShown == Spec => []CatalogCanBeShown
<1>1. WALInv => CatalogCanBeShown
  <2> SUFFICES ASSUME WALInv,
                      NEW gaps \in Seq({HoleOf(gap) : gap \in catalog.gaps}),
                      NEW diagnostics \in Seq(WALDiagnostic),
                      Differ(gaps),
                      \A i, j \in DOMAIN diagnostics :
                        i # j => diagnostics[i].key # diagnostics[j].key
               PROVE  IsServer(Shown(gaps, diagnostics))
    BY DEF CatalogCanBeShown
  <2> DEFINE s == Shown(gaps, diagnostics)
  <2>1. /\ s.segs = IF catalog.segments = NoContext THEN 0 ELSE catalog.segments
        /\ s.ranges = catalog.ranges /\ s.gaps = gaps /\ s.diagnostics = diagnostics
    BY DEF Shown
  <2>2. /\ catalog \in Catalog
        /\ RangesInOrder(catalog.ranges)
        /\ {HoleOf(gap) : gap \in catalog.gaps} = Between(catalog.ranges)
    BY DEF WALInv, ScanTypeOK, Honest, GapsBetweenRanges
  <2>3. catalog.ranges \in Seq(WALRange) /\ catalog.segments \in SegmentsPerLog \cup {NoContext}
    BY <2>2 DEF Catalog
  <2> HIDE DEF s
  <2>4. s.segs \in Nat
    <3>1. catalog.segments = NoContext => s.segs = 0
      BY <2>1
    <3>2. catalog.segments # NoContext => s.segs \in Nat
      BY <2>1, <2>3, SegmentsAreNumbers
    <3> QED
      BY <3>1, <3>2
  <2>5. s.ranges \in Seq(WALSpan)
    BY <2>1, <2>3 DEF WALRange, WALSpan
  <2>6. \A i \in DOMAIN gaps : gaps[i] \in Between(catalog.ranges)
    BY <2>2, ElementOfSeq, LenProperties
  <2>7. s.gaps \in Seq(WALSpan)
    <3>1. \A hole \in Between(catalog.ranges) : hole \in WALSpan
      BY <2>2, <2>3, HoleIsSpan
    <3> QED
      BY <2>1, <2>2, <3>1
  <2>8. ASSUME NEW i \in DOMAIN gaps, NEW j \in DOMAIN gaps, i # j
        PROVE  gaps[i].timeline # gaps[j].timeline \/ gaps[i].start # gaps[j].start
    <3>1. gaps[i] # gaps[j]
      BY <2>8 DEF Differ
    <3> QED
      BY <2>2, <2>3, <2>6, <3>1, HolesStartApart
  <2>9. ASSUME NEW i \in DOMAIN gaps
        PROVE  gaps[i].start <= gaps[i].end
    BY <2>2, <2>3, <2>6, HoleIsSpan
  <2>10. ASSUME NEW i \in DOMAIN catalog.ranges, NEW j \in DOMAIN catalog.ranges
         PROVE  /\ catalog.ranges[i].start <= catalog.ranges[i].end
                /\ i # j => \/ catalog.ranges[i].timeline # catalog.ranges[j].timeline
                            \/ catalog.ranges[i].start # catalog.ranges[j].start
    BY <2>2, <2>3, RangesStartApart, LenProperties
  <2>11. \A spans \in {s.ranges, s.gaps} : \A i, j \in DOMAIN spans :
           /\ spans[i].start <= spans[i].end
           /\ i # j => spans[i].timeline # spans[j].timeline \/ spans[i].start # spans[j].start
    BY <2>1, <2>8, <2>9, <2>10
  <2> QED
    BY <2>1, <2>4, <2>5, <2>7, <2>11, Zenon DEF IsServer, s
<1> QED
  BY <1>1, WALInvariance, PTL

(* A gap is confirmed exactly when the hole was there in the listing of    *)
(* the previous scan too, and a candidate otherwise (gapsForRanges).       *)
THEOREM GapsLive == Spec => GapLifecycle
<1> DEFINE Step ==
      Publishes /\ catalog.state # Unknown /\ catalog'.state # Unknown /\ catalog.segments = catalog'.segments
      => \A gap \in catalog'.gaps :
           gap.status = Confirmed <=> HoleOf(gap) \in Holes(Filled(seen, catalog.segments))
<1>1. ASSUME WALInv, [Next]_vars PROVE Step
  <2> SUFFICES ASSUME Publishes, catalog.state # Unknown, catalog'.state # Unknown, NEW gap \in catalog'.gaps
               PROVE  gap.status = Confirmed <=> HoleOf(gap) \in Holes(Filled(seen, catalog.segments))
    OBVIOUS
  <2>1. pc = "listing" /\ pc' = "idle" /\ catalog'.generation = generation
    BY DEF Publishes
  <2>2. generation \in Nat /\ catalog.generation \in Nat /\ catalog.generation < generation
    BY <2>1, <1>1 DEF WALInv, ScanTypeOK, CatalogIsOlder, Catalog
  <2>3. CompleteScan
    <3>1. CASE BeginScan
      BY <2>1, <3>1 DEF BeginScan
    <3>2. CASE ListObject
      BY <2>1, <3>2 DEF ListObject
    <3>3. CASE RefuseScan \/ FailScan
      BY <2>1, <2>2, <3>3 DEF RefuseScan, FailScan, AbandonScan
    <3>4. CASE Restart
      BY <3>4, NoCatalogFacts DEF Restart
    <3>5. CASE UNCHANGED vars
      BY <2>1, <3>5 DEF vars
    <3> QED
      BY <1>1, <3>1, <3>2, <3>3, <3>4, <3>5 DEF Next
  <2>4. Built(catalog', listed, catalog.gaps, generation)
    BY <1>1, <2>3, CompleteStep
  <2>5. gap.status = Confirmed <=> HoleOf(gap) \in {HoleOf(g) : g \in catalog.gaps}
    BY <2>4, Zenon DEF Built
  <2>6. {HoleOf(g) : g \in catalog.gaps} = Holes(Filled(seen, catalog.segments))
    BY <1>1, Zenon DEF WALInv, Honest, ExactFor
  <2> QED
    BY <2>5, <2>6
<1>2. WALInv /\ [Next]_vars => [Step]_vars
  BY <1>1
<1> QED
  BY <1>2, WALInvariance, PTL DEF Spec, GapLifecycle

-----------------------------------------------------------------------------
(* The pages of the web interface *)

(* What parseWALFilter lets through, when the server has segs segments per *)
(* log file: whatever is given of a span parses and lies on the timeline.  *)
Sound(filter, segs) ==
  LET start  == ParseWALName(filter.start, segs)
      end    == ParseWALName(filter.end, segs)
      starts == filter.start # NoName
      ends   == filter.end # NoName
  IN  /\ filter.timeline >= 0
      /\ starts \/ ends => filter.server # LeftOut /\ segs # 0 /\ filter.timeline # 0
      /\ starts => start.ok /\ start.timeline = filter.timeline
      /\ ends => end.ok /\ end.timeline = filter.timeline
      /\ starts /\ ends => ~(start.position > end.position)

FilterRecord(server, class, timeline, start, end, page) ==
  [server |-> server, class |-> class, timeline |-> timeline,
   start |-> start, end |-> end, page |-> page]

IsFilter(filter) ==
  /\ filter = FilterRecord(filter.server, filter.class, filter.timeline, filter.start,
                           filter.end, filter.page)
  /\ filter.class \in RowClass \cup {"all"}
  /\ filter.timeline \in Int
  /\ filter.start \in Name /\ filter.end \in Name
  /\ filter.page \in 1..MaxPage

(* A page that is shown has a filter of its own, and its links are made    *)
(* from it.                                                                *)
ViewInv ==
  /\ view.status = "page" =>
       /\ IsFilter(view.filter)
       /\ Sound(view.filter, view.segs)
       /\ view.next \in {NoLink, walPageURL(view.filter, view.filter.page + 1)}
       /\ view.previous # NoLink =>
            view.filter.page > 1 /\ view.previous = walPageURL(view.filter, view.filter.page - 1)
  /\ view.status # "page" => view.next = NoLink /\ view.previous = NoLink

-----------------------------------------------------------------------------
(* A parameter left out is neither a class nor all of them.                *)
LEMMA LeftOutFacts == LeftOut # "all" /\ LeftOut \notin RowClass
BY Zenon DEF LeftOut, RowClass, DiagnosticClass

(* A name that parses has a timeline. *)
LEMMA ParsedName ==
  ASSUME NEW name \in Name, NEW segs
  PROVE  LET parsed == ParseWALName(name, segs)
         IN  /\ parsed.ok \in BOOLEAN
             /\ parsed.timeline \in Nat
             /\ parsed.ok => parsed.timeline # 0
BY DEF ParseWALName, Name

(* A filter is bad exactly when the query is refused.                      *)
LEMMA FilterOK ==
  ASSUME NEW query, NEW servers
  PROVE  RefusesFilter(query, servers) <=> parseWALFilter(query, servers) = BadFilter
<1>1. CASE RefusesFilter(query, servers)
  BY <1>1 DEF parseWALFilter
<1>2. CASE ~RefusesFilter(query, servers)
  <2>1. parseWALFilter(query, servers).class \in RowClass \cup {"all"}
    BY <1>2 DEF parseWALFilter, RefusesFilter
  <2>2. BadFilter.class = LeftOut
    BY DEF BadFilter
  <2> QED
    BY <1>2, <2>1, <2>2, LeftOutFacts
<1> QED
  BY <1>1, <1>2

(* A query that is accepted. *)
LEMMA ParsedFilter ==
  ASSUME NEW query, IsQuery(query), NEW servers, ~RefusesFilter(query, servers)
  PROVE  LET filter == parseWALFilter(query, servers)
             segs   == findWALServer(servers, query.server).segs
         IN  IsFilter(filter) /\ Sound(filter, segs) /\ filter.server = query.server
<1> DEFINE filter == parseWALFilter(query, servers)
           segs   == findWALServer(servers, query.server).segs
           start  == ParseWALName(query.start, segs)
           end    == ParseWALName(query.end, segs)
<1>1. /\ query.timeline \in Int /\ query.page \in Int
      /\ query.start \in Name /\ query.end \in Name /\ MaxPage \in Nat \ {0}
  BY BrowserConstants DEF IsQuery
<1>2. /\ filter.server = query.server /\ filter.class = FilterClass(query)
      /\ filter.timeline = FilterTimeline(query, segs)
      /\ filter.start = query.start /\ filter.end = query.end
      /\ filter.page = IF query.page = 0 THEN 1 ELSE query.page
      /\ filter = [server |-> filter.server, class |-> filter.class,
                   timeline |-> filter.timeline, start |-> filter.start, end |-> filter.end,
                   page |-> filter.page]
  BY DEF parseWALFilter
<1>3. /\ FilterClass(query) \in RowClass \cup {"all"} /\ query.timeline >= 0
      /\ query.start # NoName \/ query.end # NoName => query.server # LeftOut /\ segs # 0
      /\ query.start # NoName => ~Misfits(query.start, query, segs)
      /\ query.end # NoName => ~Misfits(query.end, query, segs)
      /\ query.start # NoName /\ query.end # NoName =>
           start.timeline = end.timeline /\ ~(start.position > end.position)
      /\ query.page >= 0 /\ query.page <= MaxPage
  <2>1. /\ FilterClass(query) \in RowClass \cup {"all"} /\ ~(query.timeline < 0)
        /\ ~(query.page < 0) /\ ~(query.page > MaxPage)
        /\ query.start # NoName \/ query.end # NoName => query.server # LeftOut /\ segs # 0
        /\ query.start # NoName => ~Misfits(query.start, query, segs)
        /\ query.end # NoName => ~Misfits(query.end, query, segs)
        /\ query.start # NoName /\ query.end # NoName =>
             start.timeline = end.timeline /\ ~(start.position > end.position)
    BY Zenon DEF RefusesFilter
  <2> HIDE DEF segs, start, end
  <2> QED
    BY <1>1, <2>1
<1>4. /\ start.ok \in BOOLEAN /\ start.timeline \in Nat /\ (start.ok => start.timeline # 0)
      /\ end.ok \in BOOLEAN /\ end.timeline \in Nat /\ (end.ok => end.timeline # 0)
  BY <1>1, ParsedName
<1>5. /\ query.start # NoName => start.ok /\ query.timeline \in {0, start.timeline}
      /\ query.end # NoName => end.ok /\ query.timeline \in {0, end.timeline}
  BY <1>3 DEF Misfits
<1> HIDE DEF filter, segs, start, end
<1>6. /\ filter.timeline \in Int /\ filter.timeline >= 0
      /\ query.start # NoName => filter.timeline = start.timeline
      /\ query.end # NoName => filter.timeline = end.timeline
  BY <1>1, <1>2, <1>3, <1>4, <1>5 DEF FilterTimeline, start, end
<1>7. IsFilter(filter)
  <2>1. filter.page \in 1..MaxPage
    BY <1>1, <1>2, <1>3
  <2> QED
    BY <1>1, <1>2, <1>3, <1>6, <2>1 DEF IsFilter, FilterRecord
<1>8. Sound(filter, segs)
  BY <1>2, <1>3, <1>4, <1>5, <1>6 DEF Sound, start, end
<1> QED
  BY <1>2, <1>7, <1>8 DEF filter, segs

(* A filter with another page.                                             *)
LEMMA Repage ==
  ASSUME NEW filter, NEW server, NEW class, NEW timeline, NEW start, NEW end, NEW page, NEW new,
         filter = FilterRecord(server, class, timeline, start, end, page)
  PROVE  [filter EXCEPT !.page = new] = FilterRecord(server, class, timeline, start, end, new)
BY DEF FilterRecord

(* What a link says of its page is read back, under whatever servers there *)
(* are by then, or the link is refused for a reason that is named.         *)
LEMMA LinkIsReadBack ==
  ASSUME NEW filter, IsFilter(filter), NEW segs, Sound(filter, segs), NEW servers,
         NEW page \in 1..(MaxPage + 1)
  PROVE  LET link   == walPageURL(filter, page)
             parsed == parseWALFilter(link, servers)
         IN  /\ IsQuery(link) /\ link # NoLink
             /\ ~RefusesFilter(link, servers) => parsed = [filter EXCEPT !.page = page]
             /\ RefusesFilter(link, servers) =>
                  \/ page = MaxPage + 1
                  \/ /\ filter.server # LeftOut
                     /\ \/ \A i \in DOMAIN servers : servers[i].server # filter.server
                        \/ findWALServer(servers, filter.server).segs # segs
<1> DEFINE link   == walPageURL(filter, page)
           parsed == parseWALFilter(link, servers)
           now    == findWALServer(servers, filter.server).segs
<1>0. MaxPage \in Nat \ {0} /\ page \in Nat /\ page >= 1 /\ page <= MaxPage + 1
  BY BrowserConstants
<1>1. /\ filter.timeline \in Int /\ filter.class \in RowClass \cup {"all"}
      /\ filter.start \in Name /\ filter.end \in Name
      /\ filter.page \in 1..MaxPage
  BY DEF IsFilter
<1>2. /\ link.server = filter.server /\ link.timeline = filter.timeline
      /\ link.start = filter.start /\ link.end = filter.end
      /\ link.class = (IF filter.class = "all" THEN LeftOut ELSE filter.class)
      /\ link.page = (IF page > 1 THEN page ELSE 0)
  BY DEF walPageURL
<1>3. IsQuery(link)
  <2>1. link.page \in Int
    BY <1>0, <1>2
  <2>2. DOMAIN link = {"server", "class", "timeline", "start", "end", "page"}
    BY DEF walPageURL
  <2> HIDE DEF link
  <2> QED
    BY <1>1, <1>2, <2>1, <2>2 DEF IsQuery
<1>4. link # NoLink
  <2>1. link.page >= 0
    BY <1>0, <1>2
  <2> HIDE DEF link
  <2> QED
    BY <2>1 DEF NoLink
<1>5. FilterClass(link) = filter.class
  BY <1>1, <1>2, LeftOutFacts DEF FilterClass
<1>6. ASSUME ~RefusesFilter(link, servers) PROVE parsed = [filter EXCEPT !.page = page]
  <2>0. link.page \in Int
    BY <1>0, <1>2
  <2>1. FilterTimeline(link, now) = filter.timeline
    BY <1>2 DEF FilterTimeline, Sound
  <2>2. (IF link.page = 0 THEN 1 ELSE link.page) = page
    BY <1>0, <1>2
  <2>3. parsed = [server |-> link.server, class |-> FilterClass(link),
                  timeline |-> FilterTimeline(link, findWALServer(servers, link.server).segs),
                  start |-> link.start, end |-> link.end,
                  page |-> IF link.page = 0 THEN 1 ELSE link.page]
    BY <1>6 DEF parseWALFilter
  <2>4. parsed = [server |-> filter.server, class |-> filter.class,
                  timeline |-> filter.timeline, start |-> filter.start, end |-> filter.end,
                  page |-> page]
    <3> HIDE DEF link, parsed
    <3> QED
      BY <1>2, <1>5, <2>1, <2>2, <2>3
  <2>5. [filter EXCEPT !.page = page] =
          [server |-> filter.server, class |-> filter.class,
           timeline |-> filter.timeline, start |-> filter.start, end |-> filter.end,
           page |-> page]
    BY Repage DEF IsFilter, FilterRecord
  <2> HIDE DEF parsed
  <2> QED
    BY <2>4, <2>5
<1>7. ASSUME page # MaxPage + 1,
             filter.server # LeftOut => /\ \E i \in DOMAIN servers : servers[i].server = filter.server
                                   /\ now = segs
      PROVE  ~RefusesFilter(link, servers)
  <2>1. link.page >= 0 /\ ~(link.page > MaxPage) /\ link.timeline >= 0
    BY <1>0, <1>1, <1>2, <1>7 DEF Sound
  <2>2. link.start # NoName \/ link.end # NoName => now = segs /\ segs # 0 /\ link.server # LeftOut
    BY <1>2, <1>7 DEF Sound
  <2>3. /\ link.start # NoName => ~Misfits(link.start, link, now)
        /\ link.end # NoName => ~Misfits(link.end, link, now)
    BY <1>2, <2>2 DEF Misfits, Sound
  <2>4. link.start # NoName /\ link.end # NoName =>
          /\ ParseWALName(link.start, now).timeline = ParseWALName(link.end, now).timeline
          /\ ~(ParseWALName(link.start, now).position > ParseWALName(link.end, now).position)
    BY <1>2, <2>2 DEF Sound
  <2>5. now = findWALServer(servers, link.server).segs
    BY <1>2
  <2> HIDE DEF link, now
  <2> QED
    BY <1>1, <1>2, <1>5, <1>7, <2>1, <2>2, <2>3, <2>4, <2>5 DEF RefusesFilter
<1> QED
  BY <1>3, <1>4, <1>6, <1>7

-----------------------------------------------------------------------------
(* A page that wals answers with, whatever the query. *)
LEMMA Answered ==
  ASSUME NEW query, IsQuery(query), NEW asked, NEW linked \in BOOLEAN,
         Show(query, asked, linked)
  PROVE  ViewInv'
<1> DEFINE servers   == snapshot.servers
           filter    == parseWALFilter(query, servers)
           pageStart == (filter.page - 1) * PageSize
           found     == filterWALRows(servers, filter, pageStart)
<1>1. view' = wals(query, asked)
  BY DEF Show
<1>2. CASE RefusesFilter(query, servers)
  <2>1. view' = [NoView EXCEPT !.status = "bad request"]
    BY <1>1, <1>2, FilterOK DEF wals
  <2>2. /\ view'.status = "bad request" /\ view'.next = NoLink /\ view'.previous = NoLink
    BY <2>1 DEF NoView
  <2> QED
    BY <2>2 DEF ViewInv
<1>3. CASE ~RefusesFilter(query, servers)
  <2>1. /\ view'.status = "page" /\ view'.filter = filter
        /\ view'.previous = IF filter.page > 1 THEN walPageURL(filter, filter.page - 1) ELSE NoLink
        /\ view'.next = IF pageStart + Len(found.rows) < found.total
                        THEN walPageURL(filter, filter.page + 1) ELSE NoLink
        /\ view'.segs = findWALServer(servers, filter.server).segs
    <3>1. filter # BadFilter
      BY <1>3, FilterOK
    <3> HIDE DEF filter, found, pageStart
    <3> QED
      BY <1>1, <3>1 DEF wals, filter, found, pageStart
  <2>2. IsFilter(filter) /\ Sound(filter, view'.segs)
    BY <1>3, <2>1, ParsedFilter
  <2> HIDE DEF filter, found, pageStart
  <2> QED
    BY <2>1, <2>2 DEF ViewInv
<1> QED
  BY <1>2, <1>3

(* Every step keeps what is known of the page that is shown.               *)
LEMMA ShownPages == ViewInv /\ [BrowserNext]_browserVars => ViewInv'
<1> SUFFICES ASSUME ViewInv, [BrowserNext]_browserVars PROVE ViewInv'
  OBVIOUS
<1>1. ASSUME NEW query \in Queries, Submit(query) PROVE ViewInv'
  BY <1>1, Answered, BrowserConstants DEF Submit
<1>2. CASE FollowNext
  <2>1. view.status = "page" /\ view.next = walPageURL(view.filter, view.filter.page + 1)
    BY <1>2 DEF FollowNext, ViewInv
  <2>2. view.filter.page + 1 \in 1..(MaxPage + 1)
    BY <2>1, BrowserConstants DEF ViewInv, IsFilter
  <2>3. IsQuery(view.next)
    BY <2>1, <2>2, LinkIsReadBack DEF ViewInv
  <2> QED
    BY <1>2, <2>3, Answered DEF FollowNext
<1>3. CASE FollowPrevious
  <2>1. /\ view.status = "page" /\ view.filter.page > 1
        /\ view.previous = walPageURL(view.filter, view.filter.page - 1)
    BY <1>3 DEF FollowPrevious, ViewInv
  <2>2. view.filter.page - 1 \in 1..(MaxPage + 1)
    BY <2>1, BrowserConstants DEF ViewInv, IsFilter
  <2>3. IsQuery(view.previous)
    BY <2>1, <2>2, LinkIsReadBack DEF ViewInv
  <2> QED
    BY <1>3, <2>3, Answered DEF FollowPrevious
<1>4. CASE view' = view
  BY <1>4 DEF ViewInv
<1> QED
  BY <1>1, <1>2, <1>3, <1>4 DEF BrowserNext, Publish, PublishFailure, RestartViewer, browserVars

(* A link of a page that was shown leads to the neighbouring page under    *)
(* the same filter, or is refused for one of the named reasons, whatever   *)
(* was published since, failed or restarted (wals, walPageURL).            *)
THEOREM LinksLead == BrowserSpec => []LinksAreAccepted
<1>1. BrowserInit => ViewInv
  BY DEF BrowserInit, ViewInv, NoView
<1>2. ViewInv => LinksAreAccepted
  <2> SUFFICES ASSUME ViewInv, view.status = "page", NEW step \in {1, -1},
                      (IF step = 1 THEN view.next ELSE view.previous) # NoLink
               PROVE  LET link   == IF step = 1 THEN view.next ELSE view.previous
                          filter == parseWALFilter(link, snapshot.servers)
                      IN  IF filter # BadFilter
                            THEN filter = [view.filter EXCEPT !.page = @ + step]
                            ELSE \/ view.filter.page = MaxPage /\ step = 1
                                 \/ /\ view.filter.server # LeftOut
                                    /\ \/ \A i \in DOMAIN snapshot.servers :
                                            snapshot.servers[i].server # view.filter.server
                                       \/ findWALServer(snapshot.servers, view.filter.server).segs
                                            # view.segs
    BY Zenon DEF LinksAreAccepted
  <2> DEFINE link   == IF step = 1 THEN view.next ELSE view.previous
             filter == parseWALFilter(link, snapshot.servers)
             page   == view.filter.page + step
  <2>1. IsFilter(view.filter) /\ Sound(view.filter, view.segs)
    BY DEF ViewInv
  <2>2. view.filter.page \in 1..MaxPage /\ MaxPage \in Nat
    BY <2>1, BrowserConstants DEF IsFilter
  <2>3. link = walPageURL(view.filter, page) /\ page \in 1..(MaxPage + 1)
    BY <2>2 DEF ViewInv
  <2>4. page = MaxPage + 1 => view.filter.page = MaxPage /\ step = 1
    BY <2>2
  <2> HIDE DEF link, page
  <2>5. /\ ~RefusesFilter(link, snapshot.servers) => filter = [view.filter EXCEPT !.page = page]
        /\ RefusesFilter(link, snapshot.servers) =>
             \/ page = MaxPage + 1
             \/ /\ view.filter.server # LeftOut
                /\ \/ \A i \in DOMAIN snapshot.servers :
                        snapshot.servers[i].server # view.filter.server
                   \/ findWALServer(snapshot.servers, view.filter.server).segs # view.segs
    BY <2>1, <2>3, LinkIsReadBack
  <2>6. RefusesFilter(link, snapshot.servers) <=> filter = BadFilter
    BY FilterOK
  <2>7. [view.filter EXCEPT !.page = @ + step] = [view.filter EXCEPT !.page = page]
    BY DEF page
  <2> HIDE DEF filter
  <2>8. IF filter # BadFilter
          THEN filter = [view.filter EXCEPT !.page = @ + step]
          ELSE \/ view.filter.page = MaxPage /\ step = 1
               \/ /\ view.filter.server # LeftOut
                  /\ \/ \A i \in DOMAIN snapshot.servers :
                          snapshot.servers[i].server # view.filter.server
                     \/ findWALServer(snapshot.servers, view.filter.server).segs # view.segs
    BY <2>4, <2>5, <2>6, <2>7
  <2> QED
    BY <2>8 DEF filter, link
<1> QED
  BY <1>1, <1>2, ShownPages, PTL DEF BrowserSpec

-----------------------------------------------------------------------------
(* The order of the rows of a server *)

IsRow(row) ==
  /\ row.class \in RowClass
  /\ row.timeline \in Nat /\ row.start \in Nat /\ row.end \in Nat /\ row.key \in Nat
  /\ row.placed \in BOOLEAN
  /\ row.start <= row.end

(* Every class has a place of its own in the order of their names.         *)
LEMMA RankOfClass ==
  ASSUME NEW class \in RowClass
  PROVE  Rank(class) \in Nat /\ ClassOrder[Rank(class)] = class
<1>1. DOMAIN ClassOrder = 1 .. 7
  BY DEF ClassOrder
<1>2. \E i \in 1 .. 7 : ClassOrder[i] = class
  <2>1. /\ ClassOrder[1] = "backup-history" /\ ClassOrder[2] = "duplicate" /\ ClassOrder[3] = "gap"
        /\ ClassOrder[4] = "history" /\ ClassOrder[5] = "partial" /\ ClassOrder[6] = "segment"
        /\ ClassOrder[7] = "unknown"
    BY DEF ClassOrder
  <2> QED
    BY <2>1 DEF RowClass, DiagnosticClass
<1>3. Rank(class) \in 1 .. 7 /\ ClassOrder[Rank(class)] = class
  BY <1>1, <1>2 DEF Rank
<1> QED
  BY <1>3

(* What the sort does not tell apart.                                      *)
Tied(left, right) ==
  /\ left.timeline = right.timeline /\ left.placed = right.placed
  /\ left.start = right.start /\ left.class = right.class /\ left.key = right.key

LEMMA BeforeIsOrder ==
  /\ \A a : IsRow(a) => ~Before(a, a)
  /\ \A a, b, c : IsRow(a) /\ IsRow(b) /\ IsRow(c) /\ Before(a, b) /\ Before(b, c) => Before(a, c)
  /\ \A a, b : IsRow(a) /\ IsRow(b) => Before(a, b) \/ Before(b, a) \/ Tied(a, b)
<1>1. ASSUME NEW a, IsRow(a) PROVE ~Before(a, a)
  <2>1. a.timeline \in Nat /\ a.start \in Nat /\ a.key \in Nat /\ Rank(a.class) \in Nat
    BY <1>1, RankOfClass DEF IsRow
  <2> QED
    BY <2>1 DEF Before
<1>2. ASSUME NEW a, NEW b, NEW c, IsRow(a), IsRow(b), IsRow(c), Before(a, b), Before(b, c)
      PROVE  Before(a, c)
  <2>1. \A r \in {a, b, c} : /\ r.timeline \in Nat /\ r.start \in Nat /\ r.key \in Nat
                             /\ r.placed \in BOOLEAN /\ Rank(r.class) \in Nat
    BY <1>2, RankOfClass DEF IsRow
  <2>2. \A r, q \in {a, b, c} : Rank(r.class) = Rank(q.class) => r.class = q.class
    BY <1>2, RankOfClass DEF IsRow
  <2> QED
    BY <1>2, <2>1, <2>2 DEF Before
<1>3. ASSUME NEW a, NEW b, IsRow(a), IsRow(b) PROVE Before(a, b) \/ Before(b, a) \/ Tied(a, b)
  <2>1. \A r \in {a, b} : /\ r.timeline \in Nat /\ r.start \in Nat /\ r.key \in Nat
                          /\ r.placed \in BOOLEAN /\ Rank(r.class) \in Nat
    BY <1>3, RankOfClass DEF IsRow
  <2>2. \A r, q \in {a, b} : Rank(r.class) = Rank(q.class) => r.class = q.class
    BY <1>3, RankOfClass DEF IsRow
  <2> QED
    BY <1>3, <2>1, <2>2 DEF Before, Tied
<1> QED
  BY <1>1, <1>2, <1>3

-----------------------------------------------------------------------------
(* Rows in the order of their places *)

(* A set of rows that the sort tells apart.                                *)
Comparable(rows) ==
  /\ IsFiniteSet(rows)
  /\ \A row \in rows : IsRow(row)
  /\ \A a, b \in rows : a # b => ~Tied(a, b)

(* Two rows are never in the same place, and the places are those of a     *)
(* sequence.                                                               *)
LEMMA PlaceOfRow ==
  ASSUME NEW rows, Comparable(rows)
  PROVE  /\ Cardinality(rows) \in Nat
         /\ \A row \in rows : PlaceOf(row, rows) \in 0 .. Cardinality(rows) - 1
         /\ \A a, b \in rows : Before(a, b) => PlaceOf(a, rows) < PlaceOf(b, rows)
<1> DEFINE Earlier(row) == {other \in rows : Before(other, row)}
<1>1. Cardinality(rows) \in Nat
  BY FS_CardinalityType DEF Comparable
<1>2. \A row \in rows : /\ IsFiniteSet(Earlier(row)) /\ Cardinality(Earlier(row)) \in Nat
  <2> TAKE row \in rows
  <2>1. Earlier(row) \in SUBSET rows
    OBVIOUS
  <2>2. IsFiniteSet(Earlier(row))
    BY <2>1, FS_Subset DEF Comparable
  <2> QED
    BY <2>2, FS_CardinalityType
<1>3. \A row \in rows : Cardinality(Earlier(row)) < Cardinality(rows)
  <2> TAKE row \in rows
  <2>1. Earlier(row) \in SUBSET rows /\ row \notin Earlier(row)
    BY BeforeIsOrder DEF Comparable
  <2> HIDE DEF Earlier
  <2>2. Cardinality(Earlier(row)) <= Cardinality(rows) /\ Cardinality(Earlier(row)) # Cardinality(rows)
    BY <2>1, FS_Subset DEF Comparable
  <2> QED
    BY <1>1, <1>2, <2>2
<1>4. ASSUME NEW a \in rows, NEW b \in rows, Before(a, b)
      PROVE  Cardinality(Earlier(a)) < Cardinality(Earlier(b))
  <2>1. Earlier(a) \in SUBSET Earlier(b) /\ a \in Earlier(b) /\ a \notin Earlier(a)
    BY <1>4, BeforeIsOrder DEF Comparable
  <2>2. IsFiniteSet(Earlier(a)) /\ IsFiniteSet(Earlier(b))
        /\ Cardinality(Earlier(a)) \in Nat /\ Cardinality(Earlier(b)) \in Nat
    BY <1>2
  <2> HIDE DEF Earlier
  <2>3. Cardinality(Earlier(a)) <= Cardinality(Earlier(b))
        /\ Cardinality(Earlier(a)) # Cardinality(Earlier(b))
    BY <2>1, <2>2, FS_Subset
  <2> QED
    BY <2>2, <2>3
<1>5. \A row \in rows : PlaceOf(row, rows) = Cardinality(Earlier(row))
  BY DEF PlaceOf
<1> HIDE DEF Earlier
<1> QED
  BY <1>1, <1>2, <1>3, <1>4, <1>5

(* Every place is taken: there are as many of them as rows.                *)
LEMMA PlaceIsTaken ==
  ASSUME NEW rows, Comparable(rows), NEW k \in 0 .. Cardinality(rows) - 1
  PROVE  \E row \in rows : PlaceOf(row, rows) = k
<1> DEFINE places == 0 .. Cardinality(rows) - 1
           f      == [row \in rows |-> PlaceOf(row, rows)]
<1>0. Cardinality(rows) \in Nat
  BY PlaceOfRow
<1>1. IsFiniteSet(places) /\ Cardinality(places) = Cardinality(rows)
  BY <1>0, FS_Interval
<1>2. f \in [rows -> places]
  BY PlaceOfRow
<1>3. \A a, b \in rows : f[a] = f[b] => a = b
  <2> SUFFICES ASSUME NEW a \in rows, NEW b \in rows, f[a] = f[b], a # b PROVE FALSE
    OBVIOUS
  <2>1. Before(a, b) \/ Before(b, a)
    BY BeforeIsOrder DEF Comparable
  <2>2. f[a] < f[b] \/ f[b] < f[a]
    BY <2>1, PlaceOfRow
  <2>3. f[a] \in Nat /\ f[b] \in Nat
    BY <1>0, <1>2
  <2> QED
    BY <2>2, <2>3
<1>4. f \in Injection(rows, places)
  BY <1>2, <1>3 DEF Injection, IsInjective
<1>5. f \in Surjection(rows, places)
  BY <1>1, <1>4, FS_Injection
<1>6. k \in places
  OBVIOUS
<1>7. \E row \in rows : f[row] = k
  <2> HIDE DEF f, places
  <2> QED
    BY <1>5, <1>6 DEF Surjection
<1> QED
  BY <1>7

(* The rows in their places are the rows in their order.                   *)
LEMMA ArrangedFacts ==
  ASSUME NEW rows, Comparable(rows)
  PROVE  /\ Arranged(rows) \in Seq(rows)
         /\ \A row : row \in rows <=> \E i \in 1 .. Len(Arranged(rows)) : Arranged(rows)[i] = row
         /\ \A i, j \in 1 .. Len(Arranged(rows)) : i < j => Before(Arranged(rows)[i], Arranged(rows)[j])
<1> DEFINE n == Cardinality(rows)
           s == Arranged(rows)
<1>0. n \in Nat
  BY PlaceOfRow
<1>1. \A i \in 1 .. n : s[i] \in rows /\ PlaceOf(s[i], rows) = i - 1
  <2> TAKE i \in 1 .. n
  <2>1. i - 1 \in 0 .. n - 1
    BY <1>0
  <2>2. \E row \in rows : PlaceOf(row, rows) = i - 1
    BY <2>1, PlaceIsTaken
  <2>3. s[i] = CHOOSE row \in rows : PlaceOf(row, rows) = i - 1
    BY DEF Arranged
  <2> QED
    BY <2>2, <2>3
<1>2. s = [i \in 1 .. n |-> s[i]]
  BY DEF Arranged
<1>3. s \in Seq(rows) /\ Len(s) = n
  <2> HIDE DEF s, n
  <2>1. s \in [1 .. n -> rows]
    BY <1>1, <1>2
  <2> QED
    BY <1>0, <2>1
<1>4. ASSUME NEW row \in rows PROVE \E i \in 1 .. n : s[i] = row
  <2> DEFINE i == PlaceOf(row, rows) + 1
  <2>1. i \in 1 .. n
    BY <1>0, PlaceOfRow
  <2>2. s[i] \in rows /\ PlaceOf(s[i], rows) = PlaceOf(row, rows)
    BY <1>0, <1>1, <2>1, PlaceOfRow
  <2>3. PlaceOf(row, rows) \in Nat
    BY <1>0, PlaceOfRow
  <2> HIDE DEF s, i
  <2>4. ~Before(s[i], row) /\ ~Before(row, s[i])
    BY <2>2, <2>3, PlaceOfRow
  <2>5. s[i] = row
    BY <2>2, <2>4, BeforeIsOrder DEF Comparable
  <2> QED
    BY <2>1, <2>5
<1>5. ASSUME NEW i \in 1 .. n, NEW j \in 1 .. n, i < j PROVE Before(s[i], s[j])
  <2>1. s[i] \in rows /\ s[j] \in rows /\ PlaceOf(s[i], rows) = i - 1 /\ PlaceOf(s[j], rows) = j - 1
    BY <1>1
  <2> HIDE DEF s, n
  <2>2. ~(PlaceOf(s[j], rows) < PlaceOf(s[i], rows)) /\ PlaceOf(s[i], rows) # PlaceOf(s[j], rows)
    BY <1>5, <2>1
  <2>3. ~Before(s[j], s[i]) /\ s[i] # s[j]
    BY <2>1, <2>2, PlaceOfRow
  <2> QED
    BY <2>1, <2>3, BeforeIsOrder DEF Comparable
<1>6. \A row : row \in rows <=> \E i \in 1 .. n : s[i] = row
  BY <1>1, <1>4
<1> HIDE DEF s, n
<1> QED
  BY <1>3, <1>5, <1>6 DEF s

-----------------------------------------------------------------------------
(* The rows of a server *)

(* What ServerRows is put together from.                                   *)
LEMMA RowOfServer ==
  ASSUME NEW s, IsServer(s)
  PROVE  /\ IsFiniteSet(ToSet(ServerRows(s)))
         /\ \A row : row \in ToSet(ServerRows(s)) <=>
              \/ \E i \in DOMAIN s.ranges : row = SpanRow(s, "segment", s.ranges[i])
              \/ \E i \in DOMAIN s.gaps : row = SpanRow(s, "gap", s.gaps[i])
              \/ \E i \in DOMAIN s.diagnostics : row = DiagnosticRow(s, s.diagnostics[i])
<1> DEFINE R == [i \in DOMAIN s.ranges |-> SpanRow(s, "segment", s.ranges[i])]
           G == [i \in DOMAIN s.gaps |-> SpanRow(s, "gap", s.gaps[i])]
           D == [i \in DOMAIN s.diagnostics |-> DiagnosticRow(s, s.diagnostics[i])]
           All == {R[i] : i \in DOMAIN R} \cup {G[i] : i \in DOMAIN G} \cup {D[i] : i \in DOMAIN D}
           r == Len(s.ranges)
           g == Len(s.gaps)
           d == Len(s.diagnostics)
<1>1. /\ r \in Nat /\ g \in Nat /\ d \in Nat
      /\ DOMAIN s.ranges = 1 .. r /\ DOMAIN s.gaps = 1 .. g /\ DOMAIN s.diagnostics = 1 .. d
  BY DEF IsServer
<1>2. ServerRows(s) = R \o G \o D
  BY DEF ServerRows
<1>3. /\ DOMAIN R = 1 .. r /\ DOMAIN G = 1 .. g /\ DOMAIN D = 1 .. d
      /\ R = [i \in 1 .. r |-> R[i]] /\ G = [i \in 1 .. g |-> G[i]] /\ D = [i \in 1 .. d |-> D[i]]
  BY <1>1
<1>4. \A row : row \in All <=>
        \/ \E i \in DOMAIN s.ranges : row = SpanRow(s, "segment", s.ranges[i])
        \/ \E i \in DOMAIN s.gaps : row = SpanRow(s, "gap", s.gaps[i])
        \/ \E i \in DOMAIN s.diagnostics : row = DiagnosticRow(s, s.diagnostics[i])
  BY <1>1
<1> HIDE DEF R, G, D, r, g, d
<1>5. R \in Seq(All) /\ G \in Seq(All) /\ D \in Seq(All) /\ Len(R) = r /\ Len(G) = g /\ Len(D) = d
  <2>1. R \in [1 .. r -> All] /\ G \in [1 .. g -> All] /\ D \in [1 .. d -> All]
    BY <1>3
  <2> HIDE DEF All
  <2> QED
    BY <1>1, <2>1
<1> DEFINE S == R \o G \o D
<1>6. R \o G \in Seq(All) /\ S \in Seq(All)
  <2> HIDE DEF All
  <2> QED
    BY <1>5, ConcatProperties
<1>7. Range(S) = Range(R) \cup Range(G) \cup Range(D)
  <2> DEFINE RG == R \o G
  <2> HIDE DEF All, RG
  <2>1. Range(RG) = Range(R) \cup Range(G)
    BY <1>5, RangeConcatenation DEF RG
  <2>2. RG \in Seq(All) /\ D \in Seq(All)
    BY <1>5, <1>6 DEF RG
  <2>3. Range(RG \o D) = Range(RG) \cup Range(D)
    BY <2>2, RangeConcatenation
  <2> QED
    BY <2>1, <2>3 DEF RG
<1>8. ToSet(S) = All
  BY <1>7, Zenon DEF ToSet, Range
<1>9. IsFiniteSet(All)
  <2> DEFINE n == Len(S)
  <2> HIDE DEF All, S
  <2>1. n \in Nat /\ DOMAIN S = 1 .. n /\ S \in [1 .. n -> All]
    BY <1>6
  <2>2. ToSet(S) = {S[i] : i \in 1 .. n}
    BY <2>1 DEF ToSet
  <2> HIDE DEF n
  <2>3. S \in Surjection(1 .. n, All)
    BY <1>8, <2>1, <2>2 DEF Surjection
  <2> QED
    BY <2>1, <2>3, FS_Interval, FS_Surjection
<1> HIDE DEF All, S
<1> QED
  BY <1>2, <1>4, <1>8, <1>9 DEF S

(* The rows of a server are rows, carry its name, and no two are tied: the *)
(* spans of a class begin at different places and every diagnostic has a   *)
(* key of its own.                                                         *)
LEMMA RowsOfServer ==
  ASSUME NEW s, IsServer(s)
  PROVE  /\ Comparable(ToSet(ServerRows(s)))
         /\ \A row \in ToSet(ServerRows(s)) : row.server = s.server
<1>1. ASSUME NEW class \in {"segment", "gap"}, NEW spans \in {s.ranges, s.gaps}, NEW i \in DOMAIN spans
      PROVE  LET row == SpanRow(s, class, spans[i])
             IN  /\ IsRow(row) /\ row.server = s.server /\ row.class = class
                 /\ row.timeline = spans[i].timeline /\ row.start = spans[i].start
  <2>1. spans[i] \in WALSpan /\ spans[i].start <= spans[i].end
    BY DEF IsServer
  <2>2. spans[i].timeline \in Nat /\ spans[i].start \in Nat /\ spans[i].end \in Nat
    BY <2>1 DEF WALSpan
  <2> DEFINE span == spans[i]
  <2> HIDE DEF span
  <2> QED
    BY <2>1, <2>2 DEF SpanRow, Row, IsRow, RowClass, span
<1>2. ASSUME NEW i \in DOMAIN s.diagnostics
      PROVE  LET row == DiagnosticRow(s, s.diagnostics[i])
             IN  /\ IsRow(row) /\ row.server = s.server /\ row.class = s.diagnostics[i].class
                 /\ row.class \in DiagnosticClass /\ row.key = s.diagnostics[i].key
  <2> DEFINE d == s.diagnostics[i]
             parsed == ParseWALName(d.name, s.segs)
  <2>1. d \in WALDiagnostic /\ s.segs \in Nat
    BY DEF IsServer
  <2>2. d.class \in DiagnosticClass /\ d.timeline \in Nat /\ d.key \in Nat /\ d.name \in Name
    BY <2>1 DEF WALDiagnostic
  <2>3. d.name.timeline \in Nat /\ d.name.log \in Nat /\ d.name.seg \in Nat
    BY <2>2 DEF Name
  <2> HIDE DEF d
  <2>4. d.name.log * s.segs \in Nat
    BY <2>1, <2>3
  <2>5. parsed.timeline \in Nat /\ parsed.position \in Nat
    BY <2>3, <2>4 DEF ParseWALName
  <2>6. d.class \in RowClass
    BY <2>2 DEF RowClass
  <2> HIDE DEF parsed
  <2>7. LET row == DiagnosticRow(s, d)
        IN  /\ row.server = s.server /\ row.class = d.class /\ row.key = d.key
            /\ row.placed \in BOOLEAN /\ row.timeline \in Nat /\ row.start \in Nat /\ row.end = row.start
    BY <2>2, <2>5 DEF DiagnosticRow, Row, parsed
  <2> QED
    BY <2>2, <2>6, <2>7 DEF IsRow, d
<1>3. /\ "segment" \notin DiagnosticClass /\ "gap" \notin DiagnosticClass /\ "segment" # "gap"
  BY DEF DiagnosticClass
<1> DEFINE rows == ToSet(ServerRows(s))
           OfRange(row)      == \E i \in DOMAIN s.ranges : row = SpanRow(s, "segment", s.ranges[i])
           OfGap(row)        == \E i \in DOMAIN s.gaps : row = SpanRow(s, "gap", s.gaps[i])
           OfDiagnostic(row) == \E i \in DOMAIN s.diagnostics : row = DiagnosticRow(s, s.diagnostics[i])
<1>4. IsFiniteSet(rows) /\ \A row : row \in rows <=> OfRange(row) \/ OfGap(row) \/ OfDiagnostic(row)
  BY RowOfServer
<1>5. \A row \in rows : /\ IsRow(row) /\ row.server = s.server
                        /\ OfRange(row) => row.class = "segment"
                        /\ OfGap(row) => row.class = "gap"
                        /\ OfDiagnostic(row) => row.class \in DiagnosticClass
  BY <1>1, <1>2, <1>4
<1>6. ASSUME NEW a \in rows, NEW b \in rows, Tied(a, b) PROVE a = b
  <2>1. a.class = b.class /\ a.timeline = b.timeline /\ a.start = b.start /\ a.key = b.key
    BY <1>6 DEF Tied
  <2>2. CASE OfRange(a) /\ OfRange(b)
    <3>1. PICK i \in DOMAIN s.ranges : a = SpanRow(s, "segment", s.ranges[i])
      BY <2>2
    <3>2. PICK j \in DOMAIN s.ranges : b = SpanRow(s, "segment", s.ranges[j])
      BY <2>2
    <3>3. s.ranges[i].timeline = s.ranges[j].timeline /\ s.ranges[i].start = s.ranges[j].start
      BY <1>1, <2>1, <3>1, <3>2
    <3>4. i = j
      BY <3>3 DEF IsServer
    <3> QED
      BY <3>1, <3>2, <3>4
  <2>3. CASE OfGap(a) /\ OfGap(b)
    <3>1. PICK i \in DOMAIN s.gaps : a = SpanRow(s, "gap", s.gaps[i])
      BY <2>3
    <3>2. PICK j \in DOMAIN s.gaps : b = SpanRow(s, "gap", s.gaps[j])
      BY <2>3
    <3>3. s.gaps[i].timeline = s.gaps[j].timeline /\ s.gaps[i].start = s.gaps[j].start
      BY <1>1, <2>1, <3>1, <3>2
    <3>4. i = j
      BY <3>3 DEF IsServer
    <3> QED
      BY <3>1, <3>2, <3>4
  <2>4. CASE OfDiagnostic(a) /\ OfDiagnostic(b)
    <3>1. PICK i \in DOMAIN s.diagnostics : a = DiagnosticRow(s, s.diagnostics[i])
      BY <2>4
    <3>2. PICK j \in DOMAIN s.diagnostics : b = DiagnosticRow(s, s.diagnostics[j])
      BY <2>4
    <3>3. s.diagnostics[i].key = s.diagnostics[j].key
      BY <1>2, <2>1, <3>1, <3>2
    <3>4. i = j
      BY <3>3 DEF IsServer
    <3> QED
      BY <3>1, <3>2, <3>4
  <2> HIDE DEF OfRange, OfGap, OfDiagnostic
  <2> QED
    BY <1>3, <1>4, <1>5, <2>1, <2>2, <2>3, <2>4
<1> HIDE DEF rows, OfRange, OfGap, OfDiagnostic
<1>7. Comparable(rows) /\ \A row \in rows : row.server = s.server
  BY <1>4, <1>5, <1>6 DEF Comparable
<1> QED
  BY <1>7 DEF rows

(* The rows that a filter lets through, in their order.                    *)
LEMMA SortedRowsFacts ==
  ASSUME NEW s, IsServer(s), NEW filter
  PROVE  LET sorted == SortedRows(s, filter)
         IN  /\ sorted \in Seq(MatchingRows(s, filter))
             /\ \A row : row \in MatchingRows(s, filter) <=> \E i \in 1 .. Len(sorted) : sorted[i] = row
             /\ \A i, j \in 1 .. Len(sorted) : i < j => Before(sorted[i], sorted[j])
<1>1. MatchingRows(s, filter) \in SUBSET ToSet(ServerRows(s))
  BY DEF MatchingRows
<1>2. Comparable(MatchingRows(s, filter))
  <2> HIDE DEF MatchingRows
  <2>1. IsFiniteSet(MatchingRows(s, filter))
    BY <1>1, RowsOfServer, FS_Subset DEF Comparable
  <2> QED
    BY <1>1, <2>1, RowsOfServer DEF Comparable
<1> QED
  BY <1>2, ArrangedFacts DEF SortedRows

-----------------------------------------------------------------------------
(* The rows of all servers *)

Pool(servers) == UNION {ToSet(ServerRows(servers[i])) : i \in DOMAIN servers}

(* The server a row is of. *)
IndexOf(row, servers) == CHOOSE i \in DOMAIN servers : servers[i].server = row.server

PageOrder(a, b, servers) ==
  \/ IndexOf(a, servers) < IndexOf(b, servers)
  \/ IndexOf(a, servers) = IndexOf(b, servers) /\ Before(a, b)

Through(row, s, filter) ==
  filter.server \in {LeftOut, s.server} /\ row \in MatchingRows(s, filter)

RowsShown(s, filter) ==
  IF filter.server \notin {LeftOut, s.server} THEN <<>> ELSE SortedRows(s, filter)

(* What one server contributes, under the number of the server.            *)
LEMMA RowsShownFacts ==
  ASSUME NEW servers, IsCatalog(servers), NEW filter, NEW k \in DOMAIN servers
  PROVE  LET rows == RowsShown(servers[k], filter)
         IN  /\ rows \in Seq(Pool(servers))
             /\ \A row : Through(row, servers[k], filter) <=> \E i \in 1 .. Len(rows) : rows[i] = row
             /\ \A i, j \in 1 .. Len(rows) : i < j => Before(rows[i], rows[j])
             /\ \A i \in 1 .. Len(rows) : IndexOf(rows[i], servers) = k
<1> DEFINE s    == servers[k]
           rows == RowsShown(s, filter)
<1>1. IsServer(s) /\ \A i \in DOMAIN servers : servers[i].server = s.server => i = k
  BY DEF IsCatalog
<1>2. CASE filter.server \notin {LeftOut, s.server}
  <2>1. rows = <<>> /\ \A row : ~Through(row, s, filter)
    BY <1>2 DEF RowsShown, Through
  <2> HIDE DEF rows
  <2>2. rows \in Seq(Pool(servers)) /\ Len(rows) = 0
    BY <2>1
  <2> QED
    BY <2>1, <2>2 DEF rows
<1>3. CASE filter.server \in {LeftOut, s.server}
  <2> DEFINE matching == MatchingRows(s, filter)
  <2>1. /\ rows \in Seq(matching)
        /\ \A row : row \in matching <=> \E i \in 1 .. Len(rows) : rows[i] = row
        /\ \A i, j \in 1 .. Len(rows) : i < j => Before(rows[i], rows[j])
    BY <1>1, <1>3, SortedRowsFacts DEF RowsShown
  <2>2. \A row : Through(row, s, filter) <=> row \in matching
    BY <1>3 DEF Through
  <2>3. matching \subseteq ToSet(ServerRows(s)) /\ ToSet(ServerRows(s)) \subseteq Pool(servers)
    BY Zenon DEF MatchingRows, Pool
  <2>4. \A row \in matching : row.server = s.server
    BY <1>1, <2>3, RowsOfServer
  <2>5. \A row \in matching : IndexOf(row, servers) = k
    <3> TAKE row \in matching
    <3>1. \E i \in DOMAIN servers : servers[i].server = row.server
      BY <2>4
    <3> QED
      BY <1>1, <2>4, <3>1 DEF IndexOf
  <2> HIDE DEF rows, matching
  <2>6. rows \in Seq(Pool(servers))
    BY <2>1, <2>3, SeqMonotonic
  <2>7. \A i \in 1 .. Len(rows) : rows[i] \in matching
    BY <2>1
  <2> QED
    BY <2>1, <2>2, <2>5, <2>6, <2>7 DEF rows
<1> QED
  BY <1>2, <1>3

(* all is what the first n servers contribute, in the order of the pages.  *)
ListsRows(all, servers, filter, n) ==
  /\ all \in Seq(Pool(servers))
  /\ \A row : (\E k \in 1 .. n : Through(row, servers[k], filter))
                <=> \E i \in 1 .. Len(all) : all[i] = row
  /\ \A i \in 1 .. Len(all) : IndexOf(all[i], servers) \in 1 .. n
  /\ \A i, j \in 1 .. Len(all) : i < j => PageOrder(all[i], all[j], servers)

LEMMA ListNextServer ==
  ASSUME NEW servers, IsCatalog(servers), NEW filter, NEW m \in Nat, m + 1 \in DOMAIN servers,
         NEW all, ListsRows(all, servers, filter, m)
  PROVE  ListsRows(all \o RowsShown(servers[m + 1], filter), servers, filter, m + 1)
<1> DEFINE n    == m + 1
           rows == RowsShown(servers[n], filter)
           new  == all \o rows
           a    == Len(all)
           r    == Len(rows)
<1>1. /\ rows \in Seq(Pool(servers))
      /\ \A row : Through(row, servers[n], filter) <=> \E i \in 1 .. r : rows[i] = row
      /\ \A i, j \in 1 .. r : i < j => Before(rows[i], rows[j])
      /\ \A i \in 1 .. r : IndexOf(rows[i], servers) = n
  BY RowsShownFacts
<1>2. /\ all \in Seq(Pool(servers))
      /\ \A row : (\E k \in 1 .. m : Through(row, servers[k], filter)) <=> \E i \in 1 .. a : all[i] = row
      /\ \A i \in 1 .. a : IndexOf(all[i], servers) \in 1 .. m
      /\ \A i, j \in 1 .. a : i < j => PageOrder(all[i], all[j], servers)
  BY DEF ListsRows
<1> HIDE DEF rows
<1>3. /\ new \in Seq(Pool(servers)) /\ Len(new) = a + r /\ a \in Nat /\ r \in Nat
      /\ \A i \in 1 .. a + r : new[i] = IF i <= a THEN all[i] ELSE rows[i - a]
  BY <1>1, <1>2, ConcatProperties
<1> HIDE DEF new, a, r
<1>4. /\ \A i \in 1 .. a : i \in 1 .. a + r /\ new[i] = all[i]
      /\ \A i \in 1 .. r : a + i \in 1 .. a + r /\ new[a + i] = rows[i]
      /\ \A i \in 1 .. a + r : i \in 1 .. a \/ (~(i <= a) /\ i - a \in 1 .. r /\ new[i] = rows[i - a])
  BY <1>3
<1>5. \A k : k \in 1 .. n <=> k \in 1 .. m \/ k = n
  OBVIOUS
<1>6. ASSUME NEW row
      PROVE  (\E k \in 1 .. n : Through(row, servers[k], filter)) <=> \E i \in 1 .. a + r : new[i] = row
  <2>1. (\E i \in 1 .. a + r : new[i] = row)
          <=> (\E i \in 1 .. a : all[i] = row) \/ (\E i \in 1 .. r : rows[i] = row)
    BY <1>4
  <2>2. (\E k \in 1 .. n : Through(row, servers[k], filter))
          <=> (\E k \in 1 .. m : Through(row, servers[k], filter)) \/ Through(row, servers[n], filter)
    BY <1>5, Zenon
  <2> QED
    BY <1>1, <1>2, <2>1, <2>2
<1>7. \A i \in 1 .. a + r : IndexOf(new[i], servers) \in 1 .. n
  BY <1>1, <1>2, <1>4
<1>8. ASSUME NEW i \in 1 .. a + r, NEW j \in 1 .. a + r, i < j PROVE PageOrder(new[i], new[j], servers)
  <2>1. CASE i \in 1 .. a /\ j \in 1 .. a
    BY <1>2, <1>4, <1>8, <2>1
  <2>2. CASE i \in 1 .. a /\ j \notin 1 .. a
    <3>1. IndexOf(new[i], servers) \in 1 .. m /\ IndexOf(new[j], servers) = n
      BY <1>1, <1>2, <1>4, <2>2
    <3> QED
      BY <3>1 DEF PageOrder
  <2>3. CASE i \notin 1 .. a
    <3>1. j \notin 1 .. a /\ i - a < j - a
      BY <1>3, <1>8, <2>3
    <3>2. i - a \in 1 .. r /\ j - a \in 1 .. r /\ new[i] = rows[i - a] /\ new[j] = rows[j - a]
      BY <1>4, <2>3, <3>1
    <3>3. Before(new[i], new[j]) /\ IndexOf(new[i], servers) = n /\ IndexOf(new[j], servers) = n
      BY <1>1, <3>1, <3>2
    <3> QED
      BY <3>3 DEF PageOrder
  <2> QED
    BY <2>1, <2>2, <2>3
<1>9. ListsRows(new, servers, filter, n)
  BY <1>3, <1>6, <1>7, <1>8 DEF ListsRows
<1> QED
  BY <1>9 DEF new, rows, a, r

(* The rows of the first servers, for every number of them.                *)
Gathers(all, servers, filter, n) ==
  /\ DOMAIN all = 0 .. n
  /\ all[0] = <<>>
  /\ \A m \in 1 .. n : all[m] = all[m - 1] \o RowsShown(servers[m], filter)
  /\ \A m \in 0 .. n : ListsRows(all[m], servers, filter, m)

LEMMA GatheringExists ==
  ASSUME NEW servers, IsCatalog(servers), NEW filter
  PROVE  \A n \in 0 .. Len(servers) : \E all : Gathers(all, servers, filter, n)
<1> DEFINE L   == Len(servers)
           bad == {n \in 0 .. L : ~ \E all : Gathers(all, servers, filter, n)}
<1>0. L \in Nat /\ DOMAIN servers = 1 .. L
  BY DEF IsCatalog
<1> HIDE DEF L
<1>1. ASSUME bad # {} PROVE FALSE
  <2>1. PICK n \in bad : \A m \in bad : n <= m
    <3>1. bad \in SUBSET Nat
      BY <1>0
    <3> QED
      BY <1>1, <3>1, LeastElement
  <2>2. CASE n = 0
    <3> DEFINE all == [m \in 0 .. 0 |-> <<>>]
    <3>1. all[0] = <<>> /\ DOMAIN all = 0 .. 0 /\ \A m \in 0 .. 0 : m = 0
      OBVIOUS
    <3>2. ListsRows(<<>>, servers, filter, 0)
      BY DEF ListsRows
    <3>3. \A m \in 1 .. 0 : FALSE
      OBVIOUS
    <3> HIDE DEF all
    <3>4. Gathers(all, servers, filter, 0)
      BY <3>1, <3>2, <3>3 DEF Gathers
    <3> QED
      BY <2>1, <2>2, <3>4
  <2>3. CASE n # 0
    <3> DEFINE m == n - 1
    <3>1. m \in Nat /\ n = m + 1 /\ m \notin bad /\ m \in 0 .. L /\ n \in DOMAIN servers
      BY <1>0, <2>1, <2>3
    <3>2. PICK old : Gathers(old, servers, filter, m)
      BY <3>1
    <3> DEFINE new == [i \in 0 .. n |-> IF i = n THEN old[m] \o RowsShown(servers[n], filter) ELSE old[i]]
    <3> HIDE DEF m
    <3>3. /\ \A i \in 0 .. n : i \in 0 .. m \/ i = n
          /\ \A i \in 0 .. m : i \in 0 .. n /\ i # n
          /\ n \in 0 .. n /\ n - 1 = m
      BY <3>1
    <3>4. /\ \A i \in 0 .. m : new[i] = old[i]
          /\ new[n] = old[m] \o RowsShown(servers[n], filter)
          /\ DOMAIN new = 0 .. n
      BY <3>3
    <3> HIDE DEF new
    <3>5. new[0] = <<>> /\ 0 \in 0 .. m /\ m \in 0 .. m
      BY <3>1, <3>2, <3>4 DEF Gathers
    <3>6. ListsRows(new[n], servers, filter, n)
      <4>1. ListsRows(old[m], servers, filter, m)
        BY <3>2, <3>5 DEF Gathers
      <4> QED
        BY <3>1, <3>4, <4>1, ListNextServer
    <3>7. \A i \in 0 .. n : ListsRows(new[i], servers, filter, i)
      BY <3>2, <3>3, <3>4, <3>6 DEF Gathers
    <3>8. ASSUME NEW i \in 1 .. n PROVE new[i] = new[i - 1] \o RowsShown(servers[i], filter)
      <4>1. CASE i = n
        BY <3>3, <3>4, <3>5, <4>1
      <4>2. CASE i # n
        <5>1. i \in 1 .. m /\ i \in 0 .. m /\ i - 1 \in 0 .. m
          BY <3>1, <4>2
        <5> QED
          BY <3>2, <3>4, <5>1 DEF Gathers
      <4> QED
        BY <4>1, <4>2
    <3>9. Gathers(new, servers, filter, n)
      BY <3>4, <3>5, <3>7, <3>8 DEF Gathers
    <3> QED
      BY <2>1, <3>9
  <2> QED
    BY <2>2, <2>3
<1> QED
  BY <1>1 DEF L

-----------------------------------------------------------------------------
(* The page that is cut out of them *)

Window(all, pageStart) ==
  SubSeq(all, Clamped(pageStart, 0, Len(all)) + 1, Clamped(pageStart + PageSize, 0, Len(all)))

Found(all, pageStart) == [rows |-> Window(all, pageStart), total |-> Len(all)]

LEMMA PartOf ==
  ASSUME NEW S, NEW s \in Seq(S), NEW lo \in 0 .. Len(s), NEW hi \in lo .. Len(s)
  PROVE  /\ SubSeq(s, lo + 1, hi) \in Seq(S)
         /\ Len(SubSeq(s, lo + 1, hi)) = hi - lo
         /\ \A i \in 1 .. hi - lo : SubSeq(s, lo + 1, hi)[i] = s[lo + i]
<1> DEFINE part == SubSeq(s, lo + 1, hi)
           n    == Len(s)
<1>1. n \in Nat /\ lo \in 0 .. n /\ hi \in lo .. n
  OBVIOUS
<1> HIDE DEF n
<1>2. lo + 1 \in Int /\ hi \in Int /\ \A i \in lo + 1 .. hi : i \in 1 .. n
  BY <1>1
<1>3. \A i \in lo + 1 .. hi : s[i] \in S
  BY <1>2, ElementOfSeq DEF n
<1>4. /\ part \in Seq(S) /\ Len(part) = IF lo + 1 <= hi THEN hi - (lo + 1) + 1 ELSE 0
      /\ \A i \in 1 .. hi - (lo + 1) + 1 : part[i] = s[lo + 1 + i - 1]
  BY <1>2, <1>3, SubSeqProperties
<1> HIDE DEF part
<1>5. Len(part) = hi - lo /\ hi - (lo + 1) + 1 = hi - lo
  BY <1>1, <1>4
<1>6. ASSUME NEW i \in 1 .. hi - lo PROVE part[i] = s[lo + i]
  <2>1. lo + 1 + i - 1 = lo + i
    BY <1>1
  <2> QED
    BY <1>4, <1>5, <2>1
<1> QED
  BY <1>4, <1>5, <1>6 DEF part

(* A page is cut from one part after the other as from the whole.          *)
LEMMA WindowOfConcat ==
  ASSUME NEW S, NEW all \in Seq(S), NEW rows \in Seq(S), NEW pageStart \in Nat
  PROVE  Window(all, pageStart)
           \o SubSeq(rows, Clamped(pageStart - Len(all), 0, Len(rows)) + 1,
                     Clamped(pageStart + PageSize - Len(all), 0, Len(rows)))
         = Window(all \o rows, pageStart)
<1> DEFINE a  == Len(all)
           r  == Len(rows)
           p  == pageStart
           e  == pageStart + PageSize
           lo == Clamped(p, 0, a)
           hi == Clamped(e, 0, a)
           ro == Clamped(p - a, 0, r)
           ri == Clamped(e - a, 0, r)
           no == Clamped(p, 0, a + r)
           ni == Clamped(e, 0, a + r)
           w  == SubSeq(all, lo + 1, hi)
           v  == SubSeq(rows, ro + 1, ri)
           both == all \o rows
           x  == SubSeq(both, no + 1, ni)
<1>1. a \in Nat /\ r \in Nat /\ p \in Nat /\ e \in Nat /\ p < e
  BY BrowserConstants
<1>2. /\ both \in Seq(S) /\ Len(both) = a + r
      /\ \A i \in 1 .. a + r : both[i] = IF i <= a THEN all[i] ELSE rows[i - a]
  BY ConcatProperties
<1> HIDE DEF a, r, p, e, both
<1>4. /\ lo \in 0 .. a /\ hi \in lo .. a /\ ro \in 0 .. r /\ ri \in ro .. r
      /\ no = lo + ro /\ ni = hi + ri
      /\ lo = a \/ ro = 0
      /\ hi = a \/ ri = 0
  BY <1>1 DEF Clamped
<1> HIDE DEF lo, hi, ro, ri, no, ni
<1>5. /\ w \in Seq(S) /\ Len(w) = hi - lo
      /\ \A i \in 1 .. hi - lo : w[i] = all[lo + i]
  BY <1>4, PartOf DEF a
<1>6. /\ v \in Seq(S) /\ Len(v) = ri - ro
      /\ \A i \in 1 .. ri - ro : v[i] = rows[ro + i]
  BY <1>4, PartOf DEF r
<1>7. /\ x \in Seq(S) /\ Len(x) = ni - no
      /\ \A i \in 1 .. ni - no : x[i] = both[no + i]
  <2>1. no \in 0 .. a + r /\ ni \in no .. a + r
    BY <1>1, <1>4
  <2>2. no \in 0 .. Len(both) /\ ni \in no .. Len(both)
    BY <1>2, <2>1
  <2> QED
    BY <1>2, <2>2, PartOf
<1> HIDE DEF w, v, x
<1>8. /\ w \o v \in Seq(S) /\ Len(w \o v) = (hi - lo) + (ri - ro)
      /\ \A i \in 1 .. (hi - lo) + (ri - ro) :
           (w \o v)[i] = IF i <= hi - lo THEN w[i] ELSE v[i - (hi - lo)]
  <2>1. /\ w \o v \in Seq(S) /\ Len(w \o v) = Len(w) + Len(v)
        /\ \A i \in 1 .. Len(w) + Len(v) : (w \o v)[i] = IF i <= Len(w) THEN w[i] ELSE v[i - Len(w)]
    BY <1>5, <1>6, ConcatProperties
  <2> QED
    BY <1>5, <1>6, <2>1
<1>9. Len(w \o v) = Len(x)
  BY <1>1, <1>4, <1>7, <1>8
<1>10. ASSUME NEW i \in 1 .. Len(w \o v) PROVE (w \o v)[i] = x[i]
  <2>1. i \in 1 .. (hi - lo) + (ri - ro) /\ i \in 1 .. ni - no
    BY <1>1, <1>4, <1>8
  <2>2. CASE i <= hi - lo
    <3>1. (w \o v)[i] = all[lo + i]
      BY <1>1, <1>4, <1>5, <1>8, <2>1, <2>2
    <3>2. no = lo /\ lo + i \in 1 .. a + r /\ lo + i <= a
      BY <1>1, <1>4, <2>1, <2>2
    <3> QED
      BY <1>2, <1>7, <2>1, <3>1, <3>2
  <2>3. CASE ~(i <= hi - lo)
    <3>1. i - (hi - lo) \in 1 .. ri - ro
      BY <1>1, <1>4, <2>1, <2>3
    <3>2. (w \o v)[i] = rows[ro + (i - (hi - lo))]
      BY <1>6, <1>8, <2>1, <2>3, <3>1
    <3> DEFINE k == no + i
    <3>3. k \in 1 .. a + r /\ ~(k <= a) /\ k - a = ro + (i - (hi - lo))
      BY <1>1, <1>4, <2>1, <2>3
    <3>4. x[i] = both[k]
      BY <1>7, <2>1
    <3> HIDE DEF k
    <3>5. both[k] = rows[k - a]
      BY <1>2, <3>3
    <3> QED
      BY <3>2, <3>3, <3>4, <3>5
  <2> QED
    BY <2>2, <2>3
<1>11. w \o v = x
  BY <1>7, <1>8, <1>9, <1>10, SeqEqual
<1>12. /\ w = Window(all, pageStart) /\ x = Window(all \o rows, pageStart)
       /\ v = SubSeq(rows, Clamped(pageStart - Len(all), 0, Len(rows)) + 1,
                     Clamped(pageStart + PageSize - Len(all), 0, Len(rows)))
  <2>1. w = Window(all, pageStart)
    BY DEF Window, w, lo, hi, a, p, e
  <2>2. x = SubSeq(all \o rows, Clamped(p, 0, Len(all \o rows)) + 1, Clamped(e, 0, Len(all \o rows)))
    BY <1>2 DEF x, both, no, ni
  <2>3. x = Window(all \o rows, pageStart)
    BY <2>2 DEF Window, p, e
  <2>4. v = SubSeq(rows, Clamped(pageStart - Len(all), 0, Len(rows)) + 1,
                  Clamped(pageStart + PageSize - Len(all), 0, Len(rows)))
    <3>1. ro = Clamped(pageStart - Len(all), 0, Len(rows))
      BY DEF ro, p, a, r
    <3>2. ri = Clamped(pageStart + PageSize - Len(all), 0, Len(rows))
      <4>1. pageStart + PageSize - Len(all) = (pageStart + PageSize) - Len(all)
        BY BrowserConstants
      <4> QED
        BY <4>1 DEF ri, e, a, r
    <3> QED
      BY <3>1, <3>2 DEF v
  <2> QED
    BY <2>1, <2>3, <2>4
<1> QED
  BY <1>11, <1>12

LEMMA WindowOfNothing ==
  ASSUME NEW pageStart \in Nat
  PROVE  Found(<<>>, pageStart) = NothingFound
<1>1. Len(<<>>) = 0 /\ Clamped(pageStart, 0, 0) = 0 /\ Clamped(pageStart + PageSize, 0, 0) = 0
  BY BrowserConstants DEF Clamped
<1>2. SubSeq(<<>>, 0 + 1, 0) = <<>>
  BY SubSeqEmpty
<1> QED
  BY <1>1, <1>2 DEF Found, Window, NothingFound

(* What one server adds to what was found of the servers before it.        *)
LEMMA CutNextServer ==
  ASSUME NEW S, NEW all \in Seq(S), NEW s, NEW filter, RowsShown(s, filter) \in Seq(S),
         NEW pageStart \in Nat
  PROVE  cutServerRows(Found(all, pageStart), s, filter, pageStart)
           = Found(all \o RowsShown(s, filter), pageStart)
<1> DEFINE rows == RowsShown(s, filter)
           new  == [rows |-> Window(all, pageStart)
                               \o SubSeq(rows, Clamped(pageStart - Len(all), 0, Len(rows)) + 1,
                                         Clamped(pageStart + PageSize - Len(all), 0, Len(rows))),
                    total |-> Len(all) + Len(rows)]
<1>1. Found(all, pageStart).rows = Window(all, pageStart) /\ Found(all, pageStart).total = Len(all)
  BY DEF Found
<1>2. new = Found(all \o rows, pageStart)
  <2> HIDE DEF rows
  <2>1. Len(all \o rows) = Len(all) + Len(rows)
    BY ConcatProperties DEF rows
  <2> QED
    BY <2>1, WindowOfConcat DEF Found, rows
<1>3. CASE filter.server \notin {LeftOut, s.server}
  <2>1. rows = <<>> /\ all \o <<>> = all
    BY <1>3, ConcatEmptySeq DEF RowsShown
  <2> QED
    BY <1>3, <2>1 DEF cutServerRows
<1>4. CASE filter.server \in {LeftOut, s.server}
  <2>1. rows = SortedRows(s, filter)
    BY <1>4 DEF RowsShown
  <2>2. cutServerRows(Found(all, pageStart), s, filter, pageStart) = new
    BY <1>1, <1>4, <2>1 DEF cutServerRows
  <2> QED
    BY <1>2, <2>2
<1> QED
  BY <1>3, <1>4

(* What a filter lets through does not depend on the page.                 *)
Unpaged(filter) ==
  FilterRecord(filter.server, filter.class, filter.timeline, filter.start, filter.end, 1)

LEMMA UnpagedRows ==
  ASSUME NEW filter, NEW s
  PROVE  /\ RowsShown(s, Unpaged(filter)) = RowsShown(s, filter)
         /\ \A row : Through(row, s, Unpaged(filter)) <=> Through(row, s, filter)
<1> DEFINE new == Unpaged(filter)
<1>1. /\ new.server = filter.server /\ new.class = filter.class /\ new.timeline = filter.timeline
      /\ new.start = filter.start /\ new.end = filter.end
  BY DEF Unpaged, FilterRecord
<1> HIDE DEF new
<1>2. \A row : includeWALRow(row, s, new) <=> includeWALRow(row, s, filter)
  BY <1>1, Zenon DEF includeWALRow
<1>3. MatchingRows(s, new) = MatchingRows(s, filter)
  BY <1>2, Zenon DEF MatchingRows
<1>4. SortedRows(s, new) = SortedRows(s, filter)
  BY <1>3 DEF SortedRows
<1> QED
  BY <1>1, <1>3, <1>4 DEF RowsShown, Through, new

AllRows(servers, filter) ==
  (CHOOSE all : Gathers(all, servers, Unpaged(filter), Len(servers)))[Len(servers)]

(* filterWALRows finds the page in the rows of all servers.                *)
LEMMA PageIsFound ==
  ASSUME NEW servers, IsCatalog(servers), NEW filter, NEW pageStart \in Nat
  PROVE  /\ ListsRows(AllRows(servers, filter), servers, Unpaged(filter), Len(servers))
         /\ filterWALRows(servers, filter, pageStart) = Found(AllRows(servers, filter), pageStart)
<1> DEFINE L == Len(servers)
           all == CHOOSE a : Gathers(a, servers, Unpaged(filter), L)
           Finding(f) == f = [n \in 0 .. L |->
                                IF n = 0 THEN NothingFound
                                ELSE cutServerRows(f[n - 1], servers[n], filter, pageStart)]
<1>0. L \in Nat /\ DOMAIN servers = 1 .. L /\ L \in 0 .. L
  BY DEF IsCatalog
<1>1. Gathers(all, servers, Unpaged(filter), L) /\ AllRows(servers, filter) = all[L]
  BY <1>0, GatheringExists DEF AllRows
<1> HIDE DEF L, all
<1>2. \A m \in 0 .. L : all[m] \in Seq(Pool(servers))
  BY <1>1 DEF Gathers, ListsRows
<1>3. ASSUME NEW n \in 1 .. L
      PROVE  cutServerRows(Found(all[n - 1], pageStart), servers[n], filter, pageStart)
               = Found(all[n], pageStart)
  <2>1. n - 1 \in 0 .. L /\ n \in DOMAIN servers
    BY <1>0
  <2>2. RowsShown(servers[n], filter) \in Seq(Pool(servers))
    BY <2>1, RowsShownFacts
  <2>3. all[n] = all[n - 1] \o RowsShown(servers[n], filter)
    BY <1>1, UnpagedRows DEF Gathers
  <2> QED
    BY <1>2, <2>1, <2>2, <2>3, CutNextServer
<1> DEFINE f == [n \in 0 .. L |-> Found(all[n], pageStart)]
<1>4. \E g : Finding(g)
  <2>1. \A n \in 0 .. L : f[n] = IF n = 0 THEN NothingFound
                                ELSE cutServerRows(f[n - 1], servers[n], filter, pageStart)
    <3> TAKE n \in 0 .. L
    <3>1. CASE n = 0
      BY <1>1, <3>1, WindowOfNothing DEF Gathers
    <3>2. CASE n # 0
      <4>1. n \in 1 .. L /\ n - 1 \in 0 .. L
        BY <1>0, <3>2
      <4> QED
        BY <1>3, <3>2, <4>1
    <3> QED
      BY <3>1, <3>2
  <2>2. f = [n \in 0 .. L |-> f[n]]
    OBVIOUS
  <2> HIDE DEF f
  <2>3. Finding(f)
    BY <2>1, <2>2
  <2> QED
    BY <2>3
<1>5. ASSUME NEW g, Finding(g) PROVE \A n \in 0 .. L : g[n] = Found(all[n], pageStart)
  <2>1. \A n \in 0 .. L : g[n] = IF n = 0 THEN NothingFound
                                ELSE cutServerRows(g[n - 1], servers[n], filter, pageStart)
    BY <1>5
  <2> DEFINE bad == {n \in 0 .. L : g[n] # Found(all[n], pageStart)}
  <2>2. ASSUME bad # {} PROVE FALSE
    <3>1. PICK n \in bad : \A m \in bad : n <= m
      <4>1. bad \in SUBSET Nat
        BY <1>0
      <4> QED
        BY <2>2, <4>1, LeastElement
    <3>2. CASE n = 0
      BY <1>1, <2>1, <3>1, <3>2, WindowOfNothing DEF Gathers
    <3>3. CASE n # 0
      <4>1. n \in 1 .. L /\ n - 1 \in 0 .. L /\ n - 1 \notin bad
        BY <1>0, <3>1, <3>3
      <4> QED
        BY <1>3, <2>1, <3>1, <3>3, <4>1
    <3> QED
      BY <3>2, <3>3
  <2> QED
    BY <2>2
<1>6. filterWALRows(servers, filter, pageStart) = (CHOOSE g : Finding(g))[L]
  BY Zenon DEF filterWALRows, L
<1>7. Finding(CHOOSE g : Finding(g))
  <2> HIDE DEF Finding
  <2> QED
    BY <1>4
<1> HIDE DEF Finding
<1>8. filterWALRows(servers, filter, pageStart) = Found(all[L], pageStart)
  BY <1>0, <1>5, <1>6, <1>7
<1>9. ListsRows(all[L], servers, Unpaged(filter), L)
  BY <1>0, <1>1 DEF Gathers
<1> QED
  BY <1>1, <1>8, <1>9 DEF L

(* Where the last page ends.                                               *)
LEMMA PageCount ==
  ASSUME NEW n \in Nat, NEW k \in Nat, NEW p \in Nat, p = k * PageSize, p < n, n <= p + PageSize
  PROVE  (n + PageSize - 1) \div PageSize = k + 1
<1> DEFINE P == PageSize
           d == (n + P - 1) \div P
           e == (n + P - 1) % P
<1>1. P \in Nat /\ P > 0
  BY BrowserConstants
<1> HIDE DEF P
<1>2. n + P - 1 \in Nat
  BY <1>1
<1>3. d \in Nat /\ e \in 0 .. P - 1 /\ n + P - 1 = P * d + e
  BY <1>1, <1>2
<1> HIDE DEF d, e
<1>4. p = k * P
  BY DEF P
<1> DEFINE x == P * d
<1>5. x \in Int /\ P * (k + 2) = p + P + P /\ P * k = p /\ n <= p + P /\ n + P - 1 = x + e
  BY <1>1, <1>3, <1>4 DEF P
<1> HIDE DEF x
<1>6. x < P * (k + 2) /\ x > P * k
  BY <1>1, <1>3, <1>5
<1>7. d < k + 2
  BY <1>1, <1>3, <1>6 DEF x
<1>8. d > k
  BY <1>1, <1>3, <1>6 DEF x
<1> QED
  BY <1>3, <1>7, <1>8 DEF d, P

-----------------------------------------------------------------------------
(* What is shown is what was asked for *)

(* A filter says what the query says: the timeline of the span is added,   *)
(* and nothing else.                                                       *)
Agrees(query, filter) ==
  /\ query.server = filter.server /\ FilterClass(query) = filter.class
  /\ query.start = filter.start /\ query.end = filter.end
  /\ query.timeline \in {0, filter.timeline}
  /\ filter.start = NoName /\ filter.end = NoName => query.timeline = filter.timeline

LEMMA ParsedAgrees ==
  ASSUME NEW query, NEW servers, ~RefusesFilter(query, servers)
  PROVE  Agrees(query, parseWALFilter(query, servers))
<1> DEFINE filter == parseWALFilter(query, servers)
           segs   == findWALServer(servers, query.server).segs
<1>1. /\ filter.server = query.server /\ filter.class = FilterClass(query)
      /\ filter.start = query.start /\ filter.end = query.end
      /\ filter.timeline = FilterTimeline(query, segs)
  BY DEF parseWALFilter
<1> HIDE DEF filter, segs
<1>2. /\ query.timeline \in {0, filter.timeline}
      /\ filter.start = NoName /\ filter.end = NoName => query.timeline = filter.timeline
  BY <1>1 DEF FilterTimeline
<1> QED
  BY <1>1, <1>2 DEF Agrees, filter

(* The server a query names is found under its name.                       *)
LEMMA ServerIsFound ==
  ASSUME NEW servers, IsCatalog(servers), NEW k \in DOMAIN servers
  PROVE  findWALServer(servers, servers[k].server) = servers[k]
<1> DEFINE found == {i \in DOMAIN servers : servers[i].server = servers[k].server}
<1>1. found = {k}
  BY DEF IsCatalog
<1>2. (CHOOSE i \in found : TRUE) = k
  BY <1>1
<1> HIDE DEF found
<1> QED
  BY <1>1, <1>2 DEF findWALServer, found

(* A row meets the span that was asked for when it does not end before it  *)
(* and does not begin behind it.                                           *)
LEMMA Meets ==
  ASSUME NEW start \in Nat, NEW end \in Nat, start <= end,
         NEW starts \in BOOLEAN, NEW ends \in BOOLEAN, NEW low \in Nat, NEW high \in Nat,
         starts /\ ends => low <= high
  PROVE  (\E p \in start .. end : (starts => low <= p) /\ (ends => p <= high))
           <=> (starts => end >= low) /\ (ends => start <= high)
<1>1. ASSUME starts => end >= low, ends => start <= high
      PROVE  \E p \in start .. end : (starts => low <= p) /\ (ends => p <= high)
  <2> DEFINE p == IF ~starts \/ low <= start THEN start ELSE low
  <2>1. p \in start .. end /\ (starts => low <= p) /\ (ends => p <= high)
    BY <1>1
  <2> QED
    BY <2>1
<1>2. ASSUME NEW p \in start .. end, starts => low <= p, ends => p <= high
      PROVE  (starts => end >= low) /\ (ends => start <= high)
  BY <1>2
<1> QED
  BY <1>1, <1>2

(* The filter lets through the rows that were asked for.                   *)
LEMMA ThroughIsAsked ==
  ASSUME NEW servers, IsCatalog(servers), NEW k \in DOMAIN servers,
         NEW filter, IsFilter(filter), NEW segs, segs = findWALServer(servers, filter.server).segs,
         Sound(filter, segs), NEW query, Agrees(query, filter),
         NEW row \in ToSet(ServerRows(servers[k]))
  PROVE  Through(row, servers[k], filter) <=> Asked(row, query, segs)
<1> DEFINE s      == servers[k]
           low    == ParseWALName(filter.start, segs)
           high   == ParseWALName(filter.end, segs)
           starts == filter.start # NoName
           ends   == filter.end # NoName
<1>1. /\ IsServer(s) /\ IsRow(row) /\ row.server = s.server
  BY RowsOfServer DEF IsCatalog, Comparable
<1>2. /\ row.class \in RowClass /\ row.timeline \in Nat /\ row.placed \in BOOLEAN
      /\ row.start \in Nat /\ row.end \in Nat /\ row.start <= row.end
  BY <1>1 DEF IsRow
<1>3. Through(row, s, filter) <=> filter.server \in {LeftOut, s.server} /\ includeWALRow(row, s, filter)
  BY DEF Through, MatchingRows
<1>4. /\ query.server = filter.server /\ query.start = filter.start /\ query.end = filter.end
      /\ FilterClass(query) = filter.class /\ query.timeline \in {0, filter.timeline}
      /\ ~starts /\ ~ends => query.timeline = filter.timeline
  BY DEF Agrees
<1>5. query.class \in {LeftOut, "all", row.class} <=> filter.class \in {"all", row.class}
  BY <1>2, <1>4, LeftOutFacts DEF FilterClass
<1>6. CASE filter.server \notin {LeftOut, s.server}
  BY <1>1, <1>3, <1>4, <1>6 DEF Asked
<1>7. CASE filter.server \in {LeftOut, s.server} /\ ~starts /\ ~ends
  <2>1. ~low.ok /\ ~high.ok
    BY <1>7 DEF ParseWALName, NoName
  <2>2. includeWALRow(row, s, filter) <=>
          filter.class \in {"all", row.class} /\ filter.timeline \in {0, row.timeline}
    BY <1>7 DEF includeWALRow
  <2>3. Asked(row, query, segs) <=>
          filter.class \in {"all", row.class} /\ filter.timeline \in {0, row.timeline}
    <3> HIDE DEF low, high
    <3> QED
      BY <1>1, <1>4, <1>5, <1>7, <2>1 DEF Asked, low, high
  <2> QED
    BY <1>3, <1>7, <2>2, <2>3
<1>8. CASE filter.server \in {LeftOut, s.server} /\ (starts \/ ends)
  <2>1. /\ filter.server = s.server /\ filter.timeline # 0
        /\ starts => low.ok /\ low.timeline = filter.timeline
        /\ ends => high.ok /\ high.timeline = filter.timeline
        /\ starts /\ ends => ~(low.position > high.position)
    BY <1>8 DEF Sound
  <2>2. segs = s.segs /\ segs \in Nat
    BY <1>1, <2>1, ServerIsFound DEF IsServer
  <2>3. /\ low.position \in Nat /\ high.position \in Nat
        /\ low.ok \in BOOLEAN /\ high.ok \in BOOLEAN
    <3>1. ASSUME NEW name \in Name
          PROVE  ParseWALName(name, segs).position \in Nat /\ ParseWALName(name, segs).ok \in BOOLEAN
      <4>1. name.log \in Nat /\ name.seg \in Nat
        BY DEF Name
      <4>2. name.log * segs \in Nat
        BY <2>2, <4>1
      <4> QED
        BY <4>1, <4>2 DEF ParseWALName
    <3> QED
      BY <3>1 DEF IsFilter
  <2>4. (~starts => ~low.ok) /\ (~ends => ~high.ok)
    BY DEF ParseWALName, NoName
  <2>5. (low.ok <=> starts) /\ (high.ok <=> ends)
    BY <2>1, <2>3, <2>4
  <2> HIDE DEF starts, ends
  <2>6. includeWALRow(row, s, filter) <=>
          /\ filter.class \in {"all", row.class} /\ filter.timeline = row.timeline
          /\ row.placed
          /\ starts => row.end >= low.position
          /\ ends => row.start <= high.position
    BY <1>8, <2>1, <2>2 DEF includeWALRow, starts, ends
  <2> HIDE DEF low, high
  <2>7. (\A bound \in {b \in {low, high} : b.ok} : bound.timeline = row.timeline)
          <=> filter.timeline = row.timeline
    BY <1>8, <2>1, <2>5
  <2>8. (\E p \in row.start .. row.end : (low.ok => low.position <= p) /\ (high.ok => p <= high.position))
          <=> (starts => row.end >= low.position) /\ (ends => row.start <= high.position)
    <3>1. low.ok /\ high.ok => low.position <= high.position
      BY <2>1, <2>3, <2>5
    <3>2. (\E p \in row.start .. row.end : (low.ok => low.position <= p) /\ (high.ok => p <= high.position))
            <=> (low.ok => row.end >= low.position) /\ (high.ok => row.start <= high.position)
      BY <1>2, <2>3, <3>1, Meets
    <3> QED
      BY <2>5, <3>2
  <2>9. Asked(row, query, segs) <=>
          /\ query.server \in {LeftOut, row.server}
          /\ query.class \in {LeftOut, "all", row.class}
          /\ query.timeline \in {0, row.timeline}
          /\ (low.ok \/ high.ok) =>
               /\ row.placed
               /\ \A bound \in {b \in {low, high} : b.ok} : bound.timeline = row.timeline
               /\ \E p \in row.start .. row.end :
                    (low.ok => low.position <= p) /\ (high.ok => p <= high.position)
    BY <1>4, Zenon DEF Asked, low, high
  <2>10. low.ok \/ high.ok
    BY <1>8, <2>5 DEF starts, ends
  <2>11. filter.timeline = row.timeline => query.timeline \in {0, row.timeline}
    BY <1>4
  <2> QED
    BY <1>1, <1>3, <1>4, <1>5, <1>8, <2>1, <2>6, <2>7, <2>8, <2>9, <2>10, <2>11
<1> QED
  BY <1>6, <1>7, <1>8

-----------------------------------------------------------------------------
(* The pages a reader comes by *)

(* The first k pages of all rows.                                          *)
FirstPages(all, k) == SubSeq(all, 1, Clamped(k * PageSize, 0, Len(all)))

(* A page begins where the one before it ends.                             *)
LEMMA NextPage ==
  ASSUME NEW S, NEW all \in Seq(S), NEW k \in Nat
  PROVE  /\ k * PageSize \in Nat /\ (k + 1) * PageSize = k * PageSize + PageSize
         /\ Window(all, 0) = FirstPages(all, 1)
         /\ FirstPages(all, k) \o Window(all, k * PageSize) = FirstPages(all, k + 1)
         /\ k * PageSize + Len(Window(all, k * PageSize)) < Len(all) <=> (k + 1) * PageSize < Len(all)
<1> DEFINE n  == Len(all)
           p  == k * PageSize
           e  == (k + 1) * PageSize
           lo == Clamped(p, 0, n)
           hi == Clamped(e, 0, n)
<1>1. PageSize \in Nat /\ PageSize > 0 /\ n \in Nat
  BY BrowserConstants
<1>2. p \in Nat /\ e = p + PageSize
  BY <1>1
<1>3. 0 + PageSize = 1 * PageSize /\ Clamped(0, 0, n) = 0 /\ Window(all, 0) = FirstPages(all, 1)
  <2>1. 0 + PageSize = 1 * PageSize /\ Clamped(0, 0, n) = 0 /\ 0 + 1 = 1
    BY <1>1 DEF Clamped
  <2> QED
    BY <2>1 DEF Window, FirstPages
<1> HIDE DEF n, p, e
<1>4. lo \in 0 .. n /\ hi \in lo .. n /\ (p + (hi - lo) < n <=> e < n)
  BY <1>1, <1>2 DEF Clamped
<1>5. Window(all, p) = SubSeq(all, lo + 1, hi)
  BY <1>2 DEF Window, n
<1> HIDE DEF lo, hi
<1>6. Len(Window(all, p)) = hi - lo
  BY <1>4, <1>5, PartOf DEF n
<1>7. SubSeq(all, 1, lo) \o SubSeq(all, lo + 1, hi) = SubSeq(all, 1, hi)
  <2>1. 1 \in 1 .. Len(all) + 1 /\ lo \in 1 - 1 .. Len(all) /\ hi \in lo .. Len(all)
    BY <1>1, <1>4 DEF n
  <2> QED
    BY <2>1, ConcatAdjacentSubSeq
<1> QED
  BY <1>2, <1>3, <1>4, <1>5, <1>6, <1>7 DEF FirstPages, n, p, e, lo, hi

(* The filter of a neighbouring page has the same rows.                    *)
LEMMA RepagedRows ==
  ASSUME NEW filter, IsFilter(filter), NEW k, NEW servers, NEW query, Agrees(query, filter)
  PROVE  LET new == [filter EXCEPT !.page = k]
         IN  /\ AllRows(servers, new) = AllRows(servers, filter)
             /\ Agrees(query, new) /\ new.page = k /\ new.server = filter.server
<1> DEFINE new == [filter EXCEPT !.page = k]
<1>1. new = FilterRecord(filter.server, filter.class, filter.timeline, filter.start, filter.end, k)
  BY Repage DEF IsFilter
<1>2. /\ new.server = filter.server /\ new.class = filter.class /\ new.timeline = filter.timeline
      /\ new.start = filter.start /\ new.end = filter.end /\ new.page = k
  BY <1>1 DEF FilterRecord
<1> HIDE DEF new
<1>3. Unpaged(new) = Unpaged(filter)
  BY <1>2 DEF Unpaged
<1> QED
  BY <1>2, <1>3 DEF AllRows, Agrees, new

(* What is published, and what is known of a page while no other scan has  *)
(* been published since it was shown.                                      *)
PublishedInv ==
  snapshot \in [servers : Catalogs \cup {<<>>}, generation : Nat, stale : BOOLEAN, process : {1, 2}]

IsCurrent == view.generation = snapshot.generation /\ view.process = snapshot.process

CurrentInv ==
  LET all == AllRows(snapshot.servers, view.filter)
      k   == view.filter.page
  IN  /\ view.segs = findWALServer(snapshot.servers, view.filter.server).segs
      /\ view.totalRows = Len(all)
      /\ view.totalPages = (Len(all) + PageSize - 1) \div PageSize
      /\ view.next = NoLink <=> ~(k * PageSize < Len(all))
      /\ trail.pages > 0 =>
           /\ trail.pages = k
           /\ k = 1 \/ (k - 1) * PageSize < Len(all)
           /\ trail.rows = FirstPages(all, k)

PagesInv ==
  /\ ViewInv
  /\ PublishedInv
  /\ view.status = "page" =>
       /\ view.generation \in Nat /\ view.process \in {1, 2}
       /\ \/ view.process < snapshot.process
          \/ view.process = snapshot.process /\ view.generation <= snapshot.generation
       /\ Agrees(view.query, view.filter)
       /\ IsCurrent => CurrentInv

LEMMA PublishedCatalog == PublishedInv => IsCatalog(snapshot.servers)
<1>1. IsCatalog(<<>>)
  <2>1. Len(<<>>) = 0 /\ DOMAIN <<>> = 1 .. 0 /\ \A i \in 1 .. 0 : FALSE
    OBVIOUS
  <2> QED
    BY <2>1 DEF IsCatalog
<1> QED
  BY <1>1, BrowserConstants DEF PublishedInv

(* The page that wals answers with, in the rows of all servers.            *)
LEMMA PageAnswered ==
  ASSUME PublishedInv, NEW query, IsQuery(query), NEW asked, NEW linked \in BOOLEAN,
         Show(query, asked, linked), ~RefusesFilter(query, snapshot.servers)
  PROVE  LET filter == parseWALFilter(query, snapshot.servers)
             all    == AllRows(snapshot.servers, filter)
             k      == filter.page
         IN  /\ snapshot' = snapshot /\ trail' = Follow(view', linked)
             /\ all \in Seq(Pool(snapshot.servers)) /\ k \in Nat /\ k >= 1
             /\ view'.status = "page" /\ view'.query = asked /\ view'.filter = filter
             /\ view'.generation = snapshot.generation /\ view'.process = snapshot.process
             /\ view'.segs = findWALServer(snapshot.servers, filter.server).segs
             /\ view'.rows = Window(all, (k - 1) * PageSize)
             /\ view'.totalRows = Len(all)
             /\ view'.totalPages = (Len(all) + PageSize - 1) \div PageSize
             /\ view'.next = NoLink <=> ~(k * PageSize < Len(all))
<1> DEFINE servers == snapshot.servers
           filter  == parseWALFilter(query, servers)
           all     == AllRows(servers, filter)
           k       == filter.page
           start   == (k - 1) * PageSize
           found   == filterWALRows(servers, filter, start)
<1>1. /\ view' = wals(query, asked) /\ snapshot' = snapshot /\ trail' = Follow(view', linked)
  BY DEF Show
<1>2. IsFilter(filter) /\ Sound(filter, findWALServer(servers, filter.server).segs) /\ filter # BadFilter
  BY ParsedFilter, FilterOK
<1>3. k \in 1 .. MaxPage /\ MaxPage \in Nat
  BY <1>2, BrowserConstants DEF IsFilter
<1>4. view' = [status     |-> "page", query |-> asked, filter |-> filter,
               rows       |-> found.rows,
               totalRows  |-> found.total,
               totalPages |-> (found.total + PageSize - 1) \div PageSize,
               previous   |-> IF filter.page > 1 THEN walPageURL(filter, filter.page - 1) ELSE NoLink,
               next       |-> IF start + Len(found.rows) < found.total
                                THEN walPageURL(filter, filter.page + 1) ELSE NoLink,
               generation |-> snapshot.generation,
               process    |-> snapshot.process,
               segs       |-> findWALServer(servers, filter.server).segs]
  BY <1>1, <1>2, Zenon DEF wals
<1> HIDE DEF filter, found, servers
<1>5. k - 1 \in Nat /\ k - 1 + 1 = k /\ start \in Nat
  <2>1. k - 1 \in Nat /\ k - 1 + 1 = k
    BY <1>3
  <2> QED
    BY <2>1, BrowserConstants
<1>6. ListsRows(all, servers, Unpaged(filter), Len(servers)) /\ found = Found(all, start)
  BY <1>5, PublishedCatalog, PageIsFound DEF found, servers
<1>7. all \in Seq(Pool(servers))
  BY <1>6 DEF ListsRows
<1>8. found.rows = Window(all, start) /\ found.total = Len(all)
  BY <1>6 DEF Found
<1>9. start + Len(found.rows) < found.total <=> k * PageSize < Len(all)
  BY <1>5, <1>7, <1>8, NextPage
<1>10. walPageURL(filter, k + 1) # NoLink
  <2>1. k + 1 \in 1 .. MaxPage + 1
    BY <1>3
  <2> QED
    BY <1>2, <2>1, LinkIsReadBack
<1> HIDE DEF all, start, k
<1>11. /\ view'.status = "page" /\ view'.query = asked /\ view'.filter = filter
       /\ view'.generation = snapshot.generation /\ view'.process = snapshot.process
       /\ view'.segs = findWALServer(servers, filter.server).segs
       /\ view'.rows = found.rows /\ view'.totalRows = found.total
       /\ view'.totalPages = (found.total + PageSize - 1) \div PageSize
       /\ view'.next = IF start + Len(found.rows) < found.total
                       THEN walPageURL(filter, filter.page + 1) ELSE NoLink
  BY <1>4
<1>12. view'.next = NoLink <=> ~(k * PageSize < Len(all))
  BY <1>9, <1>10, <1>11 DEF k
<1>13. k \in Nat /\ k >= 1
  BY <1>3
<1> QED
  BY <1>1, <1>7, <1>8, <1>11, <1>12, <1>13 DEF all, start, k, filter, servers

(* A page is shown: the reader's notes are the first pages of all rows.    *)
LEMMA PagesAnswered ==
  ASSUME PagesInv, NEW query, IsQuery(query), NEW asked, NEW linked \in BOOLEAN,
         Show(query, asked, linked),
         ~RefusesFilter(query, snapshot.servers) => Agrees(asked, parseWALFilter(query, snapshot.servers)),
         linked => view.status = "page" /\ view.next # NoLink /\ query = view.next
  PROVE  PagesInv'
<1> DEFINE servers == snapshot.servers
           filter  == parseWALFilter(query, servers)
           all     == AllRows(servers, filter)
           k       == filter.page
<1>0. ViewInv' /\ PublishedInv' /\ PublishedInv
  BY Answered DEF PagesInv, Show, PublishedInv
<1>1. CASE RefusesFilter(query, servers)
  <2>1. view' = [NoView EXCEPT !.status = "bad request"]
    BY <1>1, FilterOK DEF Show, wals
  <2>2. view'.status = "bad request"
    BY <2>1 DEF NoView
  <2> QED
    BY <1>0, <2>2 DEF PagesInv
<1>2. CASE ~RefusesFilter(query, servers)
  <2>1. /\ snapshot' = snapshot /\ trail' = Follow(view', linked)
        /\ all \in Seq(Pool(servers)) /\ k \in Nat /\ k >= 1
        /\ view'.status = "page" /\ view'.query = asked /\ view'.filter = filter
        /\ view'.generation = snapshot.generation /\ view'.process = snapshot.process
        /\ view'.segs = findWALServer(servers, filter.server).segs
        /\ view'.rows = Window(all, (k - 1) * PageSize)
        /\ view'.totalRows = Len(all)
        /\ view'.totalPages = (Len(all) + PageSize - 1) \div PageSize
        /\ view'.next = NoLink <=> ~(k * PageSize < Len(all))
    BY <1>0, <1>2, PageAnswered
  <2>2. Agrees(asked, filter)
    BY <1>2
  <2> HIDE DEF all, filter
  <2>3. ASSUME trail'.pages > 0
        PROVE  /\ trail'.pages = k
               /\ k = 1 \/ (k - 1) * PageSize < Len(all)
               /\ trail'.rows = FirstPages(all, k)
    <3>1. CASE k = 1
      <4>1. trail' = [pages |-> 1, rows |-> view'.rows]
        BY <2>1, <3>1 DEF Follow
      <4>2. (k - 1) * PageSize = 0
        BY <3>1, BrowserConstants
      <4>3. view'.rows = FirstPages(all, 1)
        BY <2>1, <4>2, NextPage
      <4> QED
        BY <3>1, <4>1, <4>3
    <3>2. CASE k # 1
      <4>1. /\ linked /\ trail.pages > 0
            /\ view'.generation = view.generation /\ view'.process = view.process
            /\ trail' = [pages |-> trail.pages + 1, rows |-> trail.rows \o view'.rows]
        <5>1. ~(NoTrail.pages > 0)
          BY DEF NoTrail
        <5> QED
          BY <2>1, <2>3, <3>2, <5>1 DEF Follow
      <4> DEFINE old == view.filter
                 h   == old.page
      <4>2. /\ view.status = "page" /\ query = view.next /\ view.next # NoLink
            /\ IsFilter(old) /\ Sound(old, view.segs) /\ Agrees(view.query, old)
            /\ view.next = walPageURL(old, h + 1)
        BY <4>1 DEF PagesInv, ViewInv
      <4>3. IsCurrent
        BY <2>1, <4>1 DEF IsCurrent
      <4>4. h \in Nat /\ h >= 1 /\ h + 1 \in 1 .. MaxPage + 1
        BY <4>2, BrowserConstants DEF IsFilter
      <4>5. filter = [old EXCEPT !.page = h + 1]
        BY <1>2, <4>2, <4>4, LinkIsReadBack DEF filter
      <4>6. all = AllRows(servers, old) /\ k = h + 1
        BY <4>2, <4>5, RepagedRows DEF all
      <4>7. CurrentInv
        BY <4>2, <4>3 DEF PagesInv
      <4>8. /\ h * PageSize < Len(all)
            /\ trail.pages = h /\ trail.rows = FirstPages(all, h)
        BY <4>1, <4>2, <4>6, <4>7 DEF CurrentInv
      <4> HIDE DEF h, old, servers
      <4>9. k - 1 = h
        BY <4>4, <4>6
      <4>10. FirstPages(all, h) \o Window(all, h * PageSize) = FirstPages(all, h + 1)
        BY <2>1, <4>4, NextPage
      <4>11. trail'.pages = trail.pages + 1 /\ trail'.rows = trail.rows \o view'.rows
        BY <4>1
      <4> HIDE DEF k
      <4> QED
        BY <2>1, <4>6, <4>8, <4>9, <4>10, <4>11
    <3> QED
      BY <3>1, <3>2
  <2>4. CurrentInv'
    BY <2>1, <2>3 DEF CurrentInv, all
  <2> HIDE DEF k, servers
  <2>5. snapshot.generation \in Nat /\ snapshot.process \in {1, 2}
    BY <1>0 DEF PublishedInv
  <2> QED
    BY <1>0, <2>1, <2>2, <2>4, <2>5 DEF PagesInv
<1> QED
  BY <1>1, <1>2

(* Every step keeps what is known of the pages.                            *)
LEMMA PagesStep == PagesInv /\ [BrowserNext]_browserVars => PagesInv'
<1> SUFFICES ASSUME PagesInv, [BrowserNext]_browserVars PROVE PagesInv'
  OBVIOUS
<1>0. ViewInv' /\ PublishedInv
  BY ShownPages DEF PagesInv
<1>1. ASSUME NEW query \in Queries, Submit(query) PROVE PagesInv'
  <2>1. IsQuery(query)
    BY BrowserConstants
  <2> QED
    BY <1>1, <2>1, ParsedAgrees, PagesAnswered DEF Submit
<1>2. ASSUME NEW link, NEW page \in 1 .. MaxPage + 1, NEW linked \in BOOLEAN,
             view.status = "page", link = walPageURL(view.filter, page), Show(link, view.query, linked),
             linked => link = view.next /\ view.next # NoLink
      PROVE  PagesInv'
  <2>1. IsFilter(view.filter) /\ Sound(view.filter, view.segs) /\ Agrees(view.query, view.filter)
    BY <1>2 DEF PagesInv, ViewInv
  <2>2. /\ IsQuery(link)
        /\ ~RefusesFilter(link, snapshot.servers) =>
             parseWALFilter(link, snapshot.servers) = [view.filter EXCEPT !.page = page]
    BY <1>2, <2>1, LinkIsReadBack
  <2>3. ~RefusesFilter(link, snapshot.servers) =>
          Agrees(view.query, parseWALFilter(link, snapshot.servers))
    <3>1. Agrees(view.query, [view.filter EXCEPT !.page = page])
      BY <2>1, RepagedRows
    <3> QED
      BY <2>2, <3>1
  <2> QED
    BY <1>2, <2>2, <2>3, PagesAnswered
<1>3. CASE FollowNext
  <2>1. /\ view.status = "page" /\ view.next # NoLink
        /\ view.next = walPageURL(view.filter, view.filter.page + 1)
        /\ view.filter.page \in 1 .. MaxPage
    BY <1>3 DEF FollowNext, PagesInv, ViewInv, IsFilter
  <2>2. view.filter.page + 1 \in 1 .. MaxPage + 1
    BY <2>1, BrowserConstants
  <2> QED
    BY <1>2, <1>3, <2>1, <2>2 DEF FollowNext
<1>4. CASE FollowPrevious
  <2>1. /\ view.status = "page" /\ view.filter.page > 1
        /\ view.previous = walPageURL(view.filter, view.filter.page - 1)
        /\ view.filter.page \in 1 .. MaxPage
    BY <1>4 DEF FollowPrevious, PagesInv, ViewInv, IsFilter
  <2>2. view.filter.page - 1 \in 1 .. MaxPage + 1
    BY <2>1, BrowserConstants
  <2> QED
    BY <1>2, <1>4, <2>1, <2>2 DEF FollowPrevious
<1>5. ASSUME NEW servers \in Catalogs, Publish(servers) PROVE PagesInv'
  <2>1. /\ view' = view /\ snapshot'.generation = snapshot.generation + 1
        /\ snapshot'.process = snapshot.process /\ PublishedInv'
        /\ snapshot.generation \in Nat /\ snapshot.process \in {1, 2}
    <3>1. /\ view' = view
          /\ snapshot' = [snapshot EXCEPT !.servers = servers,
                                          !.generation = snapshot.generation + 1, !.stale = FALSE]
      BY <1>5, Zenon DEF Publish
    <3>2. snapshot.generation \in Nat /\ snapshot.process \in {1, 2}
      BY <1>0 DEF PublishedInv
    <3>3. snapshot'.generation = snapshot.generation + 1 /\ snapshot'.process = snapshot.process
      BY <1>0, <3>1 DEF PublishedInv
    <3>4. PublishedInv'
      <4>1. snapshot.generation + 1 \in Nat /\ servers \in Catalogs \cup {<<>>} /\ FALSE \in BOOLEAN
        BY <3>2
      <4> QED
        BY <1>0, <3>1, <4>1, Zenon DEF PublishedInv
    <3> QED
      BY <3>1, <3>2, <3>3, <3>4
  <2>2. view.status = "page" =>
          /\ ~IsCurrent'
          /\ \/ view.process < snapshot'.process
             \/ view.process = snapshot'.process /\ view.generation <= snapshot'.generation
    BY <2>1 DEF PagesInv, IsCurrent
  <2> QED
    BY <1>0, <2>1, <2>2 DEF PagesInv
<1>6. CASE PublishFailure
  <2>1. /\ view' = view /\ trail' = trail /\ snapshot'.generation = snapshot.generation
        /\ snapshot'.process = snapshot.process /\ snapshot'.servers = snapshot.servers /\ PublishedInv'
    BY <1>0, <1>6 DEF PublishFailure, PublishedInv
  <2>2. (IsCurrent' <=> IsCurrent) /\ (CurrentInv' <=> CurrentInv)
    BY <2>1 DEF IsCurrent, CurrentInv
  <2> QED
    BY <1>0, <2>1, <2>2 DEF PagesInv
<1>7. CASE RestartViewer
  <2>1. /\ view' = view /\ snapshot.process = 1 /\ snapshot' = Initial(2)
    BY <1>7 DEF RestartViewer
  <2>2. snapshot'.process = 2 /\ PublishedInv'
    BY <2>1 DEF Initial, PublishedInv
  <2>3. view.status = "page" => ~IsCurrent' /\ view.process < snapshot'.process
    BY <2>1, <2>2 DEF PagesInv, IsCurrent
  <2> QED
    BY <1>0, <2>1, <2>2, <2>3 DEF PagesInv
<1>8. CASE UNCHANGED browserVars
  <2>1. view' = view /\ trail' = trail /\ snapshot' = snapshot
    BY <1>8 DEF browserVars
  <2>2. (IsCurrent' <=> IsCurrent) /\ (CurrentInv' <=> CurrentInv) /\ PublishedInv'
    BY <1>0, <2>1 DEF IsCurrent, CurrentInv, PublishedInv
  <2> QED
    BY <1>0, <2>1, <2>2 DEF PagesInv
<1> QED
  BY <1>1, <1>3, <1>4, <1>5, <1>6, <1>7, <1>8 DEF BrowserNext

(* The pages that lead to the last one hold all rows, in their order.      *)
LEMMA AllPagesCompose ==
  ASSUME PagesInv, view.status = "page", trail.pages > 0, view.next = NoLink, IsCurrent
  PROVE  LET wanted == {row \in Pool(snapshot.servers) : Asked(row, view.query, view.segs)}
         IN  /\ ToSet(trail.rows) = wanted
             /\ \A i, j \in DOMAIN trail.rows : i < j =>
                  PageOrder(trail.rows[i], trail.rows[j], snapshot.servers)
             /\ view.totalRows = Len(trail.rows)
             /\ trail.pages = IF wanted = {} THEN 1 ELSE view.totalPages
<1> DEFINE servers == snapshot.servers
           filter  == view.filter
           all     == AllRows(servers, filter)
           n       == Len(all)
           k       == filter.page
           wanted  == {row \in Pool(servers) : Asked(row, view.query, view.segs)}
<1>1. /\ IsCatalog(servers) /\ IsFilter(filter) /\ Agrees(view.query, filter) /\ CurrentInv
      /\ Sound(filter, view.segs) /\ view.segs = findWALServer(servers, filter.server).segs
  BY PublishedCatalog DEF PagesInv, ViewInv, CurrentInv
<1>2. ListsRows(all, servers, Unpaged(filter), Len(servers))
  <2>1. 0 \in Nat
    OBVIOUS
  <2> QED
    BY <1>1, <2>1, PageIsFound
<1>3. all \in Seq(Pool(servers)) /\ n \in Nat /\ DOMAIN all = 1 .. n
  BY <1>2 DEF ListsRows
<1>4. k \in Nat /\ k >= 1
  BY <1>1, BrowserConstants DEF IsFilter
<1>5. /\ ~(k * PageSize < n) /\ trail.pages = k /\ trail.rows = FirstPages(all, k)
      /\ k = 1 \/ (k - 1) * PageSize < n
      /\ view.totalRows = n /\ view.totalPages = (n + PageSize - 1) \div PageSize
  BY <1>1 DEF CurrentInv
<1>6. trail.rows = all
  <2>1. k * PageSize \in Nat
    BY <1>4, BrowserConstants
  <2>2. Clamped(k * PageSize, 0, n) = n
    BY <1>3, <1>5, <2>1 DEF Clamped
  <2>3. SubSeq(all, 1, n) = all
    BY <1>3, SubSeqFull
  <2> QED
    BY <1>5, <2>2, <2>3 DEF FirstPages
<1>7. ToSet(all) = wanted
  <2>1. \A row : row \in ToSet(all) <=> \E i \in 1 .. n : all[i] = row
    BY <1>3, Zenon DEF ToSet
  <2>2. DOMAIN servers = 1 .. Len(servers)
    BY <1>1 DEF IsCatalog
  <2>3. \A row : row \in ToSet(all) <=> \E i \in DOMAIN servers : Through(row, servers[i], filter)
    BY <1>2, <2>1, <2>2, UnpagedRows DEF ListsRows
  <2>4. ASSUME NEW row, NEW i \in DOMAIN servers
        PROVE  Through(row, servers[i], filter)
                 <=> row \in ToSet(ServerRows(servers[i])) /\ Asked(row, view.query, view.segs)
    <3>1. Through(row, servers[i], filter) => row \in ToSet(ServerRows(servers[i]))
      BY DEF Through, MatchingRows
    <3> QED
      BY <1>1, <3>1, ThroughIsAsked
  <2>5. \A row : row \in Pool(servers) <=> \E i \in DOMAIN servers : row \in ToSet(ServerRows(servers[i]))
    BY Zenon DEF Pool
  <2> HIDE DEF all, servers, filter, n
  <2> QED
    BY <2>3, <2>4, <2>5
<1>8. \A i, j \in 1 .. n : i < j => PageOrder(all[i], all[j], servers)
  BY <1>2 DEF ListsRows
<1> HIDE DEF all, servers, filter, wanted
<1>9. wanted = {} <=> n = 0
  <2>1. \A row : row \in wanted <=> \E i \in 1 .. n : all[i] = row
    BY <1>3, <1>7, Zenon DEF ToSet
  <2>2. n # 0 => 1 \in 1 .. n
    BY <1>3
  <2>3. n = 0 => \A i \in 1 .. n : FALSE
    OBVIOUS
  <2> QED
    BY <2>1, <2>2, <2>3
<1> HIDE DEF n
<1>10. k = IF wanted = {} THEN 1 ELSE view.totalPages
  <2> HIDE DEF k
  <2>1. k - 1 \in Nat /\ k - 1 + 1 = k
    BY <1>4
  <2> DEFINE p == (k - 1) * PageSize
  <2>2. p \in Nat /\ k * PageSize = p + PageSize
    BY <2>1, NextPage, EmptySeq
  <2> HIDE DEF p
  <2>3. n <= p + PageSize
    BY <1>3, <1>5, <2>2, BrowserConstants
  <2>4. CASE n = 0
    BY <1>5, <1>9, <2>2, <2>4 DEF p
  <2>5. CASE n # 0
    <3>1. p < n
      <4>1. k = 1 => p = 0
        BY <2>1, BrowserConstants DEF p
      <4> QED
        BY <1>3, <1>5, <2>5, <4>1 DEF p
    <3>2. p = (k - 1) * PageSize
      BY DEF p
    <3>3. (n + PageSize - 1) \div PageSize = k - 1 + 1
      BY <1>3, <2>1, <2>2, <2>3, <3>1, <3>2, PageCount
    <3> QED
      BY <1>5, <1>9, <2>1, <2>5, <3>3
  <2> QED
    BY <2>4, <2>5
<1> QED
  BY <1>3, <1>5, <1>6, <1>7, <1>8, <1>10 DEF n, servers, wanted

(* The pages of one generation, followed to the last, are exactly the rows *)
(* that were asked for, each once and in one order, for every catalog and  *)
(* page size (filterWALRows, wals).                                        *)
THEOREM PagesAreWhole == BrowserSpec => []PagesCompose
<1>1. BrowserInit => PagesInv
  <2> SUFFICES ASSUME BrowserInit PROVE PagesInv
    OBVIOUS
  <2>1. view = NoView /\ snapshot = Initial(1)
    BY DEF BrowserInit
  <2>2. view.status = "blank" /\ view.next = NoLink /\ view.previous = NoLink
    BY <2>1 DEF NoView
  <2>3. PublishedInv
    BY <2>1 DEF PublishedInv, Initial
  <2> QED
    BY <2>2, <2>3 DEF PagesInv, ViewInv
<1>2. PagesInv => PagesCompose
  <2> SUFFICES ASSUME PagesInv, view.status = "page", trail.pages > 0, view.next = NoLink, IsCurrent
               PROVE  LET Index(row) == CHOOSE i \in DOMAIN snapshot.servers :
                                          snapshot.servers[i].server = row.server
                          wanted == {row \in UNION {ToSet(ServerRows(snapshot.servers[i])) :
                                                      i \in DOMAIN snapshot.servers} :
                                       Asked(row, view.query, view.segs)}
                      IN  /\ ToSet(trail.rows) = wanted
                          /\ \A i, j \in DOMAIN trail.rows : i < j =>
                               LET a == trail.rows[i] b == trail.rows[j]
                               IN  Index(a) < Index(b) \/ (Index(a) = Index(b) /\ Before(a, b))
                          /\ view.totalRows = Len(trail.rows)
                          /\ trail.pages = IF wanted = {} THEN 1 ELSE view.totalPages
    BY Zenon DEF PagesCompose, IsCurrent
  <2> QED
    BY AllPagesCompose, Zenon DEF Pool, PageOrder, IndexOf
<1> QED
  BY <1>1, <1>2, PagesStep, PTL DEF BrowserSpec

=============================================================================
