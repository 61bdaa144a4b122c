--------------------------- MODULE RecoveryProofs ---------------------------
(***************************************************************************)
(* Proofs about the analysis of recovery, for every archive, every         *)
(* listing, every inventory of backups and whatever the history objects    *)
(* hold: first about timeline histories, then about the paths of backups   *)
(* along them.                                                             *)
(***************************************************************************)
EXTENDS RecoveryCoverage, NaturalsInduction, FiniteSetTheorems, SequenceTheorems, TLAPS

(* What has been judged so far: valid histories are made of known edges,   *)
(* no two known edges lead to one timeline, and nothing that was listed    *)
(* goes unjudged.                                                          *)
KnownEdgesAgree == \A e, f \in known : e.child = f.child => e = f

ValidHistoriesAreKnown ==
  \A h \in histories : h.state = Healthy =>
    /\ EdgesOf(h.edges) \subseteq known
    /\ childRangesAgree(h.edges)
    /\ \E e \in EdgesOf(h.edges) : e.child = h.timeline

ListedAreJudged ==
  \A t \in DOMAIN listed : listed[t] > 0 =>
    t \in todo \/ \E h \in histories : h.timeline = t

NoEarlyVerdict == phase = "reading" => timelineState = Unknown

AncestryInv ==
  /\ AncestryTypeOK
  /\ KnownEdgesAgree
  /\ ValidHistoriesAreKnown
  /\ ListedAreJudged
  /\ NoEarlyVerdict
  /\ HealthyAncestryIsComplete

(* ParseHistory yields edges, no two of which lead to one timeline, and    *)
(* the last of which leads to the timeline whose history it is.            *)
LEMMA ParsedEdges ==
  ASSUME wal \in ServerWAL, NEW target \in Timelines, NEW entries \in Seq(HistoryRecord),
         PossibleHistory(entries, target)
  PROVE  /\ ParseHistory(entries, target) \in Seq(HistoryEdge)
         /\ EdgesOf(ParseHistory(entries, target)) \subseteq HistoryEdge
         /\ \A e, f \in EdgesOf(ParseHistory(entries, target)) : e.child = f.child => e = f
         /\ \E e \in EdgesOf(ParseHistory(entries, target)) : e.child = target
<1> DEFINE edges == ParseHistory(entries, target)
           n == Len(entries)
           Child(i) == IF i < n THEN entries[i + 1].parent ELSE target
<1>1. n \in Nat \ {0} /\ DOMAIN entries = 1 .. n
  BY DEF PossibleHistory
<1>2. wal.segmentSize \in Nat \ {0}
  BY DEF ServerWAL, PossibleHistory
<1>3. \A i \in 1 .. n : /\ entries[i].parent \in Timelines
                        /\ entries[i].parent < target
                        /\ entries[i].lsn \in Nat \ {0}
  <2> TAKE i \in 1 .. n
  <2>1. entries[i] \in HistoryRecord /\ target \in Nat
    BY <1>1 DEF Timelines
  <2>2. entries[i].parent \in 1 .. (target - 1) /\ entries[i].lsn > 0
    BY <1>1 DEF PossibleHistory
  <2> QED
    BY <2>1, <2>2 DEF HistoryRecord, Timelines
<1>4. \A i \in 1 .. n : Child(i) \in Timelines
  BY <1>1, <1>3
<1>5. \A i \in 1 .. n : entries[i].lsn \div wal.segmentSize \in Nat
  <2> TAKE i \in 1 .. n
  <2> DEFINE lsn == entries[i].lsn
             size == wal.segmentSize
  <2>1. lsn \in Nat /\ size \in Nat \ {0}
    BY <1>2, <1>3
  <2> HIDE DEF lsn, size
  <2>2. lsn \div size \in Nat
    BY <2>1
  <2> QED
    BY <2>2 DEF lsn, size
<1>6. \A i \in 1 .. n : edges[i] \in HistoryEdge
  BY <1>1, <1>3, <1>4, <1>5 DEF ParseHistory, HistoryEdge
<1>7. edges \in [1 .. n -> HistoryEdge]
  BY <1>1, <1>6 DEF ParseHistory
<1>8. edges \in Seq(HistoryEdge) /\ DOMAIN edges = 1 .. n
  BY <1>1, <1>7
<1>9. \A i, j \in 1 .. n : i < j => Child(i) # Child(j)
  <2> SUFFICES ASSUME NEW i \in 1 .. n, NEW j \in 1 .. n, i < j
               PROVE  Child(i) # Child(j)
    OBVIOUS
  <2>1. Child(i) = entries[i + 1].parent /\ i + 1 \in 1 .. n
    BY <1>1
  <2>2. CASE j = n
    BY <1>3, <2>1, <2>2 DEF Timelines
  <2>3. CASE j < n
    <3>1. j + 1 \in 1 .. n /\ i + 1 < j + 1 /\ Child(j) = entries[j + 1].parent
      BY <1>1, <2>3
    <3>2. entries[i + 1].parent < entries[j + 1].parent
      BY <1>1, <2>1, <3>1 DEF PossibleHistory
    <3> QED
      BY <1>3, <2>1, <3>1, <3>2 DEF Timelines
  <2>4. j = n \/ j < n
    <3> HIDE DEF n
    <3> QED
      BY <1>1
  <2> QED
    BY <2>2, <2>3, <2>4
<1>10. \A i \in 1 .. n : edges[i].child = Child(i)
  BY <1>1 DEF ParseHistory
<1>11. \A i, j \in 1 .. n : edges[i].child = edges[j].child => i = j
  BY <1>1, <1>9, <1>10
<1>12. EdgesOf(edges) = {edges[i] : i \in 1 .. n}
  BY <1>8 DEF EdgesOf
<1>13. edges[n].child = target /\ n \in 1 .. n
  BY <1>1, <1>10
<1> QED
  BY <1>6, <1>8, <1>11, <1>12, <1>13

LEMMA AncestryInit == Start => AncestryInv
<1> SUFFICES ASSUME Start PROVE AncestryInv
  OBVIOUS
<1>1. wal \in ServerWAL /\ DOMAIN listed \subseteq Timelines
  BY AncestryAssumption DEF Start
<1>2. AncestryTypeOK
  BY <1>1 DEF Start, AncestryTypeOK, State
<1>3. ListedAreJudged
  BY DEF Start, ListedAreJudged
<1> QED
  BY <1>2, <1>3 DEF Start, AncestryInv, KnownEdgesAgree, ValidHistoriesAreKnown,
     NoEarlyVerdict, HealthyAncestryIsComplete, Unknown, Healthy

(* A verdict on one more history leaves the archive alone, and with it     *)
(* what the archive says of every history.                                 *)
LEMMA JudgeStep ==
  ASSUME AncestryInv,
         NEW t, NextTimeline(t),
         NEW state \in State,
         NEW edges \in Seq(HistoryEdge),
         Judge(t, state, edges),
         known' \subseteq HistoryEdge,
         known \subseteq known',
         KnownEdgesAgree',
         state = Healthy => /\ EdgesOf(edges) \subseteq known'
                            /\ childRangesAgree(edges)
                            /\ \E e \in EdgesOf(edges) : e.child = t
  PROVE  AncestryInv'
<1> DEFINE judged == [timeline |-> t, state |-> state, edges |-> edges]
<1>1. /\ wal' = wal /\ listed' = listed /\ phase' = phase /\ timelineState' = timelineState
      /\ todo' = todo \ {t}
      /\ histories' = histories \cup {judged}
  BY DEF Judge
<1>2. t \in Timelines /\ phase = "reading" /\ t \in todo
  BY AncestryAssumption DEF NextTimeline, AncestryInv, AncestryTypeOK
<1>3. judged \in TimelineHistory
  BY <1>2 DEF TimelineHistory
<1>4. AncestryTypeOK'
  BY <1>1, <1>3 DEF AncestryInv, AncestryTypeOK
<1>5. ValidHistoriesAreKnown'
  <2> SUFFICES ASSUME NEW h \in histories', h.state = Healthy
               PROVE  /\ EdgesOf(h.edges) \subseteq known'
                      /\ childRangesAgree(h.edges)'
                      /\ \E e \in EdgesOf(h.edges) : e.child = h.timeline
    BY DEF ValidHistoriesAreKnown, EdgesOf
  <2>1. childRangesAgree(h.edges)' <=> childRangesAgree(h.edges)
    BY <1>1 DEF childRangesAgree, rangesForTimeline, rangeContains, EdgesOf
  <2>2. CASE h \in histories
    BY <2>1, <2>2 DEF AncestryInv, ValidHistoriesAreKnown
  <2>3. CASE h = judged
    BY <2>1, <2>3
  <2> QED
    BY <1>1, <2>2, <2>3
<1>6. ListedAreJudged'
  <2> SUFFICES ASSUME NEW u \in DOMAIN listed, listed[u] > 0
               PROVE  u \in todo' \/ \E h \in histories' : h.timeline = u
    BY <1>1 DEF ListedAreJudged
  <2>1. u \in todo \/ \E h \in histories : h.timeline = u
    BY DEF AncestryInv, ListedAreJudged
  <2>2. judged.timeline = t /\ judged \in histories'
    BY <1>1
  <2> QED
    BY <1>1, <2>1, <2>2
<1>7. NoEarlyVerdict' /\ HealthyAncestryIsComplete'
  BY <1>1, <1>2 DEF AncestryInv, NoEarlyVerdict, HealthyAncestryIsComplete
<1> QED
  BY <1>4, <1>5, <1>6, <1>7 DEF AncestryInv

(* A history without edges is judged.                                      *)
LEMMA EmptyStep ==
  ASSUME AncestryInv, NEW t, NextTimeline(t), Judge(t, Unknown, <<>>), UNCHANGED known
  PROVE  AncestryInv'
<1>1. Unknown \in State /\ Unknown # Healthy
  BY DEF State, Unknown, Healthy
<1>2. <<>> \in Seq(HistoryEdge)
  OBVIOUS
<1>3. known' \subseteq HistoryEdge /\ known \subseteq known' /\ KnownEdgesAgree'
  BY DEF AncestryInv, AncestryTypeOK, KnownEdgesAgree
<1> QED
  BY <1>1, <1>2, <1>3, JudgeStep

LEMMA ContradictStep ==
  ASSUME AncestryInv, NEW t, NEW entries \in Contents, ContradictHistory(t, entries)
  PROVE  AncestryInv'
<1> DEFINE edges == ParseHistory(entries, t)
<1>1. Unknown \in State /\ Unknown # Healthy
  BY DEF State, Unknown, Healthy
<1>2. wal \in ServerWAL /\ t \in Timelines /\ entries \in Seq(HistoryRecord)
  BY AncestryAssumption DEF ContradictHistory, NextTimeline, AncestryInv, AncestryTypeOK
<1>3. edges \in Seq(HistoryEdge)
  BY <1>2, ParsedEdges DEF ContradictHistory
<1>4. known' \subseteq HistoryEdge /\ known \subseteq known' /\ KnownEdgesAgree'
  BY DEF ContradictHistory, AncestryInv, AncestryTypeOK, KnownEdgesAgree
<1>5. NextTimeline(t) /\ Judge(t, Unknown, edges)
  BY DEF ContradictHistory
<1> HIDE DEF edges
<1> QED
  BY <1>1, <1>3, <1>4, <1>5, JudgeStep

LEMMA AcceptStep ==
  ASSUME AncestryInv, NEW t, NEW entries \in Contents, AcceptHistory(t, entries)
  PROVE  AncestryInv'
<1> DEFINE edges == ParseHistory(entries, t)
           valid == ~cycleInEdges(known \cup EdgesOf(edges)) /\ childRangesAgree(edges)
           state == IF valid THEN Healthy ELSE Unknown
<1>1. wal \in ServerWAL /\ t \in Timelines /\ entries \in Seq(HistoryRecord)
  BY AncestryAssumption DEF AcceptHistory, NextTimeline, AncestryInv, AncestryTypeOK
<1>2. /\ edges \in Seq(HistoryEdge)
      /\ EdgesOf(edges) \subseteq HistoryEdge
      /\ \A e, f \in EdgesOf(edges) : e.child = f.child => e = f
      /\ \E e \in EdgesOf(edges) : e.child = t
  BY <1>1, ParsedEdges DEF AcceptHistory
<1>3. /\ NextTimeline(t)
      /\ historyEdgesAgree(edges)
      /\ Judge(t, state, edges)
      /\ known' = known \cup EdgesOf(edges)
  BY DEF AcceptHistory
<1>4. state \in State /\ (state = Healthy => childRangesAgree(edges))
  BY DEF State, Unknown, Healthy
<1> HIDE DEF edges, state
<1>5. known' \subseteq HistoryEdge /\ known \subseteq known'
  BY <1>2, <1>3 DEF AncestryInv, AncestryTypeOK
<1>6. KnownEdgesAgree'
  BY <1>2, <1>3 DEF AncestryInv, KnownEdgesAgree, historyEdgesAgree
<1> QED
  BY <1>2, <1>3, <1>4, <1>5, <1>6, JudgeStep

LEMMA VerdictStep ==
  ASSUME AncestryInv, JudgeAncestry
  PROVE  AncestryInv'
<1> DEFINE missing == {[timeline |-> t, state |-> Unknown, edges |-> <<>>] : t \in MissingTimelines}
<1>1. /\ wal' = wal /\ listed' = listed /\ todo' = todo /\ known' = known
      /\ phase = "reading" /\ phase' = "judged" /\ todo = {}
      /\ histories' = histories \cup missing
      /\ timelineState' = IF \/ observedTimelines = {} /\ histories = {}
                             \/ \E h \in histories' : h.state # Healthy
                          THEN Unknown ELSE Healthy
  BY DEF JudgeAncestry
<1>2. Unknown \in State /\ Healthy \in State /\ Unknown # Healthy
  BY DEF State, Unknown, Healthy
<1>3. \A h \in missing : h \in TimelineHistory /\ h.state = Unknown
  <2>1. MissingTimelines \subseteq Timelines
    BY DEF AncestryInv, AncestryTypeOK, MissingTimelines, observedTimelines, ServerWAL, WALRange
  <2>2. <<>> \in Seq(HistoryEdge)
    OBVIOUS
  <2>3. \A t \in MissingTimelines :
          [timeline |-> t, state |-> Unknown, edges |-> <<>>] \in TimelineHistory
    BY <1>2, <2>1, <2>2 DEF TimelineHistory
  <2> QED
    BY <2>3
<1>4. AncestryTypeOK'
  BY <1>1, <1>2, <1>3 DEF AncestryInv, AncestryTypeOK
<1>5. KnownEdgesAgree' /\ ListedAreJudged' /\ NoEarlyVerdict'
  BY <1>1 DEF AncestryInv, KnownEdgesAgree, ListedAreJudged, NoEarlyVerdict
<1>6. ValidHistoriesAreKnown'
  <2> SUFFICES ASSUME NEW h \in histories', h.state = Healthy
               PROVE  /\ EdgesOf(h.edges) \subseteq known'
                      /\ childRangesAgree(h.edges)'
                      /\ \E e \in EdgesOf(h.edges) : e.child = h.timeline
    BY DEF ValidHistoriesAreKnown, EdgesOf
  <2>1. childRangesAgree(h.edges)' <=> childRangesAgree(h.edges)
    BY <1>1 DEF childRangesAgree, rangesForTimeline, rangeContains, EdgesOf
  <2>2. h \in histories
    BY <1>1, <1>2, <1>3
  <2> QED
    BY <1>1, <2>1, <2>2 DEF AncestryInv, ValidHistoriesAreKnown
<1>7. HealthyAncestryIsComplete'
  <2> SUFFICES ASSUME timelineState' = Healthy
               PROVE  HealthyAncestryIsComplete'
    BY DEF HealthyAncestryIsComplete
  <2>1. \A h \in histories' : h.state = Healthy
    BY <1>1, <1>2
  <2>2. missing = {} /\ histories' = histories
    BY <1>1, <1>2, <1>3, <2>1
  <2>3. MissingTimelines = {}
    BY <2>2
  <2>4. \A h \in histories : \E e \in EdgesOf(h.edges) : e.child = h.timeline
    BY <2>1, <2>2 DEF AncestryInv, ValidHistoriesAreKnown
  <2>5. \A h \in histories : h.edges # <<>>
    BY <2>4 DEF EdgesOf
  <2>6. \A t \in DOMAIN listed : listed[t] > 0 => \E h \in histories : h.timeline = t
    BY <1>1 DEF AncestryInv, ListedAreJudged
  <2>7. \A t \in observedTimelines : t > 1 =>
          \E h \in histories : \E e \in EdgesOf(h.edges) : e.child = t
    <3> SUFFICES ASSUME NEW t \in observedTimelines, t > 1
                 PROVE  \E h \in histories : \E e \in EdgesOf(h.edges) : e.child = t
      OBVIOUS
    <3>1. CASE t \in KnownChildren
      BY <3>1 DEF KnownChildren
    <3>2. CASE t \in DOMAIN listed /\ listed[t] # 0
      <4>1. listed \in [DOMAIN listed -> Nat]
        BY AncestryAssumption DEF AncestryInv, AncestryTypeOK
      <4>2. listed[t] > 0
        BY <3>2, <4>1
      <4>3. PICK h \in histories : h.timeline = t
        BY <2>6, <3>2, <4>2
      <4> QED
        BY <2>4, <4>3
    <3> QED
      BY <2>3, <3>1, <3>2 DEF MissingTimelines
  <2>8. observedTimelines # {} \/ histories # {}
    BY <1>1, <1>2
  <2>9. observedTimelines' = observedTimelines
    BY <1>1 DEF observedTimelines
  <2> QED
    BY <1>1, <2>1, <2>2, <2>5, <2>6, <2>7, <2>8, <2>9 DEF HealthyAncestryIsComplete, EdgesOf
<1> QED
  BY <1>4, <1>5, <1>6, <1>7 DEF AncestryInv

LEMMA TruncateStep ==
  ASSUME AncestryInv, TruncateHistories
  PROVE  AncestryInv'
<1>1. timelineState' = Unknown /\ Unknown # Healthy
  BY DEF TruncateHistories, AncestryInv, NoEarlyVerdict, Unknown, Healthy
<1>2. AncestryTypeOK' /\ KnownEdgesAgree' /\ ListedAreJudged' /\ NoEarlyVerdict'
  BY DEF TruncateHistories, AncestryInv, AncestryTypeOK, KnownEdgesAgree, ListedAreJudged,
     NoEarlyVerdict
<1>3. ValidHistoriesAreKnown'
  BY DEF TruncateHistories, ValidHistoriesAreKnown
<1>4. HealthyAncestryIsComplete'
  BY <1>1 DEF HealthyAncestryIsComplete
<1> QED
  BY <1>2, <1>3, <1>4 DEF AncestryInv

LEMMA AncestryInvStep == AncestryInv /\ [AncestryNext]_ancestryVars => AncestryInv'
<1> SUFFICES ASSUME AncestryInv, [AncestryNext]_ancestryVars PROVE AncestryInv'
  OBVIOUS
<1>1. ASSUME NEW t \in todo, RefuseDuplicates(t) PROVE AncestryInv'
  BY <1>1, EmptyStep DEF RefuseDuplicates
<1>2. ASSUME NEW t \in todo, FailHistory(t) PROVE AncestryInv'
  BY <1>2, EmptyStep DEF FailHistory
<1>3. ASSUME NEW t \in todo, NEW entries \in Contents, RejectHistory(t, entries)
      PROVE  AncestryInv'
  BY <1>3, EmptyStep DEF RejectHistory
<1>4. ASSUME NEW t \in todo, NEW entries \in Contents, ContradictHistory(t, entries)
      PROVE  AncestryInv'
  BY <1>4, ContradictStep
<1>5. ASSUME NEW t \in todo, NEW entries \in Contents, AcceptHistory(t, entries)
      PROVE  AncestryInv'
  BY <1>5, AcceptStep
<1>6. CASE JudgeAncestry
  BY <1>6, VerdictStep
<1>7. CASE TruncateHistories
  BY <1>7, TruncateStep
<1>8. CASE UNCHANGED ancestryVars
  BY <1>8 DEF ancestryVars, AncestryInv, AncestryTypeOK, KnownEdgesAgree,
     ValidHistoriesAreKnown, ListedAreJudged, NoEarlyVerdict, HealthyAncestryIsComplete,
     childRangesAgree, rangesForTimeline, rangeContains, EdgesOf, observedTimelines
<1> QED
  BY <1>1, <1>2, <1>3, <1>4, <1>5, <1>6, <1>7, <1>8 DEF AncestryNext

(* Following the backups leaves the histories as they were judged. *)
LEMMA CoverageKeepsAncestry ==
  ASSUME AncestryInv, UNCHANGED <<wal, listed, todo, histories, known, timelineState>>,
         phase = "judged", phase' \in {"judged", "done"}
  PROVE  AncestryInv'
BY DEF AncestryInv, AncestryTypeOK, KnownEdgesAgree, ValidHistoriesAreKnown, ListedAreJudged,
   NoEarlyVerdict, HealthyAncestryIsComplete, childRangesAgree, rangesForTimeline,
   rangeContains, EdgesOf, observedTimelines

LEMMA RecoveryStep == AncestryInv /\ [Next]_vars => AncestryInv'
<1> SUFFICES ASSUME AncestryInv, [Next]_vars PROVE AncestryInv'
  OBVIOUS
<1>1. CASE JudgeHistories
  BY <1>1, AncestryInvStep DEF JudgeHistories
<1>2. CASE RefuseConflicting \/ SkipBackup \/ RejectAnchors \/ FollowBackup \/ StopAtLimit
  <2>1. UNCHANGED ancestryVars
    BY <1>2 DEF RefuseConflicting, SkipBackup, RejectAnchors, FollowBackup, StopAtLimit
  <2> QED
    BY <2>1, AncestryInvStep
<1>3. CASE RollUpRecovery
  BY <1>3, CoverageKeepsAncestry DEF RollUpRecovery
<1>4. CASE UNCHANGED vars
  BY <1>4, AncestryInvStep DEF vars
<1> QED
  BY <1>1, <1>2, <1>3, <1>4 DEF Next

LEMMA AncestryInvariance == Spec => []AncestryInv
<1>1. Init => AncestryInv
  BY AncestryInit DEF Init
<1> QED
  BY <1>1, RecoveryStep, PTL DEF Spec

(* analyzeHistories keeps its catalog of histories and edges well formed,  *)
(* whatever the history objects hold.                                      *)
THEOREM AncestryTypeCorrect == Spec => []AncestryTypeOK
<1>1. AncestryInv => AncestryTypeOK
  BY DEF AncestryInv
<1> QED
  BY <1>1, AncestryInvariance, PTL

(* Valid histories agree on each child's parent and switchpoint, and its   *)
(* archive begins with the switch segment: an edge is checked against all  *)
(* that were read before, so that no later history can overturn it.        *)
THEOREM HistoryAgreement == Spec => []ValidHistoriesAgree
<1>1. AncestryInv => ValidHistoriesAgree
  <2> SUFFICES ASSUME AncestryInv,
                      NEW g \in histories, g.state = Healthy,
                      NEW h \in histories, h.state = Healthy,
                      NEW e \in EdgesOf(g.edges), NEW f \in EdgesOf(h.edges)
               PROVE  /\ e.child = f.child => e = f
                      /\ \A r \in wal.ranges : r.timeline = e.child => r.start >= e.position
                      /\ rangesForTimeline(e.child) # {} => rangeContains(e.child, e.position)
    BY DEF ValidHistoriesAgree
  <2>1. e \in known /\ f \in known /\ childRangesAgree(g.edges)
    BY DEF AncestryInv, ValidHistoriesAreKnown
  <2>2. e.child = f.child => e = f
    BY <2>1 DEF AncestryInv, KnownEdgesAgree
  <2>3. rangesForTimeline(e.child) # {} =>
          /\ \A r \in rangesForTimeline(e.child) : r.start >= e.position
          /\ rangeContains(e.child, e.position)
    BY <2>1 DEF childRangesAgree
  <2>4. \A r \in wal.ranges : r.timeline = e.child => r \in rangesForTimeline(e.child)
    BY DEF rangesForTimeline
  <2> QED
    BY <2>2, <2>3, <2>4
<1> QED
  BY <1>1, AncestryInvariance, PTL

(* Ancestry is called healthy only when nothing that it takes is missing:  *)
(* each listed history is valid and each timeline of the archive is        *)
(* branched off in one.                                                    *)
THEOREM AncestryCompleteness == Spec => []HealthyAncestryIsComplete
<1>1. AncestryInv => HealthyAncestryIsComplete
  BY DEF AncestryInv
<1> QED
  BY <1>1, AncestryInvariance, PTL

-----------------------------------------------------------------------------
(* Sets in order *)

LEMMA LeastElement ==
  ASSUME NEW S \in SUBSET Nat, S # {}
  PROVE  \E x \in S : \A y \in S : x <= y
<1>1. PICK x \in S : \A y \in S : ~(<<y, x>> \in OpToRel(<, Nat))
  BY NatLessThanWellFounded, WFMin
<1>2. \A y \in S : ~(y < x)
  BY <1>1, Zenon DEF OpToRel
<1> QED
  BY <1>2

(* R puts S into one line. *)
Orders(R, S) ==
  /\ \A x, y \in S : x # y => <<x, y>> \in R \/ <<y, x>> \in R
  /\ \A x, y, z \in S : <<x, y>> \in R /\ <<y, z>> \in R => <<x, z>> \in R
  /\ \A x \in S : <<x, x>> \notin R

InLine(f, n, R) == \A i, j \in 1 .. n : i < j => <<f[i], f[j]>> \in R

(* One element more finds its place. *)
LEMMA Insertion ==
  ASSUME NEW S, NEW x, x \notin S, NEW R, Orders(R, S \cup {x}), NEW n \in Nat,
         NEW f \in [1 .. n -> S], InLine(f, n, R)
  PROVE  \E g \in [1 .. n + 1 -> S \cup {x}] : InLine(g, n + 1, R)
<1> DEFINE after == {i \in 1 .. n : <<x, f[i]>> \in R} \cup {n + 1}
<1>1. PICK k \in after : \A i \in after : k <= i
  <2>1. after \in SUBSET Nat /\ after # {}
    OBVIOUS
  <2> QED
    BY <2>1, LeastElement
<1>2. k \in 1 .. n + 1 /\ (k <= n => <<x, f[k]>> \in R)
  BY <1>1
<1>3. \A i \in 1 .. n : i < k => <<f[i], x>> \in R
  <2> SUFFICES ASSUME NEW i \in 1 .. n, i < k PROVE <<f[i], x>> \in R
    OBVIOUS
  <2>1. i \notin after
    BY <1>1, <1>2
  <2>2. <<x, f[i]>> \notin R /\ f[i] \in S
    BY <2>1
  <2> QED
    BY <2>2 DEF Orders
<1>4. \A i \in 1 .. n : i >= k => <<x, f[i]>> \in R
  <2> SUFFICES ASSUME NEW i \in 1 .. n, i >= k PROVE <<x, f[i]>> \in R
    OBVIOUS
  <2>1. k \in 1 .. n /\ <<x, f[k]>> \in R /\ f[k] \in S /\ f[i] \in S
    BY <1>2
  <2>2. k = i \/ <<f[k], f[i]>> \in R
    BY <1>2, <2>1 DEF InLine
  <2> QED
    BY <2>1, <2>2 DEF Orders
<1> DEFINE g == [i \in 1 .. n + 1 |-> IF i < k THEN f[i] ELSE IF i = k THEN x ELSE f[i - 1]]
<1>5. g \in [1 .. n + 1 -> S \cup {x}]
  BY <1>2
<1>6. InLine(g, n + 1, R)
  <2> SUFFICES ASSUME NEW i \in 1 .. n + 1, NEW j \in 1 .. n + 1, i < j
               PROVE  <<g[i], g[j]>> \in R
    BY DEF InLine
  <2>1. CASE j < k
    BY <1>2, <2>1 DEF InLine
  <2>2. CASE j = k
    BY <1>2, <1>3, <2>2
  <2>3. CASE j > k /\ i < k
    <3>1. j - 1 \in 1 .. n /\ i \in 1 .. n /\ g[i] = f[i] /\ g[j] = f[j - 1]
      BY <1>2, <2>3
    <3>2. i < j - 1 
      BY <1>2, <2>3
    <3> QED
      BY <3>1, <3>2 DEF InLine
  <2>4. CASE j > k /\ i = k
    <3>1. j - 1 \in 1 .. n /\ g[i] = x /\ g[j] = f[j - 1] /\ j - 1 >= k
      BY <1>2, <2>4
    <3> QED
      BY <1>4, <3>1
  <2>5. CASE j > k /\ i > k
    <3>1. j - 1 \in 1 .. n /\ i - 1 \in 1 .. n /\ g[i] = f[i - 1] /\ g[j] = f[j - 1] /\ i - 1 < j - 1
      BY <1>2, <2>5
    <3> QED
      BY <3>1 DEF InLine
  <2> QED
    BY <1>2, <2>1, <2>2, <2>3, <2>4, <2>5
<1> HIDE DEF g
<1> QED
  BY <1>5, <1>6

Arranged(n) ==
  \A S, R : IsFiniteSet(S) /\ Cardinality(S) = n /\ Orders(R, S) =>
    \E f \in [1 .. n -> S] : InLine(f, n, R)

LEMMA ArrangedNext ==
  ASSUME NEW n \in Nat, Arranged(n)
  PROVE  Arranged(n + 1)
<1> SUFFICES ASSUME NEW S, NEW R, IsFiniteSet(S), Cardinality(S) = n + 1, Orders(R, S)
             PROVE  \E f \in [1 .. n + 1 -> S] : InLine(f, n + 1, R)
  BY DEF Arranged
<1>1. PICK x \in S : TRUE
  BY FS_EmptySet
<1> DEFINE T == S \ {x}
<1>2. IsFiniteSet(T) /\ Cardinality(T) = n
  BY FS_RemoveElement
<1>3. Orders(R, T)
  BY DEF Orders
<1>4. S = T \cup {x} /\ x \notin T
  OBVIOUS
<1> HIDE DEF T
<1>5. PICK f \in [1 .. n -> T] : InLine(f, n, R)
  BY <1>2, <1>3 DEF Arranged
<1> QED
  BY <1>4, <1>5, Insertion

LEMMA AllArranged == \A n \in Nat : Arranged(n)
<1> DEFINE bad == {n \in Nat : ~Arranged(n)}
<1>1. ASSUME bad # {} PROVE FALSE
  <2>1. PICK m \in bad : \A n \in bad : m <= n
    BY <1>1, LeastElement
  <2>2. CASE m = 0
    <3>1. ASSUME NEW S, NEW R, IsFiniteSet(S), Cardinality(S) = 0
          PROVE  \E f \in [1 .. 0 -> S] : InLine(f, 0, R)
      <4>1. [i \in 1 .. 0 |-> 0] \in [1 .. 0 -> S] /\ InLine([i \in 1 .. 0 |-> 0], 0, R)
        BY DEF InLine
      <4> QED
        BY <4>1
    <3>2. Arranged(0)
      BY <3>1 DEF Arranged
    <3> QED
      BY <2>1, <2>2, <3>2
  <2>3. CASE m # 0
    <3>1. m - 1 \in Nat /\ m - 1 \notin bad
      BY <2>1, <2>3
    <3>2. Arranged(m - 1)
      BY <3>1
    <3>3. Arranged(m - 1 + 1)
      BY <3>1, <3>2, ArrangedNext
    <3>4. m - 1 + 1 = m
      BY <2>1
    <3> QED
      BY <2>1, <3>3, <3>4
  <2> QED
    BY <2>2, <2>3
<1> QED
  BY <1>1

(* Sorted lists each element once. *)
IsListOf(s, S) ==
  /\ s \in Seq(S)
  /\ \A x \in S : \E i \in DOMAIN s : s[i] = x
  /\ \A i, j \in DOMAIN s : s[i] = s[j] => i = j

LEMMA SetCanBeSorted ==
  ASSUME NEW S, IsFiniteSet(S), NEW R, Orders(R, S)
  PROVE  \E s \in SetToSeqs(S) : \A i, j \in DOMAIN s : i < j => <<s[i], s[j]>> \in R
<1> DEFINE n == Cardinality(S)
<1>1. n \in Nat
  BY FS_CardinalityType
<1> HIDE DEF n
<1>2. PICK f \in [1 .. n -> S] : InLine(f, n, R)
  BY <1>1, AllArranged DEF Arranged, n
<1>3. \A i, j \in 1 .. n : i # j => f[i] # f[j]
  <2> SUFFICES ASSUME NEW i \in 1 .. n, NEW j \in 1 .. n, i < j PROVE f[i] # f[j]
    BY <1>1
  <2> QED
    BY <1>2 DEF InLine, Orders
<1>4. f \in SetToSeqs(S)
  BY <1>2, <1>3, Zenon DEF SetToSeqs, n
<1> QED
  BY <1>2, <1>4 DEF InLine

LEMMA SeqOfSet ==
  ASSUME NEW S, IsFiniteSet(S), NEW s \in SetToSeqs(S)
  PROVE  IsListOf(s, S)
<1> DEFINE n == Cardinality(S)
<1>1. n \in Nat
  BY FS_CardinalityType
<1>2. s \in [1 .. n -> S] /\ \A i, j \in 1 .. n : i # j => s[i] # s[j]
  BY Zenon DEF SetToSeqs
<1>3. s \in Injection(1 .. n, S)
  BY <1>2 DEF Injection, IsInjective
<1>4. Cardinality(1 .. n) = n
  BY <1>1, FS_Interval
<1>5. s \in Surjection(1 .. n, S)
  BY <1>3, <1>4, FS_Injection
<1> HIDE DEF n
<1> QED
  BY <1>1, <1>2, <1>5 DEF Surjection, IsListOf

LEMMA SortedNumbers ==
  ASSUME NEW S \in SUBSET Nat, IsFiniteSet(S)
  PROVE  IsListOf(Sorted(S, <), S)
<1> DEFINE R == {p \in S \X S : p[1] < p[2]}
<1>1. Orders(R, S)
  BY DEF Orders
<1>2. \E s \in SetToSeqs(S) : \A i, j \in DOMAIN s : i < j => <<s[i], s[j]>> \in R
  BY <1>1, SetCanBeSorted
<1>3. \E s \in SetToSeqs(S) : \A i, j \in DOMAIN s : i < j => s[i] < s[j]
  BY <1>2
<1>4. Sorted(S, <) \in SetToSeqs(S)
  BY <1>3, Zenon DEF Sorted
<1> HIDE DEF R
<1> QED
  BY <1>4, SeqOfSet

-----------------------------------------------------------------------------
(* The shape of histories *)

LEMMA DivisionIsMonotone ==
  ASSUME NEW a \in Nat, NEW b \in Nat, a <= b, NEW n \in Nat \ {0}
  PROVE  a \div n <= b \div n
OBVIOUS

(* Both columns of a history increase, and each edge leads to the parent   *)
(* of the next.                                                            *)
Chain(edges, last) ==
  /\ edges \in Seq(HistoryEdge)
  /\ Len(edges) <= MaxHistoryEntries
  /\ \A i \in 1 .. Len(edges) : edges[i].parent < edges[i].child
  /\ \A i, j \in 1 .. Len(edges) : i < j =>
       /\ edges[i].child <= edges[j].parent
       /\ edges[i].lsn < edges[j].lsn
       /\ edges[i].position <= edges[j].position
  /\ \A i \in 1 .. Len(edges) : i < Len(edges) => edges[i + 1].parent = edges[i].child
  /\ edges # <<>> => edges[Len(edges)].child = last

LEMMA ParsedChain ==
  ASSUME wal \in ServerWAL, NEW target \in Timelines, NEW entries \in Seq(HistoryRecord),
         PossibleHistory(entries, target)
  PROVE  Chain(ParseHistory(entries, target), target)
<1> DEFINE edges == ParseHistory(entries, target)
           n == Len(entries)
           Child(i) == IF i < n THEN entries[i + 1].parent ELSE target
<1>1. edges \in Seq(HistoryEdge)
  BY ParsedEdges
<1>2. n \in Nat \ {0} /\ DOMAIN entries = 1 .. n /\ n <= MaxHistoryEntries
      /\ wal.segmentSize \in Nat \ {0} /\ target \in Nat
  BY DEF PossibleHistory, ServerWAL, Timelines
<1>3. \A i \in 1 .. n : entries[i].parent \in Nat /\ entries[i].lsn \in Nat
  <2> TAKE i \in 1 .. n
  <2>1. entries[i] \in HistoryRecord
    BY <1>2
  <2> QED
    BY <2>1 DEF HistoryRecord
<1>4. \A i \in 1 .. n : entries[i].parent < target
  BY <1>2, <1>3 DEF PossibleHistory
<1>5. \A i, j \in 1 .. n : i < j => entries[i].parent < entries[j].parent /\ entries[i].lsn < entries[j].lsn
  BY <1>2 DEF PossibleHistory
<1>6. Len(edges) = n /\ DOMAIN edges = 1 .. n
  <2>1. DOMAIN edges = 1 .. n
    BY <1>2 DEF ParseHistory
  <2> HIDE DEF edges
  <2> QED
    BY <1>1, <1>2, <2>1
<1>7. \A i \in 1 .. n : /\ edges[i].parent = entries[i].parent
                        /\ edges[i].child = Child(i)
                        /\ edges[i].lsn = entries[i].lsn
                        /\ edges[i].position = entries[i].lsn \div wal.segmentSize
  BY <1>2 DEF ParseHistory
<1> HIDE DEF edges, n
<1>8. \A i \in 1 .. n : edges[i].parent < edges[i].child
  <2> TAKE i \in 1 .. n
  <2>1. CASE i < n
    <3>1. i + 1 \in 1 .. n /\ i < i + 1
      BY <1>2, <2>1
    <3> QED
      BY <1>5, <1>7, <2>1, <3>1
  <2>2. CASE ~(i < n)
    BY <1>4, <1>7, <2>2
  <2> QED
    BY <2>1, <2>2
<1>9. ASSUME NEW i \in 1 .. n, NEW j \in 1 .. n, i < j
      PROVE  /\ edges[i].child <= edges[j].parent
             /\ edges[i].lsn < edges[j].lsn
             /\ edges[i].position <= edges[j].position
  <2>1. i + 1 \in 1 .. n /\ i < n
    BY <1>2, <1>9
  <2>2. edges[i].child = entries[i + 1].parent
    BY <1>7, <2>1
  <2>3. entries[i + 1].parent <= entries[j].parent
    <3>1. CASE i + 1 = j
      BY <1>3, <3>1
    <3>2. CASE i + 1 < j
      BY <1>3, <1>5, <2>1, <3>2
    <3> QED
      BY <1>2, <1>9, <3>1, <3>2
  <2>4. entries[i].lsn <= entries[j].lsn
    BY <1>3, <1>5, <1>9
  <2>5. edges[i].position <= edges[j].position
    BY <1>2, <1>3, <1>7, <2>4, DivisionIsMonotone
  <2> QED
    BY <1>5, <1>7, <1>9, <2>2, <2>3, <2>5
<1>10. \A i \in 1 .. n : i < n => edges[i + 1].parent = edges[i].child
  <2> TAKE i \in 1 .. n
  <2> HAVE i < n
  <2>1. i + 1 \in 1 .. n
    BY <1>2
  <2> QED
    BY <1>7, <2>1
<1>11. edges[n].child = target
  BY <1>2, <1>7
<1> QED
  BY <1>1, <1>2, <1>6, <1>8, <1>9, <1>10, <1>11 DEF Chain, edges

Listed == {t \in DOMAIN listed : listed[t] > 0}

(* One verdict for each timeline that has history objects, and later for   *)
(* each that lacks one.                                                    *)
ShapeInv ==
  /\ wal \in Archives
  /\ todo \subseteq Listed
  /\ \A h \in histories : Chain(h.edges, h.timeline)
  /\ \A g, h \in histories : g.timeline = h.timeline => g = h
  /\ phase = "reading" => \A h \in histories : h.timeline \in Listed \ todo
  /\ phase # "reading" => \A h \in histories : h.timeline \in Listed \cup MissingTimelines

LEMMA EmptyChain == \A t : Chain(<<>>, t)
BY AncestryAssumption DEF Chain

LEMMA JudgeShape ==
  ASSUME ShapeInv, NEW t, NextTimeline(t), NEW state, NEW edges, Chain(edges, t),
         Judge(t, state, edges)
  PROVE  ShapeInv'
<1> DEFINE judged == [timeline |-> t, state |-> state, edges |-> edges]
<1>1. /\ wal' = wal /\ listed' = listed /\ phase' = "reading" /\ phase = "reading"
      /\ todo' = todo \ {t} /\ t \in todo
      /\ histories' = histories \cup {judged}
  BY DEF Judge, NextTimeline
<1>2. judged.timeline = t /\ judged.edges = edges
  OBVIOUS
<1> HIDE DEF judged
<1>3. \A h \in histories : h.timeline # t
  BY <1>1 DEF ShapeInv
<1> QED
  BY <1>1, <1>2, <1>3 DEF ShapeInv, Listed

LEMMA ShapeStep ==
  ASSUME ShapeInv, AncestryInv, [Next]_vars
  PROVE  ShapeInv'
<1>1. ASSUME NEW t, NextTimeline(t), Judge(t, Unknown, <<>>)
      PROVE  ShapeInv'
  BY <1>1, EmptyChain, JudgeShape
<1>2. ASSUME NEW t, NEW entries \in Contents, NextTimeline(t), PossibleHistory(entries, t),
             NEW state, Judge(t, state, ParseHistory(entries, t))
      PROVE  ShapeInv'
  <2>1. wal \in ServerWAL /\ t \in Timelines /\ entries \in Seq(HistoryRecord)
    BY <1>2, AncestryAssumption DEF NextTimeline, AncestryInv, AncestryTypeOK
  <2> QED
    BY <1>2, <2>1, ParsedChain, JudgeShape
<1>3. CASE JudgeAncestry
  <2> DEFINE Missing(t) == [timeline |-> t, state |-> Unknown, edges |-> <<>>]
  <2>1. /\ wal' = wal /\ listed' = listed /\ phase' = "judged" /\ phase = "reading"
        /\ todo' = todo
        /\ histories' = histories \cup {Missing(t) : t \in MissingTimelines}
    BY <1>3 DEF JudgeAncestry
  <2>2. \A t \in MissingTimelines : t \notin Listed
    BY DEF MissingTimelines, Listed
  <2>3. \A t : Missing(t).timeline = t /\ Missing(t).edges = <<>> /\ Missing(t).state # Healthy
    BY DEF Unknown, Healthy
  <2>4. \A s, t : s = t => Missing(s) = Missing(t)
    OBVIOUS
  <2> HIDE DEF Missing
  <2>5. MissingTimelines' = MissingTimelines
    <3>1. {g \in histories' : g.state = Healthy} = {g \in histories : g.state = Healthy}
      BY <2>1, <2>3
    <3>2. KnownChildren' = KnownChildren
      BY <3>1 DEF KnownChildren, EdgesOf
    <3>3. observedTimelines' = observedTimelines
      BY <2>1 DEF observedTimelines
    <3> QED
      BY <2>1, <3>2, <3>3 DEF MissingTimelines
  <2>6. \A h \in histories' : Chain(h.edges, h.timeline)
    BY <2>1, <2>3, EmptyChain DEF ShapeInv
  <2>7. \A g, h \in histories' : g.timeline = h.timeline => g = h
    <3> TAKE g, h \in histories'
    <3> HAVE g.timeline = h.timeline
    <3>1. CASE g \in histories /\ h \in histories
      BY <3>1 DEF ShapeInv
    <3>2. ASSUME NEW s \in MissingTimelines, g = Missing(s) PROVE g = h
      BY <2>1, <2>2, <2>3, <2>4, <3>2 DEF ShapeInv
    <3>3. ASSUME NEW s \in MissingTimelines, h = Missing(s) PROVE g = h
      BY <2>1, <2>2, <2>3, <2>4, <3>3 DEF ShapeInv
    <3> QED
      BY <2>1, <3>1, <3>2, <3>3
  <2>8. \A h \in histories' : h.timeline \in Listed \cup MissingTimelines
    BY <2>1, <2>3 DEF ShapeInv
  <2>9. Listed' = Listed
    BY <2>1 DEF Listed
  <2> QED
    BY <2>1, <2>5, <2>6, <2>7, <2>8, <2>9 DEF ShapeInv
<1>4. CASE TruncateHistories
  BY <1>4 DEF TruncateHistories, ShapeInv, Listed
<1>5. CASE UNCHANGED <<wal, listed, todo, histories>> /\ (phase' = "reading" <=> phase = "reading")
  <2>1. MissingTimelines' = MissingTimelines /\ Listed' = Listed
    BY <1>5 DEF MissingTimelines, KnownChildren, observedTimelines, EdgesOf, Listed
  <2> QED
    BY <1>5, <2>1 DEF ShapeInv
<1>6. CASE JudgeHistories
  BY <1>1, <1>2, <1>3, <1>4, <1>6 DEF JudgeHistories, AncestryNext, RefuseDuplicates, FailHistory,
     RejectHistory, ContradictHistory, AcceptHistory
<1>7. CASE RefuseConflicting \/ SkipBackup \/ RejectAnchors \/ FollowBackup \/ StopAtLimit
  BY <1>5, <1>7 DEF RefuseConflicting, SkipBackup, RejectAnchors, FollowBackup, StopAtLimit, ancestryVars
<1>8. CASE RollUpRecovery
  BY <1>5, <1>8 DEF RollUpRecovery
<1>9. CASE UNCHANGED vars
  BY <1>5, <1>9 DEF vars, ancestryVars
<1> QED
  BY <1>6, <1>7, <1>8, <1>9 DEF Next

LEMMA ShapeInit == Start => ShapeInv
BY DEF Start, ShapeInv, Listed

-----------------------------------------------------------------------------
(* The timelines that are met from a backup *)

LEMMA ChainPart ==
  ASSUME NEW edges, NEW last, Chain(edges, last),
         NEW k \in 1 .. Len(edges), NEW m \in 1 .. Len(edges), k <= m
  PROVE  LET part == SubSeq(edges, k, m)
         IN  /\ Chain(part, edges[m].child)
             /\ Len(part) = m - k + 1
             /\ \A i \in 1 .. Len(part) : part[i] = edges[k + i - 1]
             /\ EdgesOf(part) \subseteq EdgesOf(edges)
<1> DEFINE part == SubSeq(edges, k, m)
<1>1. /\ edges \in Seq(HistoryEdge) /\ Len(edges) \in Nat /\ Len(edges) <= MaxHistoryEntries
      /\ MaxHistoryEntries \in Nat
  BY AncestryAssumption DEF Chain
<1>2. /\ part \in Seq(HistoryEdge) /\ Len(part) = m - k + 1
      /\ \A i \in 1 .. m - k + 1 : part[i] = edges[k + i - 1]
  <2>1. /\ part \in Seq(HistoryEdge)
        /\ Len(part) = IF k <= m THEN m - k + 1 ELSE 0
        /\ \A i \in 1 .. m - k + 1 : part[i] = edges[k + i - 1]
    BY <1>1, SubSeqProperties
  <2> QED
    BY <2>1
<1> HIDE DEF part
<1>3. \A i \in 1 .. Len(part) : k + i - 1 \in 1 .. Len(edges) /\ part[i] = edges[k + i - 1]
  BY <1>1, <1>2
<1>4. EdgesOf(part) \subseteq EdgesOf(edges)
  BY <1>1, <1>2, <1>3 DEF EdgesOf
<1>5. \A i \in 1 .. Len(part) : part[i].parent < part[i].child
  BY <1>3 DEF Chain
<1>6. \A i, j \in 1 .. Len(part) : i < j =>
        /\ part[i].child <= part[j].parent
        /\ part[i].lsn < part[j].lsn
        /\ part[i].position <= part[j].position
  <2> TAKE i, j \in 1 .. Len(part)
  <2> HAVE i < j
  <2>1. k + i - 1 < k + j - 1
    BY <1>1, <1>2
  <2> QED
    BY <1>3, <2>1 DEF Chain
<1>7. \A i \in 1 .. Len(part) : i < Len(part) => part[i + 1].parent = part[i].child
  <2> TAKE i \in 1 .. Len(part)
  <2> HAVE i < Len(part)
  <2>1. i + 1 \in 1 .. Len(part) /\ k + (i + 1) - 1 = (k + i - 1) + 1 /\ k + i - 1 < Len(edges)
    BY <1>1, <1>2
  <2> QED
    BY <1>3, <2>1 DEF Chain
<1>8. part[Len(part)].child = edges[m].child /\ Len(part) <= MaxHistoryEntries
  <2>1. Len(part) \in 1 .. Len(part) /\ k + Len(part) - 1 = m
    BY <1>1, <1>2
  <2> QED
    BY <1>1, <1>2, <1>3, <2>1
<1> QED
  BY <1>2, <1>3, <1>4, <1>5, <1>6, <1>7, <1>8 DEF Chain, part

(* Edges that lead from one timeline to another. *)
Lead(edges, from, to) ==
  /\ Chain(edges, to)
  /\ edges # <<>>
  /\ edges[1].parent = from

LEMMA DescentFacts ==
  ASSUME ShapeInv, AncestryInv, NEW backup, NEW h \in Continuing(backup)
  PROVE  LET d == Descent(h, backup)
         IN  /\ h \in histories /\ h.state = Healthy
             /\ Lead(d, backup.beginTimeline, h.timeline)
             /\ EdgesOf(d) \subseteq EdgesOf(h.edges)
             /\ \E k \in 1 .. Len(h.edges) : /\ Len(d) = Len(h.edges) - k + 1
                                             /\ \A i \in 1 .. Len(d) : d[i] = h.edges[k + i - 1]
<1> DEFINE d == Descent(h, backup)
           from == {i \in DOMAIN h.edges : h.edges[i].parent = backup.beginTimeline}
           k == CHOOSE i \in from : TRUE
           n == Len(h.edges)
<1>1. h \in histories /\ h.state = Healthy /\ d # <<>>
  BY DEF Continuing
<1>2. Chain(h.edges, h.timeline) /\ h.edges \in Seq(HistoryEdge) /\ DOMAIN h.edges = 1 .. n /\ n \in Nat
  <2>1. Chain(h.edges, h.timeline)
    BY <1>1 DEF ShapeInv
  <2> QED
    BY <2>1 DEF Chain
<1>3. from # {} /\ d = SubSeq(h.edges, k, n)
  BY <1>1 DEF Descent, descendantEdges
<1>4. k \in 1 .. n /\ h.edges[k].parent = backup.beginTimeline
  BY <1>2, <1>3
<1> HIDE DEF d, k, from
<1>5. n \in 1 .. n /\ k <= n
  BY <1>2, <1>4
<1>6. /\ Chain(d, h.edges[n].child) /\ Len(d) = n - k + 1
      /\ \A i \in 1 .. Len(d) : d[i] = h.edges[k + i - 1]
      /\ EdgesOf(d) \subseteq EdgesOf(h.edges)
  BY <1>2, <1>3, <1>4, <1>5, ChainPart
<1>7. h.edges[n].child = h.timeline
  <2>1. h.edges # <<>>
    BY <1>2, <1>5
  <2> QED
    BY <1>2, <2>1 DEF Chain
<1>8. d[1].parent = backup.beginTimeline
  <2>1. 1 \in 1 .. Len(d) /\ k + 1 - 1 = k
    BY <1>2, <1>4, <1>6
  <2> QED
    BY <1>4, <1>6, <2>1
<1> QED
  BY <1>1, <1>4, <1>6, <1>7, <1>8 DEF Lead, d

Target == [timeline : Timelines, edges : Seq(HistoryEdge), via : Timelines]

LEMMA MetFacts ==
  ASSUME ShapeInv, AncestryInv, NEW backup, NEW target \in Met(backup)
  PROVE  \E h \in Continuing(backup) \ TooEarly(backup) : \E i \in 1 .. Len(Descent(h, backup)) :
           /\ target = [timeline |-> Descent(h, backup)[i].child,
                        edges |-> SubSeq(Descent(h, backup), 1, i), via |-> h.timeline]
           /\ target \in Target
           /\ target.timeline = Descent(h, backup)[i].child
           /\ target.edges = SubSeq(Descent(h, backup), 1, i)
           /\ target.via = h.timeline
           /\ Len(target.edges) = i
           /\ Lead(target.edges, backup.beginTimeline, target.timeline)
           /\ EdgesOf(target.edges) \subseteq EdgesOf(h.edges)
           /\ target.edges[1] = Descent(h, backup)[1]
<1>1. PICK h \in Continuing(backup) \ TooEarly(backup) : \E i \in DOMAIN Descent(h, backup) :
           target = [timeline |-> Descent(h, backup)[i].child,
                     edges |-> SubSeq(Descent(h, backup), 1, i), via |-> h.timeline]
  BY Zenon DEF Met
<1> DEFINE d == Descent(h, backup)
<1>2. /\ h \in histories
      /\ Lead(d, backup.beginTimeline, h.timeline)
      /\ EdgesOf(d) \subseteq EdgesOf(h.edges)
  BY DescentFacts
<1> HIDE DEF d
<1>3. d \in Seq(HistoryEdge) /\ DOMAIN d = 1 .. Len(d) /\ Len(d) \in Nat
  BY <1>2 DEF Lead, Chain
<1>4. PICK i \in 1 .. Len(d) : target = [timeline |-> d[i].child, edges |-> SubSeq(d, 1, i), via |-> h.timeline]
  BY <1>1, <1>3 DEF d
<1>5. 1 \in 1 .. Len(d) /\ 1 <= i /\ d[i] \in HistoryEdge
  BY <1>3
<1> DEFINE part == SubSeq(d, 1, i)
<1>6. /\ Chain(part, d[i].child)
      /\ Len(part) = i - 1 + 1
      /\ \A j \in 1 .. Len(part) : part[j] = d[1 + j - 1]
      /\ EdgesOf(part) \subseteq EdgesOf(d)
  BY <1>2, <1>5, ChainPart DEF Lead
<1>7. Len(part) = i /\ part[1] = d[1] /\ part # <<>>
  <2>1. Len(part) = i
    BY <1>3, <1>6
  <2>2. 1 \in 1 .. Len(part) /\ 1 + 1 - 1 = 1
    BY <1>5, <2>1
  <2> QED
    BY <1>6, <2>1, <2>2
<1> HIDE DEF part
<1>8. /\ target = [timeline |-> d[i].child, edges |-> part, via |-> h.timeline]
      /\ target.timeline = d[i].child /\ target.edges = part /\ target.via = h.timeline
  BY <1>4 DEF part
<1>9. h.timeline \in Timelines /\ d[i].child \in Timelines /\ part \in Seq(HistoryEdge)
  BY <1>2, <1>5, <1>6 DEF AncestryInv, AncestryTypeOK, TimelineHistory, HistoryEdge, Chain
<1>10. target \in Target
  BY <1>8, <1>9 DEF Target
<1>11. Lead(part, backup.beginTimeline, d[i].child)
  BY <1>2, <1>6, <1>7 DEF Lead
<1> QED
  BY <1>2, <1>6, <1>7, <1>8, <1>10, <1>11 DEF d, part

LEMMA ChildrenIncrease ==
  ASSUME NEW edges, NEW to, Chain(edges, to), NEW i \in 1 .. Len(edges), NEW j \in 1 .. Len(edges), i < j
  PROVE  edges[i].child < edges[j].child
<1>1. edges[i] \in HistoryEdge /\ edges[j] \in HistoryEdge
  BY DEF Chain
<1>2. edges[i].child <= edges[j].parent /\ edges[j].parent < edges[j].child
  BY DEF Chain
<1> QED
  BY <1>1, <1>2 DEF HistoryEdge, Timelines

LEMMA MetIsUnique ==
  ASSUME ShapeInv, AncestryInv, NEW backup, NEW s \in Met(backup), NEW t \in Met(backup), s.via = t.via,
         s.timeline = t.timeline \/ Len(s.edges) = Len(t.edges)
  PROVE  s = t
<1> DEFINE At(target, h, i) ==
             /\ target = [timeline |-> Descent(h, backup)[i].child,
                          edges |-> SubSeq(Descent(h, backup), 1, i), via |-> h.timeline]
             /\ target.timeline = Descent(h, backup)[i].child
             /\ target.via = h.timeline
             /\ Len(target.edges) = i
<1>1. PICK g \in Continuing(backup) : \E i \in 1 .. Len(Descent(g, backup)) : At(s, g, i)
  BY MetFacts
<1>2. PICK h \in Continuing(backup) : \E j \in 1 .. Len(Descent(h, backup)) : At(t, h, j)
  BY MetFacts
<1>3. g = h
  BY <1>1, <1>2 DEF Continuing, ShapeInv
<1> DEFINE d == Descent(h, backup)
<1>4. Chain(d, h.timeline) /\ d \in Seq(HistoryEdge)
  BY <1>2, DescentFacts DEF Lead, Chain
<1>5. \A k, l \in 1 .. Len(d) : k < l => d[k].child < d[l].child
  BY <1>4, ChildrenIncrease
<1>6. \A k \in 1 .. Len(d) : d[k].child \in Nat
  <2> TAKE k \in 1 .. Len(d)
  <2>1. d[k] \in HistoryEdge
    BY <1>4
  <2> QED
    BY <2>1 DEF HistoryEdge, Timelines
<1>7. PICK i \in 1 .. Len(d) : At(s, h, i)
  BY <1>1, <1>3
<1>8. PICK j \in 1 .. Len(d) : At(t, h, j)
  BY <1>2
<1>9. i = j
  <2>1. CASE Len(s.edges) = Len(t.edges)
    BY <1>7, <1>8, <2>1
  <2>2. CASE s.timeline = t.timeline
    <3>1. d[i].child = d[j].child
      BY <1>7, <1>8, <2>2
    <3> HIDE DEF d
    <3> QED
      BY <1>4, <1>5, <1>6, <3>1
  <2> QED
    BY <2>1, <2>2
<1> QED
  BY <1>7, <1>8, <1>9

LEMMA FiniteTimelines ==
  ASSUME ShapeInv, AncestryInv
  PROVE  /\ IsFiniteSet(observedTimelines) /\ observedTimelines \subseteq Timelines
         /\ IsFiniteSet(Listed) /\ Listed \subseteq Timelines
         /\ Cardinality(Listed) <= MaxHistoryFiles
<1>1. wal \in ServerWAL /\ IsFiniteSet(wal.ranges) /\ wal.ranges \subseteq WALRange
  BY AncestryAssumption DEF ShapeInv, ServerWAL
<1>2. IsFiniteSet(observedTimelines) /\ observedTimelines \subseteq Timelines
  <2> DEFINE f == [r \in wal.ranges |-> r.timeline]
  <2>1. f \in Surjection(wal.ranges, observedTimelines)
    BY DEF Surjection, observedTimelines
  <2> QED
    BY <1>1, <2>1, FS_Surjection DEF observedTimelines, WALRange
<1>3. /\ listed \in Listings /\ DOMAIN listed \subseteq Timelines /\ listed \in [DOMAIN listed -> Nat]
      /\ IsFiniteSet(Objects(listed)) /\ Cardinality(Objects(listed)) <= MaxHistoryFiles
      /\ MaxHistoryFiles \in Nat
  BY AncestryAssumption DEF AncestryInv, AncestryTypeOK
<1> DEFINE f == [t \in Listed |-> <<t, 1>>]
<1>4. \A t \in Listed : <<t, 1>> \in Objects(listed)
  <2> TAKE t \in Listed
  <2>1. t \in DOMAIN listed /\ listed[t] \in Nat /\ listed[t] > 0
    BY <1>3 DEF Listed
  <2>2. <<t, 1>> \in {t} \X (1 .. listed[t])
    BY <2>1
  <2> QED
    BY <2>1, <2>2 DEF Objects
<1>5. f \in Injection(Listed, Objects(listed))
  BY <1>4 DEF Injection, IsInjective
<1>6. IsFiniteSet(Listed) /\ Cardinality(Listed) <= Cardinality(Objects(listed))
  BY <1>3, <1>5, FS_Injection
<1>7. Cardinality(Listed) \in Nat /\ Cardinality(Objects(listed)) \in Nat
  BY <1>3, <1>6, FS_CardinalityType
<1> QED
  BY <1>2, <1>3, <1>6, <1>7 DEF Listed

LEMMA TargetsList ==
  ASSUME ShapeInv, AncestryInv, NEW backup
  PROVE  IsListOf(Targets(backup), FirstMet(backup))
<1> DEFINE S == FirstMet(backup)
           R == {p \in S \X S : FoundBefore(p[1], p[2])}
           vias == Listed \cup observedTimelines
           f == [s \in S |-> <<s.via, Len(s.edges)>>]
<1>1. S \subseteq Met(backup)
  BY DEF FirstMet
<1>2. \A s \in S : /\ s.via \in vias /\ s.via \in Nat
                   /\ Len(s.edges) \in 1 .. MaxHistoryEntries
  <2> TAKE s \in S
  <2>1. PICK h \in Continuing(backup) \ TooEarly(backup) : \E i \in 1 .. Len(Descent(h, backup)) :
           /\ s \in Target
           /\ s.via = h.timeline
           /\ Len(s.edges) = i
           /\ Lead(s.edges, backup.beginTimeline, s.timeline)
    BY <1>1, MetFacts
  <2>2. h \in histories
    BY DEF Continuing
  <2>3. h.timeline \in vias
    BY <2>2 DEF ShapeInv, MissingTimelines
  <2> QED
    BY <2>1, <2>3, AncestryAssumption DEF Target, Timelines, Lead, Chain
<1>3. IsFiniteSet(vias \X (1 .. MaxHistoryEntries))
  <2>1. IsFiniteSet(vias)
    BY FiniteTimelines, FS_Union
  <2>2. IsFiniteSet(1 .. MaxHistoryEntries)
    BY FS_Interval, AncestryAssumption
  <2> HIDE DEF vias
  <2> QED
    BY <2>1, <2>2, FS_Product
<1>4. f \in Injection(S, vias \X (1 .. MaxHistoryEntries))
  <2>1. f \in [S -> vias \X (1 .. MaxHistoryEntries)]
    BY <1>2
  <2>2. \A s, t \in S : f[s] = f[t] => s = t
    BY <1>1, MetIsUnique
  <2> QED
    BY <2>1, <2>2 DEF Injection, IsInjective
<1>5. IsFiniteSet(S)
  BY <1>3, <1>4, FS_Injection
<1>6. \A s, t \in S : s.via = t.via /\ Len(s.edges) = Len(t.edges) => s = t
  BY <1>1, MetIsUnique
<1> HIDE DEF S, vias, f
<1>7. \A s, t \in S : <<s, t>> \in R <=> FoundBefore(s, t)
  OBVIOUS
<1>8. Orders(R, S)
  BY <1>2, <1>6, <1>7 DEF Orders, FoundBefore
<1> HIDE DEF R
<1>9. \E s \in SetToSeqs(S) : \A i, j \in DOMAIN s : i < j => <<s[i], s[j]>> \in R
  BY <1>5, <1>8, SetCanBeSorted
<1>10. \E s \in SetToSeqs(S) : \A i, j \in DOMAIN s : i < j => FoundBefore(s[i], s[j])
  BY <1>9, Zenon DEF R
<1>11. Targets(backup) \in SetToSeqs(S)
  BY <1>10, Zenon DEF Targets, Sorted, S
<1> QED
  BY <1>5, <1>11, SeqOfSet DEF S

LEMMA LostList ==
  ASSUME ShapeInv, AncestryInv, NEW backup
  PROVE  IsListOf(Sorted(Unconnected(backup), <), Unconnected(backup))
<1>1. Unconnected(backup) \subseteq observedTimelines
  BY DEF Unconnected
<1>2. IsFiniteSet(Unconnected(backup)) /\ Unconnected(backup) \in SUBSET Nat
  BY <1>1, FiniteTimelines, FS_Subset DEF Timelines
<1> QED
  BY <1>2, SortedNumbers

-----------------------------------------------------------------------------
(* Following the archive on one timeline *)

Reach == [frontier : Nat, state : State, stop : CoverageStop]

(* What ContinuityAssumption says of the archive at hand. *)
LEMMA ArchiveFacts ==
  ASSUME ShapeInv
  PROVE  /\ wal \in ServerWAL
         /\ \A r \in wal.ranges : r \in WALRange /\ r.start <= r.end
         /\ \A r, s \in wal.ranges : r.timeline = s.timeline /\ r # s =>
              r.end + 1 < s.start \/ s.end + 1 < r.start
         /\ \A r \in wal.ranges :
              wal.state # Unknown /\ (\E s \in wal.ranges : s.timeline = r.timeline /\ s.start > r.end)
              => \E gap \in wal.gaps : gap.timeline = r.timeline /\ gap.start = r.end + 1
         /\ wal.gaps \subseteq WALGap
BY AncestryAssumption, ContinuityAssumption DEF ShapeInv, ServerWAL, Continuous

LEMMA HoldingIsOne ==
  ASSUME ShapeInv, NEW timeline, NEW position \in Nat, NEW r \in Holding(timeline, position)
  PROVE  /\ r \in wal.ranges /\ r \in WALRange /\ r.timeline = timeline
         /\ r.start <= position /\ position <= r.end /\ r.start \in Nat /\ r.end \in Nat
         /\ (CHOOSE s \in Holding(timeline, position) : TRUE) = r
         /\ \A s \in Holding(timeline, position) : s = r
<1>1. /\ r \in wal.ranges /\ r \in WALRange /\ r.timeline = timeline
      /\ r.start <= position /\ position <= r.end /\ r.start \in Nat /\ r.end \in Nat
  BY ArchiveFacts DEF Holding, rangesForTimeline, WALRange
<1>2. \A s \in Holding(timeline, position) : s = r
  <2> TAKE s \in Holding(timeline, position)
  <2>1. /\ s \in wal.ranges /\ s.timeline = timeline /\ s.start \in Nat /\ s.end \in Nat
        /\ s.start <= position /\ position <= s.end
    BY ArchiveFacts DEF Holding, rangesForTimeline, WALRange
  <2>2. s # r => s.end + 1 < r.start \/ r.end + 1 < s.start
    BY <1>1, <2>1, ArchiveFacts
  <2> QED
    BY <1>1, <2>1, <2>2
<1> QED
  BY <1>1, <1>2

StatusesAfter(range) ==
  {gap.status : gap \in {g \in wal.gaps : g.timeline = range.timeline /\ g.start = range.end + 1}}

(* A path stops at the gap after a range, or without a gap for no reason   *)
(* that is known.                                                          *)
LEMMA StopFacts ==
  ASSUME ShapeInv, NEW r \in wal.ranges
  PROVE  LET stop == StopAfter(r)
         IN  /\ stop \in Reach
             /\ stop.frontier = r.end
             /\ stop.state # Healthy
             /\ stop.stop \in {CandidateLimited, GapLimited} =>
                  /\ stop.state = IF stop.stop = GapLimited THEN Unhealthy ELSE Warning
                  /\ \E gap \in wal.gaps :
                       /\ gap.timeline = r.timeline
                       /\ gap.start = r.end + 1
                       /\ gap.status = IF stop.stop = GapLimited THEN Confirmed ELSE Candidate
<1> DEFINE statuses == StatusesAfter(r)
<1>1. statuses \subseteq {Candidate, Confirmed}
  BY ArchiveFacts DEF StatusesAfter, WALGap
<1>2. r.end \in Nat
  BY ArchiveFacts DEF WALRange
<1>3. \A status \in statuses : \E gap \in wal.gaps :
        gap.timeline = r.timeline /\ gap.start = r.end + 1 /\ gap.status = status
  BY DEF StatusesAfter
<1> USE DEF Reach, Reached, NotObserved, State, CoverageStop, Healthy, Warning, Unhealthy, Unknown,
            Frontier, CandidateLimited, GapLimited, UnknownLimited
<1>4. CASE Confirmed \in statuses
  <2>1. StopAfter(r) = Reached(r.end, Unhealthy, GapLimited)
    BY <1>4 DEF StopAfter, StatusesAfter, Confirmed, Candidate
  <2> QED
    BY <1>2, <1>3, <1>4, <2>1
<1>5. CASE Confirmed \notin statuses /\ Candidate \in statuses
  <2>1. StopAfter(r) = Reached(r.end, Warning, CandidateLimited)
    BY <1>5 DEF StopAfter, StatusesAfter, Confirmed, Candidate
  <2> QED
    BY <1>2, <1>3, <1>5, <2>1
<1>6. CASE statuses = {}
  <2>1. StopAfter(r) = NotObserved(r.end)
    BY <1>6 DEF StopAfter, StatusesAfter, Confirmed, Candidate
  <2> QED
    BY <1>2, <2>1
<1> QED
  BY <1>1, <1>4, <1>5, <1>6

StopsAtGap(reached, timeline) ==
  /\ reached.state = IF reached.stop = GapLimited THEN Unhealthy ELSE Warning
  /\ \E gap \in wal.gaps :
       /\ gap.timeline = timeline
       /\ gap.start = reached.frontier + 1
       /\ gap.status = IF reached.stop = GapLimited THEN Confirmed ELSE Candidate

(* reachPosition is healthy exactly if one range holds everything from     *)
(* start to required.                                                      *)
LEMMA ReachFacts ==
  ASSUME ShapeInv, NEW timeline, NEW start \in Nat, NEW required \in Nat
  PROVE  LET reached == reachPosition(timeline, start, required)
         IN  /\ reached \in Reach
             /\ reached.state = Healthy =>
                  /\ reached.frontier = required
                  /\ reached.stop = Frontier
                  /\ \E r \in Holding(timeline, start) : r.end >= required
             /\ (\E r \in Holding(timeline, start) : r.end >= required) => reached.state = Healthy
             /\ reached.stop \in {CandidateLimited, GapLimited} =>
                  /\ StopsAtGap(reached, timeline)
                  /\ reached.frontier < required
                  /\ \E r \in Holding(timeline, start) : r.end = reached.frontier
<1> USE DEF Reach, Reached, NotObserved, State, CoverageStop, Healthy, Warning, Unhealthy, Unknown,
            Frontier, CandidateLimited, GapLimited, UnknownLimited
<1> DEFINE reached == reachPosition(timeline, start, required)
<1>1. CASE Holding(timeline, start) = {}
  <2>1. reached = NotObserved(start)
    BY <1>1 DEF reachPosition
  <2> QED
    BY <1>1, <2>1
<1>2. CASE Holding(timeline, start) # {}
  <2>1. PICK r \in Holding(timeline, start) : TRUE
    BY <1>2
  <2>2. /\ r \in wal.ranges /\ r \in WALRange /\ r.timeline = timeline
        /\ r.end \in Nat
        /\ (CHOOSE s \in Holding(timeline, start) : TRUE) = r
        /\ \A s \in Holding(timeline, start) : s = r
    BY HoldingIsOne
  <2>3. CASE r.end >= required
    <3>1. reached = Reached(required, Healthy, Frontier)
      BY <1>2, <2>2, <2>3 DEF reachPosition
    <3> QED
      BY <2>2, <2>3, <3>1
  <2>4. CASE r.end < required /\ ~IsLastRange(r)
    <3>1. reached = StopAfter(r)
      BY <1>2, <2>2, <2>4 DEF reachPosition
    <3> HIDE DEF reached
    <3> QED
      BY <2>2, <2>4, <3>1, StopFacts DEF StopsAtGap, reached
  <2>5. CASE r.end < required /\ IsLastRange(r)
    <3>1. reached = NotObserved(r.end)
      BY <1>2, <2>2, <2>5 DEF reachPosition
    <3> QED
      BY <2>2, <2>5, <3>1
  <2> QED
    BY <2>2, <2>3, <2>4, <2>5
<1> QED
  BY <1>1, <1>2

(* contiguousFrontier is healthy exactly if the range that holds the start *)
(* is the last.                                                            *)
LEMMA FrontierFacts ==
  ASSUME ShapeInv, NEW timeline, NEW start \in Nat
  PROVE  LET reached == contiguousFrontier(timeline, start)
         IN  /\ reached \in Reach
             /\ reached.state = Healthy =>
                  /\ reached.stop = Frontier
                  /\ \E r \in Holding(timeline, start) : IsLastRange(r) /\ r.end = reached.frontier
             /\ (\E r \in Holding(timeline, start) : IsLastRange(r)) => reached.state = Healthy
             /\ reached.stop \in {CandidateLimited, GapLimited} =>
                  /\ StopsAtGap(reached, timeline)
                  /\ \E r \in Holding(timeline, start) : r.end = reached.frontier
<1> USE DEF Reach, Reached, NotObserved, State, CoverageStop, Healthy, Warning, Unhealthy, Unknown,
            Frontier, CandidateLimited, GapLimited, UnknownLimited
<1> DEFINE reached == contiguousFrontier(timeline, start)
<1>1. CASE Holding(timeline, start) = {}
  <2>1. reached = NotObserved(start)
    BY <1>1 DEF contiguousFrontier
  <2> QED
    BY <1>1, <2>1
<1>2. CASE Holding(timeline, start) # {}
  <2>1. PICK r \in Holding(timeline, start) : TRUE
    BY <1>2
  <2>2. /\ r \in wal.ranges /\ r \in WALRange /\ r.timeline = timeline
        /\ r.end \in Nat
        /\ (CHOOSE s \in Holding(timeline, start) : TRUE) = r
        /\ \A s \in Holding(timeline, start) : s = r
    BY HoldingIsOne
  <2>3. CASE IsLastRange(r)
    <3>1. reached = Reached(r.end, Healthy, Frontier)
      BY <1>2, <2>2, <2>3 DEF contiguousFrontier
    <3> QED
      BY <2>2, <2>3, <3>1
  <2>4. CASE ~IsLastRange(r)
    <3>1. reached = StopAfter(r)
      BY <1>2, <2>2, <2>4 DEF contiguousFrontier
    <3> HIDE DEF reached
    <3> QED
      BY <2>2, <2>4, <3>1, StopFacts DEF StopsAtGap, reached
  <2> QED
    BY <2>3, <2>4
<1> QED
  BY <1>1, <1>2

-----------------------------------------------------------------------------
(* The legs of a path *)

TimelineAt(backup, edges, i) == IF i = 1 THEN backup.beginTimeline ELSE edges[i - 1].child

StartAt(backup, edges, i) == IF i = 1 THEN backup.end ELSE edges[i - 1].position

LEMMA LegsFacts ==
  ASSUME NEW backup, NEW edges \in Seq(HistoryEdge)
  PROVE  LET legs == Legs(backup, edges)
             n == Len(edges)
             T(i) == TimelineAt(backup, edges, i)
             S(i) == StartAt(backup, edges, i)
         IN  /\ legs[0].timeline = backup.beginTimeline
             /\ legs[0].reached = reachPosition(backup.beginTimeline, backup.begin, backup.end)
             /\ \A i \in 1 .. n : /\ legs[i].timeline = T(i)
                                  /\ legs[i].reached = Leg(T(i), S(i), edges[i])
             /\ legs[n + 1].timeline = T(n + 1)
             /\ legs[n + 1].reached = contiguousFrontier(T(n + 1), S(n + 1))
<1> DEFINE n == Len(edges)
<1>1. n \in Nat
  OBVIOUS
<1> HIDE DEF n
<1>2. 0 \in 0 .. n + 1 /\ n + 1 \in 0 .. n + 1 /\ 1 .. n \subseteq 0 .. n + 1
  BY <1>1
<1>3. \A i \in 1 .. n : i # 0 /\ i # n + 1
  BY <1>1
<1>4. n + 1 # 0 /\ n + 1 \notin 1 .. n /\ 0 \notin 1 .. n
  BY <1>1
<1> QED
  BY <1>2, <1>3, <1>4 DEF Legs, TimelineAt, StartAt, n

LEMMA LegFacts ==
  ASSUME ShapeInv, NEW timeline, NEW start \in Nat, NEW edge \in HistoryEdge
  PROVE  LET reached == Leg(timeline, start, edge)
             direct == reachPosition(timeline, start, edge.position)
         IN  /\ reached \in Reach
             /\ reached.state = Healthy => reached = direct /\ rangeContains(edge.child, edge.position)
             /\ direct.state = Healthy /\ rangeContains(edge.child, edge.position) => reached = direct
             /\ reached.stop \in {CandidateLimited, GapLimited} => reached = direct
<1> DEFINE direct == reachPosition(timeline, start, edge.position)
<1>1. edge.position \in Nat
  BY DEF HistoryEdge
<1>2. direct \in Reach /\ direct.frontier \in Nat
  BY <1>1, ReachFacts DEF Reach
<1> HIDE DEF direct
<1>3. Leg(timeline, start, edge) =
        IF direct.state = Healthy /\ ~rangeContains(edge.child, edge.position)
        THEN NotObserved(direct.frontier) ELSE direct
  BY DEF Leg, direct
<1> QED
  BY <1>2, <1>3 DEF NotObserved, Reached, Reach, State, CoverageStop, Healthy, Warning, Unhealthy,
     Unknown, Frontier, CandidateLimited, GapLimited, UnknownLimited, direct

(* A path is where its first leg that is not healthy ends, or its last. *)
EndsAt(path, b, target, edges, k) ==
  LET legs == Legs(backups[b], edges)
  IN  /\ path = [backup |-> b, target |-> target, state |-> legs[k].reached.state,
                 stop |-> legs[k].reached.stop, timeline |-> legs[k].timeline,
                 frontier |-> legs[k].reached.frontier]
      /\ \A i \in 0 .. k - 1 : legs[i].reached.state = Healthy
      /\ legs[k].reached.state = Healthy => k = Len(edges) + 1

LEMMA EvaluateFacts ==
  ASSUME NEW b, NEW target, NEW edges \in Seq(HistoryEdge), wal.state # Unknown
  PROVE  \E k \in 0 .. Len(edges) + 1 : EndsAt(evaluatePath(b, target, edges), b, target, edges, k)
<1> DEFINE legs   == Legs(backups[b], edges)
           last   == Len(edges) + 1
           broken == {i \in 0 .. last : legs[i].reached.state # Healthy}
           k == IF broken = {} THEN last ELSE CHOOSE i \in broken : \A j \in broken : i <= j
<1>1. evaluatePath(b, target, edges) =
        [backup |-> b, target |-> target, state |-> legs[k].reached.state,
         stop |-> legs[k].reached.stop, timeline |-> legs[k].timeline,
         frontier |-> legs[k].reached.frontier]
  BY DEF evaluatePath
<1>2. last \in Nat /\ last \in 0 .. last
  OBVIOUS
<1> HIDE DEF legs, last
<1>3. CASE broken = {}
  <2>1. k = last
    BY <1>3
  <2>2. \A i \in 0 .. last : legs[i].reached.state = Healthy
    BY <1>3
  <2> HIDE DEF k
  <2> QED
    BY <1>1, <1>2, <2>1, <2>2 DEF EndsAt, legs, last
<1>4. CASE broken # {}
  <2>1. broken \in SUBSET Nat
    BY <1>2
  <2>2. \E i \in broken : \A j \in broken : i <= j
    BY <1>4, <2>1, LeastElement
  <2>3. k \in broken /\ \A j \in broken : k <= j
    BY <1>4, <2>2
  <2> HIDE DEF k
  <2>4. k \in 0 .. last /\ legs[k].reached.state # Healthy
    BY <2>3
  <2>5. \A i \in 0 .. k - 1 : legs[i].reached.state = Healthy
    <3> TAKE i \in 0 .. k - 1
    <3>1. i \in 0 .. last /\ ~(k <= i)
      BY <1>2, <2>4
    <3> QED
      BY <2>3, <3>1
  <2> QED
    BY <1>1, <2>4, <2>5 DEF EndsAt, legs, last
<1> QED
  BY <1>3, <1>4

LEMMA PathFields ==
  ASSUME NEW b, NEW target, NEW edges \in Seq(HistoryEdge)
  PROVE  evaluatePath(b, target, edges).backup = b /\ evaluatePath(b, target, edges).target = target
<1>1. CASE wal.state = Unknown
  BY <1>1 DEF evaluatePath, unknownPath
<1>2. CASE wal.state # Unknown
  <2>1. PICK k \in 0 .. Len(edges) + 1 : EndsAt(evaluatePath(b, target, edges), b, target, edges, k)
    BY <1>2, EvaluateFacts
  <2> QED
    BY <2>1 DEF EndsAt
<1> QED
  BY <1>1, <1>2

(* What each leg reaches, and on which timeline. *)
LEMMA LegsType ==
  ASSUME ShapeInv, NEW backup \in BackupMetadata, NEW edges \in Seq(HistoryEdge),
         NEW k \in 0 .. Len(edges) + 1
  PROVE  /\ Legs(backup, edges)[k].timeline \in Nat
         /\ Legs(backup, edges)[k].reached \in Reach
<1> DEFINE n == Len(edges)
<1>1. n \in Nat /\ backup.beginTimeline \in Nat /\ backup.begin \in Nat /\ backup.end \in Nat
  BY DEF BackupMetadata
<1>2. \A i \in 1 .. n + 1 : TimelineAt(backup, edges, i) \in Nat /\ StartAt(backup, edges, i) \in Nat
  <2> TAKE i \in 1 .. n + 1
  <2>1. CASE i = 1
    BY <1>1, <2>1 DEF TimelineAt, StartAt
  <2>2. CASE i # 1
    <3>1. edges[i - 1] \in HistoryEdge
      BY <1>1, <2>2
    <3> QED
      BY <2>2, <3>1 DEF TimelineAt, StartAt, HistoryEdge, Timelines
  <2> QED
    BY <2>1, <2>2
<1>3. CASE k = 0
  <2>1. /\ Legs(backup, edges)[0].timeline = backup.beginTimeline
        /\ Legs(backup, edges)[0].reached =
             reachPosition(backup.beginTimeline, backup.begin, backup.end)
    BY LegsFacts
  <2>2. reachPosition(backup.beginTimeline, backup.begin, backup.end) \in Reach
    BY <1>1, ReachFacts
  <2> QED
    BY <1>1, <1>3, <2>1, <2>2
<1>4. CASE k \in 1 .. n
  <2>1. edges[k] \in HistoryEdge /\ k \in 1 .. n + 1
    BY <1>1, <1>4
  <2>2. /\ Legs(backup, edges)[k].timeline = TimelineAt(backup, edges, k)
        /\ Legs(backup, edges)[k].reached = Leg(TimelineAt(backup, edges, k), StartAt(backup, edges, k), edges[k])
    BY <1>4, LegsFacts
  <2> QED
    BY <1>2, <2>1, <2>2, LegFacts
<1>5. CASE k = n + 1
  <2>1. n + 1 \in 1 .. n + 1
    BY <1>1
  <2> QED
    BY <1>2, <1>5, <2>1, LegsFacts, FrontierFacts
<1> HIDE DEF n
<1>6. k = 0 \/ k \in 1 .. n \/ k = n + 1
  BY <1>1 DEF n
<1> QED
  BY <1>3, <1>4, <1>5, <1>6

LEMMA PathType ==
  ASSUME ShapeInv, NEW b \in Nat \ {0}, backups[b] \in BackupMetadata, NEW target \in Nat,
         NEW edges \in Seq(HistoryEdge)
  PROVE  /\ evaluatePath(b, target, edges) \in RecoveryPath
         /\ unknownPath(b, target) \in RecoveryPath
<1>1. unknownPath(b, target) \in RecoveryPath
  BY DEF unknownPath, RecoveryPath, State, CoverageStop
<1>2. CASE wal.state = Unknown
  BY <1>1, <1>2 DEF evaluatePath
<1>3. CASE wal.state # Unknown
  <2>1. PICK k \in 0 .. Len(edges) + 1 : EndsAt(evaluatePath(b, target, edges), b, target, edges, k)
    BY <1>3, EvaluateFacts
  <2> DEFINE leg == Legs(backups[b], edges)[k]
  <2>2. leg.timeline \in Nat /\ leg.reached \in Reach
    BY LegsType
  <2> HIDE DEF leg
  <2>3. evaluatePath(b, target, edges) =
          [backup |-> b, target |-> target, state |-> leg.reached.state, stop |-> leg.reached.stop,
           timeline |-> leg.timeline, frontier |-> leg.reached.frontier]
    BY <2>1 DEF EndsAt, leg
  <2> QED
    BY <1>1, <2>2, <2>3 DEF RecoveryPath, Reach
<1> QED
  BY <1>1, <1>2, <1>3

-----------------------------------------------------------------------------
(* The paths of a backup *)

Own(b) == evaluatePath(b, backups[b].beginTimeline, <<>>)

Followed(b) ==
  {evaluatePath(b, target.timeline, target.edges) : target \in FirstMet(backups[b])}

Lost(b) == {unknownPath(b, t) : t \in Unconnected(backups[b])}

PathSet(b) == {Own(b)} \cup Followed(b) \cup Lost(b)

LEMMA FirstMetFacts ==
  ASSUME ShapeInv, AncestryInv, NEW backup, backup.beginTimeline \in Nat,
         NEW target \in FirstMet(backup)
  PROVE  /\ target \in Target /\ target.edges \in Seq(HistoryEdge)
         /\ Lead(target.edges, backup.beginTimeline, target.timeline)
         /\ target.timeline \in Nat /\ target.timeline > backup.beginTimeline
<1>1. target \in Met(backup)
  BY DEF FirstMet
<1>2. target \in Target /\ Lead(target.edges, backup.beginTimeline, target.timeline)
  BY <1>1, MetFacts
<1> DEFINE edges == target.edges
           n == Len(edges)
<1>3. edges \in Seq(HistoryEdge) /\ target.timeline \in Nat
  BY <1>2 DEF Target, Timelines
<1>4. /\ Chain(edges, target.timeline) /\ edges # <<>> /\ edges[1].parent = backup.beginTimeline
      /\ edges[n].child = target.timeline
  BY <1>2 DEF Lead, Chain
<1> HIDE DEF edges
<1>5. n \in Nat /\ n >= 1 /\ 1 \in 1 .. n /\ n \in 1 .. n
  BY <1>3, <1>4
<1>6. edges[1] \in HistoryEdge /\ edges[n] \in HistoryEdge
  BY <1>3, <1>5
<1>7. edges[1].parent < edges[1].child
  BY <1>4, <1>5 DEF Chain
<1>8. edges[1].child <= edges[n].child
  <2>1. CASE n = 1
    BY <1>6, <2>1 DEF HistoryEdge, Timelines
  <2>2. CASE n # 1
    <3>1. 1 < n
      <4> HIDE DEF n
      <4> QED
        BY <1>5, <2>2
    <3>2. edges[1].child < edges[n].child
      BY <1>4, <1>5, <3>1, ChildrenIncrease
    <3> QED
      BY <1>6, <3>2 DEF HistoryEdge, Timelines
  <2> QED
    BY <2>1, <2>2
<1> QED
  BY <1>2, <1>3, <1>4, <1>6, <1>7, <1>8 DEF HistoryEdge, Timelines, edges

LEMMA FirstMetIsUnique ==
  ASSUME ShapeInv, AncestryInv, NEW backup, NEW s \in FirstMet(backup), NEW t \in FirstMet(backup),
         s.timeline = t.timeline
  PROVE  s = t
<1>1. s \in Met(backup) /\ t \in Met(backup) /\ s.via <= t.via /\ t.via <= s.via
  BY DEF FirstMet
<1>2. s.via \in Nat /\ t.via \in Nat
  <2>1. s \in Target /\ t \in Target
    BY <1>1, MetFacts
  <2> QED
    BY <2>1 DEF Target, Timelines
<1> QED
  BY <1>1, <1>2, MetIsUnique

(* Three lists, one after the other. *)
LEMMA ThreeLists ==
  ASSUME NEW P, NEW x \in P, NEW f \in Seq(P), NEW g \in Seq(P)
  PROVE  LET s == <<x>> \o f \o g
         IN  /\ s \in Seq(P)
             /\ Len(s) = 1 + Len(f) + Len(g)
             /\ s[1] = x
             /\ \A i \in 1 .. Len(f) : s[1 + i] = f[i]
             /\ \A i \in 1 .. Len(g) : s[1 + Len(f) + i] = g[i]
             /\ \A i \in 1 .. Len(s) : \/ i = 1
                                       \/ i - 1 \in 1 .. Len(f) /\ s[i] = f[i - 1]
                                       \/ i - 1 - Len(f) \in 1 .. Len(g) /\ s[i] = g[i - 1 - Len(f)]
<1> DEFINE head == <<x>> \o f
           s == head \o g
<1>1. /\ head \in Seq(P) /\ Len(head) = 1 + Len(f) /\ head[1] = x
      /\ \A i \in 1 .. Len(f) : head[1 + i] = f[i]
      /\ Len(f) \in Nat /\ Len(g) \in Nat
  OBVIOUS
<1> HIDE DEF head
<1>2. /\ s \in Seq(P) /\ Len(s) = Len(head) + Len(g)
      /\ \A i \in 1 .. Len(head) : s[i] = head[i]
      /\ \A i \in 1 .. Len(g) : s[Len(head) + i] = g[i]
  <2>1. s \in Seq(P) /\ Len(s) = Len(head) + Len(g)
    BY ONLY <1>1, g \in Seq(P), ConcatProperties
  <2>2. \A i \in 1 .. Len(head) + Len(g) : s[i] = IF i <= Len(head) THEN head[i] ELSE g[i - Len(head)]
    BY ONLY <1>1, g \in Seq(P), ConcatProperties
  <2>3. ASSUME NEW i \in 1 .. Len(head) PROVE s[i] = head[i]
    <3>1. i \in 1 .. Len(head) + Len(g) /\ i <= Len(head)
      BY <1>1
    <3> QED
      BY <2>2, <3>1
  <2>4. ASSUME NEW i \in 1 .. Len(g) PROVE s[Len(head) + i] = g[i]
    <3>1. /\ Len(head) + i \in 1 .. Len(head) + Len(g) /\ ~(Len(head) + i <= Len(head))
          /\ (Len(head) + i) - Len(head) = i
      BY <1>1
    <3> QED
      BY <2>2, <3>1
  <2> QED
    BY <2>1, <2>3, <2>4
<1> HIDE DEF s
<1>3. s[1] = x /\ \A i \in 1 .. Len(f) : s[1 + i] = f[i]
  BY <1>1, <1>2
<1>4. \A i \in 1 .. Len(g) : s[1 + Len(f) + i] = g[i]
  BY <1>1, <1>2
<1>5. ASSUME NEW i \in 1 .. Len(s)
      PROVE  \/ i = 1
             \/ i - 1 \in 1 .. Len(f) /\ s[i] = f[i - 1]
             \/ i - 1 - Len(f) \in 1 .. Len(g) /\ s[i] = g[i - 1 - Len(f)]
  <2>1. CASE i # 1 /\ i <= 1 + Len(f)
    <3>1. i - 1 \in 1 .. Len(f) /\ 1 + (i - 1) = i
      BY <1>1, <1>2, <2>1
    <3> QED
      BY <1>3, <3>1
  <2>2. CASE i > 1 + Len(f)
    <3>1. i - 1 - Len(f) \in 1 .. Len(g) /\ 1 + Len(f) + (i - 1 - Len(f)) = i
      BY <1>1, <1>2, <2>2
    <3> QED
      BY <1>4, <3>1
  <2> QED
    BY <1>1, <2>1, <2>2
<1> QED
  BY <1>1, <1>2, <1>3, <1>4, <1>5 DEF s, head

LEMMA PathsOfFacts ==
  ASSUME ShapeInv, AncestryInv, NEW b \in Nat \ {0}, backups[b] \in BackupMetadata
  PROVE  LET found == PathsOf(b)
         IN  /\ found \in Seq(RecoveryPath) /\ Len(found) >= 1
             /\ found[1] = Own(b) /\ Own(b).target = backups[b].beginTimeline
             /\ \A i \in 1 .. Len(found) : found[i] \in PathSet(b) /\ found[i].backup = b
             /\ \A p \in PathSet(b) : \E i \in 1 .. Len(found) : found[i] = p
             /\ \A i \in 1 .. Len(found) : i > 1 => found[i].target > backups[b].beginTimeline
             /\ \A i, j \in 1 .. Len(found) : found[i].target = found[j].target => i = j
<1> DEFINE backup == backups[b]
           targets == Targets(backup)
           lost == Sorted(Unconnected(backup), <)
           f == [i \in DOMAIN targets |-> evaluatePath(b, targets[i].timeline, targets[i].edges)]
           g == [i \in DOMAIN lost |-> unknownPath(b, lost[i])]
           found == PathsOf(b)
<1>1. found = <<Own(b)>> \o f \o g
  BY Zenon DEF PathsOf, Own
<1>2. backup.beginTimeline \in Nat
  BY DEF BackupMetadata
<1>3. /\ IsListOf(targets, FirstMet(backup)) /\ IsListOf(lost, Unconnected(backup))
  BY TargetsList, LostList
<1>4. \A t \in Unconnected(backup) : t \in Nat /\ t > backup.beginTimeline /\
        \A target \in FirstMet(backup) : target.timeline # t
  BY FiniteTimelines DEF Unconnected, Timelines
<1>5. \A target \in FirstMet(backup) :
        /\ target.timeline \in Nat /\ target.timeline > backup.beginTimeline
        /\ evaluatePath(b, target.timeline, target.edges) \in RecoveryPath
        /\ evaluatePath(b, target.timeline, target.edges).backup = b
        /\ evaluatePath(b, target.timeline, target.edges).target = target.timeline
  <2> TAKE target \in FirstMet(backup)
  <2>1. /\ target.timeline \in Nat /\ target.timeline > backup.beginTimeline
        /\ target.edges \in Seq(HistoryEdge)
    BY <1>2, FirstMetFacts
  <2> QED
    BY <2>1, PathType, PathFields
<1>6. \A t \in Unconnected(backup) :
        /\ unknownPath(b, t) \in RecoveryPath
        /\ unknownPath(b, t).backup = b /\ unknownPath(b, t).target = t
  <2>1. <<>> \in Seq(HistoryEdge)
    OBVIOUS
  <2> QED
    BY <1>4, <2>1, PathType DEF unknownPath
<1>7. Own(b) \in RecoveryPath /\ Own(b).backup = b /\ Own(b).target = backup.beginTimeline
  <2>1. <<>> \in Seq(HistoryEdge)
    OBVIOUS
  <2>2. evaluatePath(b, backups[b].beginTimeline, <<>>) \in RecoveryPath
    BY <1>2, <2>1, PathType
  <2>3. /\ evaluatePath(b, backups[b].beginTimeline, <<>>).backup = b
        /\ evaluatePath(b, backups[b].beginTimeline, <<>>).target = backups[b].beginTimeline
    BY <2>1, PathFields, ZenonT(40)
  <2> QED
    BY <2>2, <2>3 DEF Own
<1> HIDE DEF targets, lost
<1>8. /\ targets \in Seq(FirstMet(backup)) /\ DOMAIN targets = 1 .. Len(targets) /\ Len(targets) \in Nat
      /\ lost \in Seq(Unconnected(backup)) /\ DOMAIN lost = 1 .. Len(lost) /\ Len(lost) \in Nat
  <2>1. targets \in Seq(FirstMet(backup)) /\ lost \in Seq(Unconnected(backup))
    BY <1>3 DEF IsListOf
  <2>2. DOMAIN targets = 1 .. Len(targets) /\ Len(targets) \in Nat
    BY ONLY <2>1
  <2>3. DOMAIN lost = 1 .. Len(lost) /\ Len(lost) \in Nat
    BY ONLY <2>1
  <2> QED
    BY <2>1, <2>2, <2>3
<1>9. /\ \A i \in 1 .. Len(targets) : targets[i] \in FirstMet(backup)
      /\ \A i \in 1 .. Len(lost) : lost[i] \in Unconnected(backup)
  <2>1. \A i \in 1 .. Len(targets) : targets[i] \in FirstMet(backup)
    BY ONLY <1>8
  <2>2. \A i \in 1 .. Len(lost) : lost[i] \in Unconnected(backup)
    BY ONLY <1>8
  <2> QED
    BY <2>1, <2>2
<1>10. /\ f \in Seq(RecoveryPath) /\ Len(f) = Len(targets)
       /\ \A i \in 1 .. Len(f) : f[i] = evaluatePath(b, targets[i].timeline, targets[i].edges)
  BY <1>5, <1>8, <1>9
<1>11. /\ g \in Seq(RecoveryPath) /\ Len(g) = Len(lost)
       /\ \A i \in 1 .. Len(g) : g[i] = unknownPath(b, lost[i])
  BY <1>6, <1>8, <1>9
<1> HIDE DEF f, g, found
<1>12. /\ found \in Seq(RecoveryPath)
       /\ Len(found) = 1 + Len(f) + Len(g)
       /\ found[1] = Own(b)
       /\ \A i \in 1 .. Len(f) : found[1 + i] = f[i]
       /\ \A i \in 1 .. Len(g) : found[1 + Len(f) + i] = g[i]
       /\ \A i \in 1 .. Len(found) :
            \/ i = 1
            \/ i - 1 \in 1 .. Len(f) /\ found[i] = f[i - 1]
            \/ i - 1 - Len(f) \in 1 .. Len(g) /\ found[i] = g[i - 1 - Len(f)]
  <2>1. f \in Seq(RecoveryPath) /\ g \in Seq(RecoveryPath) /\ Own(b) \in RecoveryPath
    BY <1>7, <1>10, <1>11
  <2> QED
    BY ONLY <1>1, <2>1, ThreeLists
<1>13. /\ \A i \in 1 .. Len(f) : /\ f[i] \in Followed(b) /\ f[i].backup = b
                                 /\ f[i].target = targets[i].timeline
                                 /\ f[i].target \in Nat /\ f[i].target > backup.beginTimeline
       /\ \A i \in 1 .. Len(g) : /\ g[i] \in Lost(b) /\ g[i].backup = b
                                 /\ g[i].target = lost[i]
                                 /\ g[i].target \in Nat /\ g[i].target > backup.beginTimeline
  BY <1>4, <1>5, <1>6, <1>9, <1>10, <1>11 DEF Followed, Lost
<1>14. /\ \A i, j \in 1 .. Len(f) : f[i].target = f[j].target => i = j
       /\ \A i, j \in 1 .. Len(g) : g[i].target = g[j].target => i = j
       /\ \A i \in 1 .. Len(f), j \in 1 .. Len(g) : f[i].target # g[j].target
  <2>1. \A i, j \in 1 .. Len(targets) : targets[i].timeline = targets[j].timeline => i = j
    BY <1>3, <1>8, <1>9, FirstMetIsUnique DEF IsListOf
  <2>2. \A i, j \in 1 .. Len(lost) : lost[i] = lost[j] => i = j
    BY <1>3, <1>8 DEF IsListOf
  <2>3. \A i, j \in 1 .. Len(f) : f[i].target = f[j].target => i = j
    BY <1>10, <1>13, <2>1
  <2>4. \A i, j \in 1 .. Len(g) : g[i].target = g[j].target => i = j
    BY <1>11, <1>13, <2>2
  <2>5. \A i \in 1 .. Len(f), j \in 1 .. Len(g) : f[i].target # g[j].target
    BY <1>4, <1>9, <1>10, <1>11, <1>13, SMTT(20)
  <2> QED
    BY <2>3, <2>4, <2>5
<1>15. \A i \in 1 .. Len(found) : found[i] \in PathSet(b) /\ found[i].backup = b
  <2> TAKE i \in 1 .. Len(found)
  <2>1. CASE i = 1
    BY <1>7, <1>12, <2>1 DEF PathSet
  <2>2. CASE i - 1 \in 1 .. Len(f) /\ found[i] = f[i - 1]
    BY <1>13, <2>2 DEF PathSet
  <2>3. CASE i - 1 - Len(f) \in 1 .. Len(g) /\ found[i] = g[i - 1 - Len(f)]
    BY <1>13, <2>3 DEF PathSet
  <2> QED
    BY <1>12, <2>1, <2>2, <2>3
<1>16. \A i \in 1 .. Len(found) : i > 1 => found[i].target > backup.beginTimeline
  <2> TAKE i \in 1 .. Len(found)
  <2> HAVE i > 1
  <2>1. CASE i - 1 \in 1 .. Len(f) /\ found[i] = f[i - 1]
    BY <1>13, <2>1
  <2>2. CASE i - 1 - Len(f) \in 1 .. Len(g) /\ found[i] = g[i - 1 - Len(f)]
    BY <1>13, <2>2
  <2>3. i # 1
    OBVIOUS
  <2> QED
    BY <1>12, <2>1, <2>2, <2>3
<1>17. \A p \in PathSet(b) : \E i \in 1 .. Len(found) : found[i] = p
  <2> TAKE p \in PathSet(b)
  <2>1. Len(f) \in Nat /\ Len(g) \in Nat
    BY <1>10, <1>11
  <2>2. CASE p = Own(b)
    BY <1>12, <2>1, <2>2
  <2>3. CASE p \in Followed(b)
    <3>1. PICK target \in FirstMet(backup) : p = evaluatePath(b, target.timeline, target.edges)
      BY <2>3 DEF Followed
    <3>2. PICK i \in 1 .. Len(targets) : targets[i] = target
      BY <1>3, <1>8 DEF IsListOf
    <3>3. 1 + i \in 1 .. Len(found) /\ found[1 + i] = p
      BY <1>10, <1>12, <2>1, <3>1, <3>2, SMTT(20)
    <3> QED
      BY <3>3
  <2>4. CASE p \in Lost(b)
    <3>1. PICK t \in Unconnected(backup) : p = unknownPath(b, t)
      BY <2>4 DEF Lost
    <3>2. PICK i \in 1 .. Len(lost) : lost[i] = t
      BY <1>3, <1>8 DEF IsListOf
    <3>3. 1 + Len(f) + i \in 1 .. Len(found) /\ found[1 + Len(f) + i] = p
      BY <1>11, <1>12, <2>1, <3>1, <3>2
    <3> QED
      BY <3>3
  <2> QED
    BY <2>2, <2>3, <2>4 DEF PathSet
<1>18. \A i, j \in 1 .. Len(found) : found[i].target = found[j].target => i = j
  <2> TAKE i, j \in 1 .. Len(found)
  <2> HAVE found[i].target = found[j].target
  <2>1. Len(f) \in Nat /\ Len(g) \in Nat
    BY <1>10, <1>11
  <2> DEFINE Own1(k) == k = 1 /\ found[k].target = backup.beginTimeline
             InF(k) == /\ k - 1 \in 1 .. Len(f) /\ found[k].target = f[k - 1].target
                       /\ found[k].target \in Nat /\ found[k].target > backup.beginTimeline
             InG(k) == /\ k - 1 - Len(f) \in 1 .. Len(g) /\ found[k].target = g[k - 1 - Len(f)].target
                       /\ found[k].target \in Nat /\ found[k].target > backup.beginTimeline
  <2>2. ASSUME NEW k \in 1 .. Len(found) PROVE Own1(k) \/ InF(k) \/ InG(k)
    <3>1. CASE k = 1
      BY <1>7, <1>12, <3>1
    <3>2. CASE k - 1 \in 1 .. Len(f) /\ found[k] = f[k - 1]
      BY <1>13, <3>2
    <3>3. CASE k - 1 - Len(f) \in 1 .. Len(g) /\ found[k] = g[k - 1 - Len(f)]
      BY <1>13, <3>3
    <3> QED
      BY <1>12, <3>1, <3>2, <3>3
  <2>3. CASE InF(i) /\ InF(j)
    <3>1. i - 1 = j - 1
      BY <1>14, <2>3
    <3> QED
      BY <3>1
  <2>4. CASE InG(i) /\ InG(j)
    <3>1. i - 1 - Len(f) = j - 1 - Len(f)
      BY <1>14, <2>4
    <3> QED
      BY <2>1, <3>1
  <2>5. ~(InF(i) /\ InG(j)) /\ ~(InG(i) /\ InF(j))
    BY <1>14
  <2>6. CASE Own1(i) \/ Own1(j)
    <3>1. ~(found[i].target > backup.beginTimeline)
      BY <1>2, <2>6
    <3>2. Own1(i) /\ Own1(j)
      BY <2>2, <3>1
    <3> QED
      BY <3>2
  <2> HIDE DEF Own1, InF, InG
  <2> QED
    BY <2>2, <2>3, <2>4, <2>5, <2>6
<1> QED
  BY <1>7, <1>10, <1>11, <1>12, <1>15, <1>16, <1>17, <1>18 DEF found

-----------------------------------------------------------------------------
(* What is known of a backup depends on the archive, the histories and the *)
(* backups, which the analysis of recovery leaves as they are.             *)

LEMMA LegsPersist ==
  ASSUME UNCHANGED wal
  PROVE  /\ observedTimelines' = observedTimelines
         /\ \A t : rangesForTimeline(t)' = rangesForTimeline(t)
         /\ \A backup, edges : Legs(backup, edges)' = Legs(backup, edges)
<1>1. \A t : rangesForTimeline(t)' = rangesForTimeline(t)
  BY DEF rangesForTimeline
<1>2. \A t, p : Holding(t, p)' = Holding(t, p)
  BY <1>1, Zenon DEF Holding
<1>3. \A r : IsLastRange(r)' = IsLastRange(r)
  BY <1>1, Zenon DEF IsLastRange
<1>4. \A r : StopAfter(r)' = StopAfter(r)
  BY Zenon DEF StopAfter, NotObserved, Reached
<1>5. \A t, s, q : reachPosition(t, s, q)' = reachPosition(t, s, q)
  <2> TAKE t, s, q
  <2> DEFINE range == CHOOSE r \in Holding(t, s) : TRUE
  <2>1. Holding(t, s)' = Holding(t, s) /\ range' = range
    BY <1>2, Zenon
  <2>2. IsLastRange(range)' = IsLastRange(range) /\ StopAfter(range)' = StopAfter(range)
    BY <1>3, <1>4, <2>1, Zenon
  <2>3. /\ Reached(q, Healthy, Frontier)' = Reached(q, Healthy, Frontier)
        /\ NotObserved(s)' = NotObserved(s)
        /\ NotObserved(range.end)' = NotObserved(range.end)
        /\ (range.end >= q)' = (range.end >= q) /\ (range.end < q)' = (range.end < q)
    BY <2>1, Zenon DEF NotObserved, Reached
  <2> HIDE DEF range
  <2> QED
    BY <2>1, <2>2, <2>3 DEF reachPosition, range
<1>6. \A t, s : contiguousFrontier(t, s)' = contiguousFrontier(t, s)
  <2> TAKE t, s
  <2> DEFINE range == CHOOSE r \in Holding(t, s) : TRUE
  <2>1. Holding(t, s)' = Holding(t, s) /\ range' = range
    BY <1>2, Zenon
  <2>2. IsLastRange(range)' = IsLastRange(range) /\ StopAfter(range)' = StopAfter(range)
    BY <1>3, <1>4, <2>1, Zenon
  <2>3. /\ Reached(range.end, Healthy, Frontier)' = Reached(range.end, Healthy, Frontier)
        /\ NotObserved(s)' = NotObserved(s)
    BY <2>1, Zenon DEF NotObserved, Reached
  <2> QED
    BY <2>1, <2>2, <2>3, Zenon DEF contiguousFrontier
<1>7. \A t, p : rangeContains(t, p)' = rangeContains(t, p)
  BY <1>1, Zenon DEF rangeContains
<1>8. \A t, s, e : Leg(t, s, e)' = Leg(t, s, e)
  BY <1>5, <1>7, Zenon DEF Leg, NotObserved, Reached
<1>9. \A backup, edges : Legs(backup, edges)' = Legs(backup, edges)
  BY <1>5, <1>6, <1>8 DEF Legs
<1>10. observedTimelines' = observedTimelines
  BY DEF observedTimelines
<1> QED
  BY <1>1, <1>9, <1>10

LEMMA PathsPersist ==
  ASSUME UNCHANGED <<wal, histories, backups>>
  PROVE  /\ \A b : PathSet(b)' = PathSet(b)
         /\ \A b : IsUsable(b)' = IsUsable(b)
         /\ \A b : Anchored(b)' = Anchored(b)
         /\ conflictingSystemIDs' = conflictingSystemIDs
<1>1. \A b, t, edges : evaluatePath(b, t, edges)' = evaluatePath(b, t, edges)
  <2> TAKE b, t, edges
  <2> DEFINE legs   == Legs(backups[b], edges)
             broken == {i \in 0 .. Len(edges) + 1 : legs[i].reached.state # Healthy}
             k == IF broken = {} THEN Len(edges) + 1 ELSE CHOOSE i \in broken : \A j \in broken : i <= j
             path == [backup |-> b, target |-> t, state |-> legs[k].reached.state,
                      stop |-> legs[k].reached.stop, timeline |-> legs[k].timeline,
                      frontier |-> legs[k].reached.frontier]
  <2>1. legs' = legs
    BY LegsPersist, Zenon
  <2> HIDE DEF legs
  <2>2. broken' = broken
    BY <2>1, Zenon
  <2> HIDE DEF broken
  <2>3. k' = k
    BY <2>2
  <2> HIDE DEF k
  <2>4. path' = path
    BY <2>1, <2>3, Zenon
  <2>5. evaluatePath(b, t, edges) = IF wal.state = Unknown THEN unknownPath(b, t) ELSE path
    BY Zenon DEF evaluatePath, legs, broken, k
  <2>6. evaluatePath(b, t, edges)' = IF wal'.state = Unknown THEN unknownPath(b, t)' ELSE path'
    BY Zenon DEF evaluatePath, legs, broken, k
  <2>7. unknownPath(b, t)' = unknownPath(b, t)
    BY Zenon DEF unknownPath
  <2> HIDE DEF path
  <2> QED
    BY <2>4, <2>5, <2>6, <2>7, Zenon
<1>2. \A backup : Continuing(backup)' = Continuing(backup)
  BY DEF Continuing, Descent, descendantEdges
<1>3. \A backup : TooEarly(backup)' = TooEarly(backup)
  BY <1>2, Zenon DEF TooEarly, Descent, descendantEdges, branchBeforeBackup
<1>4. \A backup : NotApplicable(backup)' = NotApplicable(backup)
  BY <1>3, Zenon DEF NotApplicable, Descent, descendantEdges, EdgesOf
<1>5. \A backup : Met(backup)' = Met(backup)
  BY <1>2, <1>3, Zenon DEF Met, Descent, descendantEdges
<1>6. \A backup : FirstMet(backup)' = FirstMet(backup)
  BY <1>5, Zenon DEF FirstMet
<1>7. \A backup : Unconnected(backup)' = Unconnected(backup)
  BY <1>4, <1>6, LegsPersist, Zenon DEF Unconnected
<1>8. \A b : PathSet(b)' = PathSet(b)
  BY <1>1, <1>6, <1>7, Zenon DEF PathSet, Own, Followed, Lost, unknownPath
<1>9. conflictingSystemIDs' = conflictingSystemIDs
  BY Zenon DEF conflictingSystemIDs
<1>10. \A b : IsUsable(b)' = IsUsable(b) /\ CannotAnchor(backups[b])' = CannotAnchor(backups[b])
  BY Zenon DEF IsUsable, CannotAnchor, AnchorsAreValid
<1> QED
  BY <1>8, <1>9, <1>10, Zenon DEF Anchored

-----------------------------------------------------------------------------
(* The paths found so far *)

(* A path of a backup: one of those it has, or one that says why not all   *)
(* of them are there.                                                      *)
PathFor(b, path) ==
  /\ IsUsable(b)
  /\ path.backup = b
  /\ Anchored(b) => path \in PathSet(b) \/ path = unknownPath(b, 0)
  /\ ~Anchored(b) => path = unknownPath(b, 0) \/ path = unknownPath(b, backups[b].timeline)

(* Nothing of a backup is passed over. *)
AccountedIn(b, list) ==
  IsUsable(b) =>
    /\ Anchored(b) => \A p \in PathSet(b) : \E i \in 1 .. Len(list) : list[i] = p
    /\ ~Anchored(b) => \E i \in 1 .. Len(list) : list[i].backup = b /\ list[i].state = Unknown

(* A target that the limit is not looked at for. *)
AddedUnlimited(path) ==
  path.target \in {0, backups[path.backup].timeline, backups[path.backup].beginTimeline}

PathTypeOK ==
  /\ backups \in Seq(BackupMetadata)
  /\ next \in 1 .. Len(backups) + 1
  /\ paths \in Seq(RecoveryPath)
  /\ coverageState \in State
  /\ retentionState \in State

PhasesInOrder ==
  /\ phase = "reading" => next = 1 /\ paths = <<>>
  /\ phase = "done" => next = Len(backups) + 1

PathsAreExplained ==
  \A i \in 1 .. Len(paths) : paths[i].backup \in 1 .. next - 1 /\ PathFor(paths[i].backup, paths[i])

PathsAreDistinct ==
  \A i, j \in 1 .. Len(paths) :
    paths[i].backup = paths[j].backup /\ paths[i].target = paths[j].target => i = j

BackupsAreAccounted == ~LimitReached => \A b \in 1 .. next - 1 : AccountedIn(b, paths)

ExcessIsUnlimited ==
  \A i \in 1 .. Len(paths) : i > MaxRecoveryPaths => AddedUnlimited(paths[i])

HealthyVerdict ==
  coverageState = Healthy =>
    /\ phase = "done"
    /\ paths # <<>>
    /\ \A i \in 1 .. Len(paths) : paths[i].state = Healthy

PathInv ==
  /\ PathTypeOK
  /\ PhasesInOrder
  /\ PathsAreExplained
  /\ PathsAreDistinct
  /\ BackupsAreAccounted
  /\ ExcessIsUnlimited
  /\ HealthyVerdict

(* A backup has been followed: its paths come after those of the backups   *)
(* before it.                                                              *)
LEMMA PathsAdded ==
  ASSUME PathInv, phase = "judged", next <= Len(backups),
         UNCHANGED <<wal, phase, histories, backups, coverageState, retentionState>>,
         NEW more \in Seq(RecoveryPath), paths' = paths \o more,
         next' \in next + 1 .. Len(backups) + 1,
         \A i \in 1 .. Len(more) : PathFor(next, more[i]),
         \A i, j \in 1 .. Len(more) : more[i].target = more[j].target => i = j,
         \A i \in 1 .. Len(more) : Len(paths) + i > MaxRecoveryPaths => AddedUnlimited(more[i]),
         \/ Anchored(next) /\ \E i \in 1 .. Len(more) : more[i].target = 0
         \/ next' = next + 1 /\ AccountedIn(next, more)
  PROVE  PathInv'
<1> DEFINE n == Len(paths)
           m == Len(more)
           all == paths'
<1>1. /\ n \in Nat /\ m \in Nat /\ paths \in Seq(RecoveryPath)
      /\ next \in Nat /\ next >= 1 /\ backups \in Seq(BackupMetadata) /\ Len(backups) \in Nat
      /\ next' \in Nat /\ next' >= next + 1
  BY DEF PathInv, PathTypeOK
<1>2. /\ all \in Seq(RecoveryPath) /\ Len(all) = n + m
      /\ \A i \in 1 .. n + m : all[i] = IF i <= n THEN paths[i] ELSE more[i - n]
  BY <1>1, ConcatProperties
<1>3. /\ \A i \in 1 .. n : i \in 1 .. Len(all) /\ all[i] = paths[i]
      /\ \A i \in 1 .. m : n + i \in 1 .. Len(all) /\ all[n + i] = more[i]
      /\ \A i \in 1 .. Len(all) : \/ i \in 1 .. n /\ all[i] = paths[i]
                                  \/ i - n \in 1 .. m /\ all[i] = more[i - n]
  <2> HIDE DEF n, m, all
  <2>1. ASSUME NEW i \in 1 .. n PROVE i \in 1 .. Len(all) /\ all[i] = paths[i]
    <3>1. i \in 1 .. n + m /\ i <= n
      BY <1>1
    <3> QED
      BY <1>2, <3>1
  <2>2. ASSUME NEW i \in 1 .. m PROVE n + i \in 1 .. Len(all) /\ all[n + i] = more[i]
    <3>1. n + i \in 1 .. n + m /\ ~(n + i <= n) /\ (n + i) - n = i
      BY <1>1
    <3> QED
      BY <1>2, <3>1
  <2>3. ASSUME NEW i \in 1 .. Len(all)
        PROVE  \/ i \in 1 .. n /\ all[i] = paths[i]
               \/ i - n \in 1 .. m /\ all[i] = more[i - n]
    BY <1>1, <1>2
  <2> QED
    BY <2>1, <2>2, <2>3
<1>4. /\ \A b : PathSet(b)' = PathSet(b)
      /\ \A b : IsUsable(b)' = IsUsable(b)
      /\ \A b : Anchored(b)' = Anchored(b)
  BY PathsPersist
<1>5. \A b, p : PathFor(b, p)' = PathFor(b, p)
  BY <1>4, Zenon DEF PathFor, unknownPath
<1>6. /\ \A i \in 1 .. n : paths[i].backup \in 1 .. next - 1 /\ PathFor(paths[i].backup, paths[i])
      /\ \A i \in 1 .. m : more[i].backup = next
  BY DEF PathInv, PathsAreExplained, PathFor
<1>7. PathTypeOK' /\ PhasesInOrder'
  BY <1>1, <1>2 DEF PathInv, PathTypeOK, PhasesInOrder
<1>8. HealthyVerdict'
  BY DEF PathInv, HealthyVerdict
<1> HIDE DEF n, m, all
<1>9. \A i \in 1 .. Len(all) : all[i].backup \in 1 .. next' - 1 /\ PathFor(all[i].backup, all[i])
  <2> TAKE i \in 1 .. Len(all)
  <2>1. CASE i \in 1 .. n /\ all[i] = paths[i]
    BY <1>1, <1>6, <2>1, SMTT(20)
  <2>2. CASE i - n \in 1 .. m /\ all[i] = more[i - n]
    <3>1. PathFor(next, more[i - n])
      BY <2>2 DEF m
    <3> QED
      BY <1>1, <1>6, <2>2, <3>1
  <2> QED
    BY <1>3, <2>1, <2>2
<1>10. PathsAreExplained'
  BY <1>5, <1>9 DEF PathsAreExplained, all
<1>11. PathsAreDistinct'
  <2> SUFFICES ASSUME NEW i \in 1 .. Len(all), NEW j \in 1 .. Len(all),
                      all[i].backup = all[j].backup, all[i].target = all[j].target
               PROVE  i = j
    BY DEF PathsAreDistinct, all
  <2>1. CASE i \in 1 .. n /\ all[i] = paths[i] /\ j \in 1 .. n /\ all[j] = paths[j]
    BY <2>1 DEF PathInv, PathsAreDistinct, n
  <2>2. CASE i - n \in 1 .. m /\ all[i] = more[i - n] /\ j - n \in 1 .. m /\ all[j] = more[j - n]
    <3>1. i - n = j - n
      BY <2>2 DEF m
    <3> QED
      BY <1>1, <3>1
  <2>3. CASE i \in 1 .. n /\ all[i] = paths[i] /\ j - n \in 1 .. m /\ all[j] = more[j - n]
    BY <1>1, <1>6, <2>3, SMTT(20)
  <2>4. CASE i - n \in 1 .. m /\ all[i] = more[i - n] /\ j \in 1 .. n /\ all[j] = paths[j]
    BY <1>1, <1>6, <2>4, SMTT(20)
  <2> QED
    BY <1>3, <2>1, <2>2, <2>3, <2>4
<1>12. ExcessIsUnlimited'
  <2>1. \A p : AddedUnlimited(p)' = AddedUnlimited(p)
    BY Zenon DEF AddedUnlimited
  <2> SUFFICES ASSUME NEW i \in 1 .. Len(all), i > MaxRecoveryPaths
               PROVE  AddedUnlimited(all[i])
    BY <2>1 DEF ExcessIsUnlimited, all
  <2>2. CASE i \in 1 .. n /\ all[i] = paths[i]
    BY <2>2 DEF PathInv, ExcessIsUnlimited, n
  <2>3. CASE i - n \in 1 .. m /\ all[i] = more[i - n]
    <3>1. n + (i - n) = i
      BY <1>1
    <3> QED
      BY <2>3, <3>1 DEF n, m
  <2> QED
    BY <1>3, <2>2, <2>3
<1>13. ASSUME ~LimitReached' PROVE ~LimitReached /\ next' = next + 1 /\ AccountedIn(next, more)
  <2>1. \A i \in 1 .. Len(all) : ~(all[i].target = 0 /\ Anchored(all[i].backup))
    <3>1. DOMAIN all = 1 .. Len(all)
      BY <1>2
    <3> QED
      BY <1>4, <1>13, <3>1 DEF LimitReached, all
  <2>2. DOMAIN paths = 1 .. n
    BY <1>1 DEF n
  <2>3. ~LimitReached
    BY <1>3, <2>1, <2>2 DEF LimitReached
  <2>4. ~(Anchored(next) /\ \E i \in 1 .. m : more[i].target = 0)
    <3> SUFFICES ASSUME Anchored(next), NEW i \in 1 .. m, more[i].target = 0 PROVE FALSE
      OBVIOUS
    <3>1. n + i \in 1 .. Len(all) /\ all[n + i] = more[i] /\ more[i].backup = next
      BY <1>3, <1>6
    <3> QED
      BY <2>1, <3>1
  <2> QED
    BY <2>3, <2>4 DEF m
<1>14. BackupsAreAccounted'
  <2>1. \A b, list : AccountedIn(b, list)' = AccountedIn(b, list)
    BY <1>4, Zenon DEF AccountedIn
  <2> SUFFICES ASSUME ~LimitReached', NEW b \in 1 .. next' - 1 PROVE AccountedIn(b, all)
    BY <2>1 DEF BackupsAreAccounted, all
  <2>2. ~LimitReached /\ next' = next + 1 /\ AccountedIn(next, more)
    BY <1>13
  <2>3. CASE b = next
    <3>1. \A i \in 1 .. Len(more) : n + i \in 1 .. Len(all) /\ all[n + i] = more[i]
      BY <1>3 DEF m
    <3>2. ASSUME Anchored(next), IsUsable(next), NEW p \in PathSet(next)
          PROVE  \E i \in 1 .. Len(all) : all[i] = p
      <4>1. PICK i \in 1 .. Len(more) : more[i] = p
        BY <2>2, <3>2 DEF AccountedIn
      <4> QED
        BY <3>1, <4>1
    <3>3. ASSUME ~Anchored(next), IsUsable(next)
          PROVE  \E i \in 1 .. Len(all) : all[i].backup = next /\ all[i].state = Unknown
      <4>1. PICK i \in 1 .. Len(more) : more[i].backup = next /\ more[i].state = Unknown
        BY <2>2, <3>3 DEF AccountedIn
      <4> QED
        BY <3>1, <4>1
    <3> QED
      BY <2>3, <3>2, <3>3 DEF AccountedIn
  <2>4. CASE b \in 1 .. next - 1
    <3>1. AccountedIn(b, paths)
      BY <2>2, <2>4 DEF PathInv, BackupsAreAccounted
    <3>2. \A i \in 1 .. Len(paths) : i \in 1 .. Len(all) /\ all[i] = paths[i]
      BY <1>3 DEF n
    <3> QED
      BY <3>1, <3>2 DEF AccountedIn
  <2> QED
    BY <1>1, <2>2, <2>3, <2>4
<1> QED
  BY <1>7, <1>8, <1>10, <1>11, <1>12, <1>14 DEF PathInv

LEMMA PathInit == Init => PathInv
<1> SUFFICES ASSUME Init PROVE PathInv
  OBVIOUS
<1>1. backups \in Seq(BackupMetadata)
  BY InventoriesAssumption DEF Init, Start
<1>2. /\ phase = "reading" /\ next = 1 /\ paths = <<>> /\ Len(paths) = 0
      /\ coverageState = Unknown /\ retentionState = Unknown
  BY DEF Init, Start
<1>3. PathTypeOK
  <2>1. next \in 1 .. Len(backups) + 1
    BY <1>1, <1>2
  <2> QED
    BY <1>1, <1>2, <2>1 DEF PathTypeOK, State
<1> QED
  BY <1>2, <1>3 DEF PathInv, PhasesInOrder, PathsAreExplained, PathsAreDistinct,
     BackupsAreAccounted, ExcessIsUnlimited, HealthyVerdict, Unknown, Healthy

LEMMA UnanchoredPath ==
  ASSUME NEW b \in Nat \ {0}, NEW t \in Nat
  PROVE  /\ unknownPath(b, t) \in RecoveryPath
         /\ unknownPath(b, t).backup = b
         /\ unknownPath(b, t).target = t
         /\ unknownPath(b, t).state = Unknown
         /\ unknownPath(b, t).stop = UnknownLimited
BY DEF unknownPath, RecoveryPath, State, CoverageStop

LEMMA SkipStep ==
  ASSUME PathInv, SkipBackup
  PROVE  PathInv'
<1> DEFINE more == <<>>
<1>1. /\ phase = "judged" /\ next <= Len(backups) /\ next' = next + 1 /\ ~IsUsable(next)
      /\ UNCHANGED <<wal, phase, histories, backups, coverageState, retentionState>>
      /\ paths' = paths
  BY DEF SkipBackup, Following, ancestryVars
<1>2. paths \in Seq(RecoveryPath) /\ next \in Nat /\ Len(backups) \in Nat
  BY DEF PathInv, PathTypeOK
<1>3. more \in Seq(RecoveryPath) /\ 1 .. Len(more) = {} /\ paths' = paths \o more
  BY <1>1, <1>2, ConcatEmptySeq
<1> HIDE DEF more
<1>4. AccountedIn(next, more)
  BY <1>1 DEF AccountedIn
<1>5. next' \in next + 1 .. Len(backups) + 1
  BY <1>1, <1>2
<1> QED
  BY <1>1, <1>3, <1>4, <1>5, PathsAdded

LEMMA RejectStep ==
  ASSUME PathInv, RejectAnchors
  PROVE  PathInv'
<1> DEFINE path == unknownPath(next, 0)
           more == <<path>>
<1>1. /\ phase = "judged" /\ next <= Len(backups) /\ next' = next + 1 /\ IsUsable(next) /\ ~Anchored(next)
      /\ UNCHANGED <<wal, phase, histories, backups, coverageState, retentionState>>
      /\ paths' = Append(paths, path)
  BY DEF RejectAnchors, Following, ancestryVars, Anchored
<1>2. paths \in Seq(RecoveryPath) /\ next \in Nat \ {0} /\ Len(backups) \in Nat
  BY DEF PathInv, PathTypeOK
<1>3. /\ path \in RecoveryPath /\ path.backup = next /\ path.target = 0 /\ path.state = Unknown
  BY <1>2, UnanchoredPath
<1>4. PathFor(next, path) /\ AddedUnlimited(path)
  BY <1>1, <1>3 DEF PathFor, AddedUnlimited
<1> HIDE DEF path
<1>5. /\ more \in Seq(RecoveryPath) /\ Len(more) = 1 /\ more[1] = path
      /\ paths' = paths \o more
  BY <1>1, <1>2, <1>3
<1> HIDE DEF more
<1>6. /\ \A i \in 1 .. Len(more) : PathFor(next, more[i]) /\ AddedUnlimited(more[i])
      /\ \A i, j \in 1 .. Len(more) : i = j
  BY <1>4, <1>5
<1>7. AccountedIn(next, more)
  BY <1>1, <1>3, <1>5 DEF AccountedIn
<1>8. next' \in next + 1 .. Len(backups) + 1
  BY <1>1, <1>2
<1> QED
  BY <1>1, <1>5, <1>6, <1>7, <1>8, PathsAdded

LEMMA FollowStep ==
  ASSUME ShapeInv, AncestryInv, PathInv, FollowBackup
  PROVE  PathInv'
<1> DEFINE found == PathsOf(next)
           backup == backups[next]
<1>1. /\ phase = "judged" /\ next <= Len(backups) /\ next' = next + 1 /\ IsUsable(next) /\ Anchored(next)
      /\ UNCHANGED <<wal, phase, histories, backups, coverageState, retentionState>>
      /\ paths' = paths \o found
      /\ LimitedAt(found) = 0
  BY DEF FollowBackup, Following, ancestryVars, Anchored
<1>2. /\ paths \in Seq(RecoveryPath) /\ next \in Nat \ {0} /\ Len(backups) \in Nat
      /\ backup \in BackupMetadata /\ Len(paths) \in Nat /\ MaxRecoveryPaths \in Nat
  BY <1>1, OptionsAssumption DEF PathInv, PathTypeOK
<1>3. /\ found \in Seq(RecoveryPath) /\ Len(found) >= 1
      /\ found[1] = Own(next) /\ Own(next).target = backup.beginTimeline
      /\ \A i \in 1 .. Len(found) : found[i] \in PathSet(next) /\ found[i].backup = next
      /\ \A p \in PathSet(next) : \E i \in 1 .. Len(found) : found[i] = p
      /\ \A i, j \in 1 .. Len(found) : found[i].target = found[j].target => i = j
  BY <1>2, PathsOfFacts
<1> HIDE DEF found
<1>4. \A i \in 1 .. Len(found) : PathFor(next, found[i])
  BY <1>1, <1>3 DEF PathFor
<1>5. AccountedIn(next, found)
  BY <1>1, <1>3 DEF AccountedIn
<1>6. \A i \in 1 .. Len(found) : Len(paths) + i > MaxRecoveryPaths => AddedUnlimited(found[i])
  <2>1. Len(found) \in Nat
    BY <1>3
  <2>2. \/ MaxRecoveryPaths - Len(paths) > 2 /\ Len(found) < MaxRecoveryPaths - Len(paths)
        \/ Len(found) < 2
    BY <1>1, <1>2, <2>1 DEF LimitedAt
  <2>3. CASE MaxRecoveryPaths - Len(paths) > 2 /\ Len(found) < MaxRecoveryPaths - Len(paths)
    BY <1>2, <2>1, <2>3
  <2>4. CASE Len(found) < 2
    <3>1. \A i \in 1 .. Len(found) : i = 1
      BY <2>1, <2>4
    <3>2. 1 \in 1 .. Len(found)
      BY <1>3, <2>1
    <3>3. AddedUnlimited(found[1])
      BY <1>3, <3>2 DEF AddedUnlimited
    <3> QED
      BY <3>1, <3>3
  <2> QED
    BY <2>2, <2>3, <2>4
<1>7. next' \in next + 1 .. Len(backups) + 1
  BY <1>1, <1>2
<1> QED
  BY <1>1, <1>3, <1>4, <1>5, <1>6, <1>7, PathsAdded

LEMMA StopStep ==
  ASSUME ShapeInv, AncestryInv, PathInv, StopAtLimit
  PROVE  PathInv'
<1> DEFINE found == PathsOf(next)
           backup == backups[next]
           cut == LimitedAt(found)
           kept == SubSeq(found, 1, cut - 1)
           last == unknownPath(next, 0)
           more == kept \o <<last>>
<1>1. /\ phase = "judged" /\ next <= Len(backups) /\ next' = Len(backups) + 1
      /\ IsUsable(next) /\ Anchored(next)
      /\ UNCHANGED <<wal, phase, histories, backups, coverageState, retentionState>>
      /\ paths' = paths \o kept \o <<last>>
      /\ cut > 0
  BY DEF StopAtLimit, Following, ancestryVars, Anchored
<1>2. /\ paths \in Seq(RecoveryPath) /\ next \in Nat \ {0} /\ Len(backups) \in Nat
      /\ backup \in BackupMetadata /\ Len(paths) \in Nat /\ MaxRecoveryPaths \in Nat
  BY <1>1, OptionsAssumption DEF PathInv, PathTypeOK
<1>3. /\ found \in Seq(RecoveryPath) /\ Len(found) >= 1
      /\ found[1] = Own(next) /\ Own(next).target = backup.beginTimeline
      /\ \A i \in 1 .. Len(found) : found[i] \in PathSet(next) /\ found[i].backup = next
      /\ \A i \in 1 .. Len(found) : i > 1 => found[i].target > backup.beginTimeline
      /\ \A i, j \in 1 .. Len(found) : found[i].target = found[j].target => i = j
  BY <1>2, PathsOfFacts
<1> HIDE DEF found
<1>4. Len(found) \in Nat
  BY <1>3
<1>5. backup.beginTimeline \in Nat /\ backup.beginTimeline > 0
  BY <1>1, <1>2 DEF Anchored, CannotAnchor, AnchorsAreValid, BackupMetadata
<1>6. \A i \in 1 .. Len(found) : found[i].target # 0
  <2> TAKE i \in 1 .. Len(found)
  <2>1. found[i] \in RecoveryPath
    BY <1>3
  <2>2. found[i].target \in Nat
    BY <2>1 DEF RecoveryPath
  <2> QED
    BY <1>3, <1>5, <2>2
<1>7. /\ cut \in 2 .. Len(found)
      /\ \/ cut = 2
         \/ Len(paths) + cut = MaxRecoveryPaths
  <2> DEFINE room == MaxRecoveryPaths - Len(paths)
  <2>1. room \in Int
    BY <1>2
  <2>2. cut = LET c == IF room > 2 THEN room ELSE 2 IN IF Len(found) >= c THEN c ELSE 0
    BY DEF LimitedAt
  <2> QED
    BY <1>1, <1>2, <1>4, <2>1, <2>2
<1> HIDE DEF cut
<1>8. /\ kept \in Seq(RecoveryPath) /\ Len(kept) = cut - 1
      /\ \A i \in 1 .. cut - 1 : i \in 1 .. Len(found) /\ kept[i] = found[i]
  <2>1. \A i \in 1 .. cut - 1 : i \in 1 .. Len(found)
    BY <1>4, <1>7
  <2> QED
    BY <1>3, <1>4, <1>7, <2>1, SubSeqProperties
<1>9. last \in RecoveryPath /\ last.backup = next /\ last.target = 0
  BY <1>2, UnanchoredPath
<1>10. PathFor(next, last) /\ AddedUnlimited(last)
  BY <1>1, <1>9 DEF PathFor, AddedUnlimited
<1> HIDE DEF kept, last
<1>11. /\ <<last>> \in Seq(RecoveryPath) /\ Len(<<last>>) = 1 /\ <<last>>[1] = last
  BY <1>9
<1>12. /\ more \in Seq(RecoveryPath) /\ Len(more) = cut
       /\ \A i \in 1 .. cut : more[i] = IF i <= cut - 1 THEN kept[i] ELSE <<last>>[i - (cut - 1)]
       /\ paths' = paths \o more
  <2>1. paths' = paths \o more
    <3>1. kept \in Seq(RecoveryPath)
      BY <1>8
    <3>2. \A u \in Seq(RecoveryPath) : (paths \o kept) \o u = paths \o (kept \o u)
      <4>1. paths \in Seq(RecoveryPath)
        BY <1>2
      <4> QED
        BY ONLY <3>1, <4>1, ConcatAssociative, SMTT(20)
    <3> QED
      BY <1>1, <1>11, <3>2
  <2>2. /\ more \in Seq(RecoveryPath) /\ Len(more) = Len(kept) + Len(<<last>>)
        /\ \A i \in 1 .. Len(kept) + Len(<<last>>) :
             more[i] = IF i <= Len(kept) THEN kept[i] ELSE <<last>>[i - Len(kept)]
    BY <1>8, <1>11, ConcatProperties
  <2>3. Len(kept) + Len(<<last>>) = cut
    BY <1>7, <1>8, <1>11
  <2> QED
    BY <1>8, <2>1, <2>2, <2>3
<1>13. /\ \A i \in 1 .. cut - 1 : more[i] = found[i] /\ i \in 1 .. Len(found)
       /\ more[cut] = last
  <2>1. cut \in 1 .. cut /\ ~(cut <= cut - 1) /\ cut - (cut - 1) = 1
    BY <1>7
  <2>2. more[cut] = last
    BY <1>11, <1>12, <2>1
  <2>3. \A i \in 1 .. cut - 1 : i \in 1 .. cut /\ i <= cut - 1
    BY <1>7
  <2> QED
    BY <1>8, <1>12, <2>2, <2>3
<1> HIDE DEF more
<1>14. \A i \in 1 .. Len(more) : i = cut \/ i \in 1 .. cut - 1
  BY <1>7, <1>12
<1>15. \A i \in 1 .. Len(more) : PathFor(next, more[i])
  <2>1. \A i \in 1 .. Len(found) : PathFor(next, found[i])
    BY <1>1, <1>3 DEF PathFor
  <2> QED
    BY <1>10, <1>13, <1>14, <2>1
<1>16. \A i, j \in 1 .. Len(more) : more[i].target = more[j].target => i = j
  <2> TAKE i, j \in 1 .. Len(more)
  <2> HAVE more[i].target = more[j].target
  <2>1. CASE i = cut \/ j = cut
    BY <1>6, <1>9, <1>13, <1>14, <2>1
  <2>2. CASE i \in 1 .. cut - 1 /\ j \in 1 .. cut - 1
    BY <1>3, <1>13, <2>2
  <2> QED
    BY <1>14, <2>1, <2>2
<1>17. \A i \in 1 .. Len(more) : Len(paths) + i > MaxRecoveryPaths => AddedUnlimited(more[i])
  <2> TAKE i \in 1 .. Len(more)
  <2> HAVE Len(paths) + i > MaxRecoveryPaths
  <2>1. CASE i = cut
    BY <1>10, <1>13, <2>1
  <2>2. CASE i \in 1 .. cut - 1
    <3>1. cut = 2 /\ i = 1
      BY <1>2, <1>7, <2>2
    <3> QED
      BY <1>3, <1>13, <2>2, <3>1 DEF AddedUnlimited
  <2> QED
    BY <1>14, <2>1, <2>2
<1>18. \E i \in 1 .. Len(more) : more[i].target = 0
  BY <1>7, <1>9, <1>12, <1>13
<1>19. next' \in next + 1 .. Len(backups) + 1
  BY <1>1, <1>2
<1> QED
  BY <1>1, <1>12, <1>15, <1>16, <1>17, <1>18, <1>19, PathsAdded

LEMMA ConflictStep ==
  ASSUME ShapeInv, AncestryInv, PathInv, RefuseConflicting
  PROVE  PathInv'
<1> DEFINE S == {b \in DOMAIN backups : IsUsable(b)}
           usable == Sorted(S, <)
           all == [i \in DOMAIN usable |-> unknownPath(usable[i], backups[usable[i]].timeline)]
<1>1. /\ phase = "judged" /\ next <= Len(backups) /\ next' = Len(backups) + 1
      /\ conflictingSystemIDs
      /\ UNCHANGED <<wal, phase, histories, backups, coverageState, retentionState>>
      /\ paths' = all
  BY DEF RefuseConflicting, Following, ancestryVars
<1>2. backups \in Seq(BackupMetadata) /\ next \in Nat \ {0} /\ Len(backups) \in Nat
  BY DEF PathInv, PathTypeOK
<1>3. S \in SUBSET Nat /\ IsFiniteSet(S) /\ S \subseteq 1 .. Len(backups)
  <2>1. S \subseteq 1 .. Len(backups) /\ 1 .. Len(backups) \subseteq Nat
    BY <1>2
  <2>2. IsFiniteSet(1 .. Len(backups))
    BY <1>2, FS_Interval
  <2> QED
    BY <2>1, <2>2, FS_Subset
<1>4. IsListOf(usable, S)
  BY <1>3, SortedNumbers
<1>5. \A b \in S : IsUsable(b)
  OBVIOUS
<1> HIDE DEF usable
<1>6. /\ usable \in Seq(S) /\ DOMAIN usable = 1 .. Len(usable) /\ Len(usable) \in Nat
      /\ \A b \in S : \E i \in 1 .. Len(usable) : usable[i] = b
      /\ \A i, j \in 1 .. Len(usable) : usable[i] = usable[j] => i = j
  <2>1. usable \in Seq(S)
    BY <1>4 DEF IsListOf
  <2>2. DOMAIN usable = 1 .. Len(usable) /\ Len(usable) \in Nat
    BY ONLY <2>1
  <2> QED
    BY <1>4, <2>1, <2>2 DEF IsListOf
<1>7. \A i \in 1 .. Len(usable) : usable[i] \in S
  BY ONLY <1>6
<1>8. \A b \in S : /\ unknownPath(b, backups[b].timeline) \in RecoveryPath
                   /\ unknownPath(b, backups[b].timeline).backup = b
                   /\ unknownPath(b, backups[b].timeline).target = backups[b].timeline
                   /\ unknownPath(b, backups[b].timeline).state = Unknown
  <2> TAKE b \in S
  <2>1. b \in 1 .. Len(backups)
    BY <1>3
  <2>2. b \in Nat \ {0} /\ backups[b] \in BackupMetadata
    BY <1>2, <2>1
  <2>3. backups[b].timeline \in Nat
    BY <2>2 DEF BackupMetadata
  <2> QED
    BY <2>2, <2>3, UnanchoredPath
<1>9. /\ all \in Seq(RecoveryPath) /\ Len(all) = Len(usable)
      /\ \A i \in 1 .. Len(all) : /\ usable[i] \in S
                                  /\ all[i] = unknownPath(usable[i], backups[usable[i]].timeline)
                                  /\ all[i].backup = usable[i]
                                  /\ all[i].target = backups[usable[i]].timeline
                                  /\ all[i].state = Unknown
  <2> HIDE DEF S
  <2>1. all \in [1 .. Len(usable) -> RecoveryPath]
    BY <1>6, <1>7, <1>8
  <2>2. all \in Seq(RecoveryPath) /\ Len(all) = Len(usable)
    BY <1>6, <2>1
  <2>3. \A i \in 1 .. Len(all) : all[i] = unknownPath(usable[i], backups[usable[i]].timeline)
    BY <1>6, <2>2
  <2> QED
    BY <1>7, <1>8, <2>2, <2>3
<1>10. \A b : ~Anchored(b)
  BY <1>1 DEF Anchored
<1> HIDE DEF S, all
<1>11. /\ \A b : PathSet(b)' = PathSet(b)
       /\ \A b : IsUsable(b)' = IsUsable(b)
       /\ \A b : Anchored(b)' = Anchored(b)
  BY <1>1, PathsPersist
<1>12. \A b, p : PathFor(b, p)' = PathFor(b, p)
  BY <1>1, <1>11, Zenon DEF PathFor, unknownPath
<1>13. PathTypeOK' /\ PhasesInOrder'
  BY <1>1, <1>2, <1>9 DEF PathInv, PathTypeOK, PhasesInOrder
<1>14. HealthyVerdict'
  BY <1>1 DEF PathInv, HealthyVerdict
<1>15. \A i \in 1 .. Len(all) : all[i].backup \in 1 .. Len(backups) /\ PathFor(all[i].backup, all[i])
  <2> TAKE i \in 1 .. Len(all)
  <2>1. IsUsable(usable[i]) /\ usable[i] \in 1 .. Len(backups)
    BY <1>3, <1>5, <1>9
  <2> QED
    BY <1>9, <1>10, <2>1 DEF PathFor
<1>16. PathsAreExplained'
  <2>1. next' - 1 = Len(backups)
    BY <1>1, <1>2
  <2> QED
    BY <1>1, <1>12, <1>15, <2>1 DEF PathsAreExplained
<1>17. PathsAreDistinct'
  BY <1>1, <1>6, <1>9 DEF PathsAreDistinct
<1>18. ExcessIsUnlimited'
  <2>1. \A p : AddedUnlimited(p)' = AddedUnlimited(p)
    BY <1>1, Zenon DEF AddedUnlimited
  <2>2. \A i \in 1 .. Len(all) : AddedUnlimited(all[i])
    BY <1>9 DEF AddedUnlimited
  <2> QED
    BY <1>1, <2>1, <2>2 DEF ExcessIsUnlimited
<1>19. BackupsAreAccounted'
  <2>1. \A b, list : AccountedIn(b, list)' = AccountedIn(b, list)
    BY <1>11, Zenon DEF AccountedIn
  <2>2. ASSUME NEW b \in 1 .. Len(backups) PROVE AccountedIn(b, all)
    <3> SUFFICES ASSUME IsUsable(b)
                 PROVE  \E i \in 1 .. Len(all) : all[i].backup = b /\ all[i].state = Unknown
      BY <1>10 DEF AccountedIn
    <3>1. b \in S
      BY <1>2 DEF S
    <3> QED
      BY <1>6, <1>9, <3>1
  <2>3. next' - 1 = Len(backups)
    BY <1>1, <1>2
  <2> QED
    BY <1>1, <2>1, <2>2, <2>3 DEF BackupsAreAccounted
<1> QED
  BY <1>13, <1>14, <1>16, <1>17, <1>18, <1>19 DEF PathInv

LEMMA RollUpStep ==
  ASSUME PathInv, RollUpRecovery
  PROVE  PathInv'
<1>1. /\ phase = "judged" /\ phase' = "done" /\ next > Len(backups)
      /\ coverageState' = coverageRollup /\ retentionState' = retentionSummary
      /\ UNCHANGED <<wal, histories, backups, next, paths>>
  BY DEF RollUpRecovery
<1>2. /\ backups \in Seq(BackupMetadata) /\ Len(backups) \in Nat /\ next \in 1 .. Len(backups) + 1
      /\ paths \in Seq(RecoveryPath) /\ DOMAIN paths = 1 .. Len(paths)
  BY DEF PathInv, PathTypeOK
<1>3. coverageState' \in State /\ retentionState' \in State
  <2>1. coverageRollup \in State
    BY DEF coverageRollup, Rollup, State
  <2>2. retentionSummary \in State
    BY DEF retentionSummary, State
  <2> QED
    BY <1>1, <2>1, <2>2
<1>4. PathTypeOK' /\ PhasesInOrder'
  BY <1>1, <1>2, <1>3 DEF PathTypeOK, PhasesInOrder
<1>5. /\ \A b : PathSet(b)' = PathSet(b)
      /\ \A b : IsUsable(b)' = IsUsable(b)
      /\ \A b : Anchored(b)' = Anchored(b)
  BY <1>1, PathsPersist
<1>6. /\ \A b, p : PathFor(b, p)' = PathFor(b, p)
      /\ \A p : AddedUnlimited(p)' = AddedUnlimited(p)
      /\ \A b, list : AccountedIn(b, list)' = AccountedIn(b, list)
  <2>1. \A b, p : PathFor(b, p)' = PathFor(b, p)
    BY <1>1, <1>5, Zenon DEF PathFor, unknownPath
  <2>2. \A p : AddedUnlimited(p)' = AddedUnlimited(p)
    BY <1>1, Zenon DEF AddedUnlimited
  <2>3. \A b, list : AccountedIn(b, list)' = AccountedIn(b, list)
    BY <1>5, Zenon DEF AccountedIn
  <2> QED
    BY <2>1, <2>2, <2>3
<1>7. PathsAreExplained' /\ PathsAreDistinct' /\ ExcessIsUnlimited'
  BY <1>1, <1>6 DEF PathInv, PathsAreExplained, PathsAreDistinct, ExcessIsUnlimited
<1>8. LimitReached' = LimitReached
  BY <1>1, <1>5, Zenon DEF LimitReached
<1>9. BackupsAreAccounted'
  BY <1>1, <1>6, <1>8 DEF PathInv, BackupsAreAccounted
<1>10. HealthyVerdict'
  <2> DEFINE states == {paths[i].state : i \in DOMAIN paths}
  <2> SUFFICES ASSUME coverageRollup = Healthy
               PROVE  paths # <<>> /\ \A i \in 1 .. Len(paths) : paths[i].state = Healthy
    BY <1>1 DEF HealthyVerdict
  <2>1. Rollup(states) = Healthy
    BY DEF coverageRollup
  <2>2. \A s \in states : s \in State
    <3>1. \A i \in 1 .. Len(paths) : paths[i] \in RecoveryPath
      BY <1>2
    <3> QED
      BY <1>2, <3>1 DEF RecoveryPath
  <2>3. states # {} /\ \A s \in states : s = Healthy
    <3> HIDE DEF states
    <3> QED
      BY <2>1, <2>2 DEF Rollup, State, Healthy, Warning, Unhealthy, Unknown
  <2>4. \E i \in 1 .. Len(paths) : TRUE
    BY <1>2, <2>3
  <2>5. paths # <<>>
    BY <2>4
  <2> QED
    BY <1>2, <2>3, <2>5
<1> QED
  BY <1>4, <1>7, <1>9, <1>10 DEF PathInv

LEMMA PathStep ==
  ASSUME ShapeInv, AncestryInv, PathInv, [Next]_vars
  PROVE  PathInv'
<1>1. CASE JudgeHistories
  <2>1. phase = "reading" /\ phase' \in {"reading", "judged"} /\ UNCHANGED coverageVars
    BY <1>1 DEF JudgeHistories, AncestryNext, RefuseDuplicates, FailHistory, RejectHistory,
       ContradictHistory, AcceptHistory, JudgeAncestry, TruncateHistories, NextTimeline, Judge
  <2>2. next = 1 /\ paths = <<>> /\ Len(paths) = 0 /\ coverageState # Healthy
    BY <2>1 DEF PathInv, PhasesInOrder, HealthyVerdict
  <2>3. PathTypeOK'
    BY <2>1 DEF PathInv, PathTypeOK, coverageVars
  <2> QED
    BY <2>1, <2>2, <2>3 DEF PathInv, PhasesInOrder, PathsAreExplained, PathsAreDistinct,
       BackupsAreAccounted, ExcessIsUnlimited, HealthyVerdict, coverageVars
<1>2. CASE RefuseConflicting
  BY <1>2, ConflictStep
<1>3. CASE SkipBackup
  BY <1>3, SkipStep
<1>4. CASE RejectAnchors
  BY <1>4, RejectStep
<1>5. CASE FollowBackup
  BY <1>5, FollowStep
<1>6. CASE StopAtLimit
  BY <1>6, StopStep
<1>7. CASE RollUpRecovery
  BY <1>7, RollUpStep
<1>8. CASE UNCHANGED vars
  <2>1. UNCHANGED <<wal, phase, histories, backups, next, paths, coverageState, retentionState>>
    BY <1>8 DEF vars, ancestryVars, coverageVars
  <2>2. /\ \A b : PathSet(b)' = PathSet(b)
        /\ \A b : IsUsable(b)' = IsUsable(b)
        /\ \A b : Anchored(b)' = Anchored(b)
    BY <2>1, PathsPersist
  <2>3. PathTypeOK' /\ PhasesInOrder' /\ HealthyVerdict' /\ PathsAreDistinct'
    BY <2>1 DEF PathInv, PathTypeOK, PhasesInOrder, HealthyVerdict, PathsAreDistinct
  <2>4. PathsAreExplained'
    <3>1. \A b, p : PathFor(b, p)' = PathFor(b, p)
      BY <2>1, <2>2, Zenon DEF PathFor, unknownPath
    <3> QED
      BY <2>1, <3>1 DEF PathInv, PathsAreExplained
  <2>5. ExcessIsUnlimited'
    <3>1. \A p : AddedUnlimited(p)' = AddedUnlimited(p)
      BY <2>1, Zenon DEF AddedUnlimited
    <3> QED
      BY <2>1, <3>1 DEF PathInv, ExcessIsUnlimited
  <2>6. BackupsAreAccounted'
    <3>1. \A b, list : AccountedIn(b, list)' = AccountedIn(b, list)
      BY <2>2, Zenon DEF AccountedIn
    <3>2. LimitReached' = LimitReached
      BY <2>1, <2>2, Zenon DEF LimitReached
    <3> QED
      BY <2>1, <3>1, <3>2 DEF PathInv, BackupsAreAccounted
  <2> QED
    BY <2>3, <2>4, <2>5, <2>6 DEF PathInv
<1> QED
  BY <1>1, <1>2, <1>3, <1>4, <1>5, <1>6, <1>7, <1>8 DEF Next

CoverageInv == AncestryInv /\ ShapeInv /\ PathInv

LEMMA CoverageInvariance == Spec => []CoverageInv
<1>1. Init => CoverageInv
  BY AncestryInit, ShapeInit, PathInit DEF Init, CoverageInv
<1>2. CoverageInv /\ [Next]_vars => CoverageInv'
  BY RecoveryStep, ShapeStep, PathStep DEF CoverageInv
<1> QED
  BY <1>1, <1>2, PTL DEF Spec

(* AnalyzeRecovery yields well-formed paths, whatever the archive, the     *)
(* histories and the backups say.                                          *)
THEOREM CoverageTypeCorrect == Spec => []TypeOK
<1>1. CoverageInv => TypeOK
  BY DEF CoverageInv, AncestryInv, PathInv, PathTypeOK, TypeOK
<1> QED
  BY <1>1, CoverageInvariance, PTL

(* No more histories than were listed. *)
LEMMA ListedHistories ==
  ASSUME ShapeInv, AncestryInv, phase # "reading",
         \A h \in histories : h.timeline \notin MissingTimelines
  PROVE  Cardinality(histories) <= MaxHistoryFiles
<1>1. \A h \in histories : h.timeline \in Listed
  BY DEF ShapeInv
<1> DEFINE f == [h \in histories |-> h.timeline]
<1>2. f \in Injection(histories, Listed)
  BY <1>1 DEF ShapeInv, Injection, IsInjective
<1>3. IsFiniteSet(Listed) /\ Cardinality(Listed) <= MaxHistoryFiles
  BY FiniteTimelines
<1>4. IsFiniteSet(histories) /\ Cardinality(histories) <= Cardinality(Listed)
  BY <1>2, <1>3, FS_Injection
<1>5. Cardinality(histories) \in Nat /\ Cardinality(Listed) \in Nat /\ MaxHistoryFiles \in Nat
  BY <1>3, <1>4, FS_CardinalityType, AncestryAssumption
<1> QED
  BY <1>3, <1>4, <1>5

(* RecoveryCatalog.Validate refuses what AnalyzeRecovery yields for four   *)
(* reasons only: a history of timeline 1, missing histories above the      *)
(* limit, paths that are added without a look at the limit, and a usable   *)
(* backup of an odd name.                                                  *)
THEOREM ExplainedRefusals == Spec => []RefusalsAreExplained
<1>1. CoverageInv => RefusalsAreExplained
  <2> SUFFICES ASSUME CoverageInv, phase = "done", ~Validate,
                      \A h \in histories : h.timeline # 1,
                      Cardinality(histories) > MaxHistoryFiles =>
                        \A h \in histories : h.timeline \notin MissingTimelines,
                      \A b \in DOMAIN backups : IsUsable(b) => backups[b].id # "odd"
               PROVE  /\ Len(paths) > MaxRecoveryPaths
                      /\ \A i \in MaxRecoveryPaths + 1 .. Len(paths) : AddedUnlimited(paths[i])
    BY DEF RefusalsAreExplained, AddedUnlimited
  <2>1. ShapeInv /\ AncestryInv /\ PathInv
    BY DEF CoverageInv
  <2>2. Cardinality(histories) <= MaxHistoryFiles
    <3>1. IsFiniteSet(histories)
      <4> DEFINE f == [h \in histories |-> h.timeline]
      <4>1. f \in Injection(histories, Listed \cup observedTimelines)
        BY <2>1 DEF ShapeInv, MissingTimelines, Injection, IsInjective
      <4>2. IsFiniteSet(Listed \cup observedTimelines)
        BY <2>1, FiniteTimelines, FS_Union
      <4> QED
        BY <4>1, <4>2, FS_Injection
    <3>2. Cardinality(histories) \in Nat /\ MaxHistoryFiles \in Nat
      BY <3>1, FS_CardinalityType, AncestryAssumption
    <3> QED
      BY <2>1, <3>2, ListedHistories
  <2>3. \A h \in histories :
          /\ h.timeline >= 2
          /\ Len(h.edges) <= MaxHistoryEntries
          /\ \A edge \in EdgesOf(h.edges) : edge.parent < edge.child
    <3> TAKE h \in histories
    <3>1. h.timeline \in Timelines /\ Chain(h.edges, h.timeline)
      BY <2>1 DEF AncestryInv, AncestryTypeOK, TimelineHistory, ShapeInv
    <3>2. DOMAIN h.edges = 1 .. Len(h.edges)
      BY <3>1 DEF Chain
    <3> QED
      BY <3>1, <3>2 DEF Timelines, Chain, EdgesOf
  <2>4. \A g, h \in histories : g.timeline = h.timeline => g = h
    BY <2>1 DEF ShapeInv
  <2>5. Len(paths) \in Nat /\ MaxRecoveryPaths \in Nat /\ DOMAIN paths = 1 .. Len(paths)
    BY <2>1, OptionsAssumption DEF PathInv, PathTypeOK
  <2>6. \A i, j \in DOMAIN paths :
          paths[i].backup = paths[j].backup /\ paths[i].target = paths[j].target => i = j
    BY <2>1, <2>5 DEF PathInv, PathsAreDistinct
  <2>7. \A i \in DOMAIN paths : backups[paths[i].backup].id = "plain"
    <3> TAKE i \in DOMAIN paths
    <3>1. paths[i].backup \in DOMAIN backups /\ IsUsable(paths[i].backup)
      <4>1. paths[i].backup \in 1 .. next - 1 /\ IsUsable(paths[i].backup)
        BY <2>1, <2>5 DEF PathInv, PathsAreExplained, PathFor
      <4>2. next \in 1 .. Len(backups) + 1 /\ Len(backups) \in Nat /\ DOMAIN backups = 1 .. Len(backups)
        BY <2>1 DEF PathInv, PathTypeOK
      <4> QED
        BY <4>1, <4>2
    <3>2. backups[paths[i].backup].id \in {"plain", "odd"}
      <4>1. backups \in Seq(BackupMetadata)
        BY <2>1 DEF PathInv, PathTypeOK
      <4>2. backups[paths[i].backup] \in BackupMetadata
        BY <3>1, <4>1
      <4> QED
        BY <4>2 DEF BackupMetadata
    <3> QED
      BY <3>1, <3>2
  <2>8. ~(Len(paths) <= MaxRecoveryPaths)
    BY <2>2, <2>3, <2>4, <2>6, <2>7 DEF Validate
  <2> QED
    BY <2>1, <2>5, <2>8 DEF PathInv, ExcessIsUnlimited
<1> QED
  BY <1>1, CoverageInvariance, PTL

-----------------------------------------------------------------------------
(* Archived positions and the ranges that hold them *)

LEMMA ArchivedIsHeld ==
  ASSUME ShapeInv, NEW t, NEW p
  PROVE  p \in Archived(t) <=> p \in Nat /\ Holding(t, p) # {}
<1>1. \A r \in rangesForTimeline(t) : r \in WALRange
  BY ArchiveFacts DEF rangesForTimeline
<1>2. ASSUME p \in Archived(t) PROVE p \in Nat /\ Holding(t, p) # {}
  <2>1. PICK r \in rangesForTimeline(t) : p \in r.start .. r.end
    BY <1>2 DEF Archived
  <2>2. r.start \in Nat /\ r.end \in Nat
    BY <1>1 DEF WALRange
  <2>3. p \in Nat /\ r.start <= p /\ p <= r.end
    BY <2>1, <2>2
  <2> QED
    BY <2>3 DEF Holding
<1>3. ASSUME p \in Nat, Holding(t, p) # {} PROVE p \in Archived(t)
  <2>1. PICK r \in rangesForTimeline(t) : r.start <= p /\ p <= r.end
    BY <1>3 DEF Holding
  <2>2. r.start \in Nat /\ r.end \in Nat
    BY <1>1 DEF WALRange
  <2>3. p \in r.start .. r.end
    BY <1>3, <2>1, <2>2
  <2> QED
    BY <2>3 DEF Archived
<1> QED
  BY <1>2, <1>3

LEMMA ContainedIsArchived ==
  ASSUME ShapeInv, NEW t, NEW p \in Nat
  PROVE  rangeContains(t, p) <=> p \in Archived(t)
BY ArchivedIsHeld DEF rangeContains, Holding

LEMMA HeldRange ==
  ASSUME ShapeInv, NEW t, NEW first \in Nat, NEW last \in Nat, NEW r \in Holding(t, first), r.end >= last
  PROVE  HasArchived(t, first, last)
<1>1. r \in rangesForTimeline(t) /\ r.start \in Nat /\ r.end \in Nat /\ r.start <= first
  BY HoldingIsOne DEF Holding
<1>2. \A p \in first .. last : p \in r.start .. r.end
  BY <1>1
<1> QED
  BY <1>1, <1>2 DEF HasArchived, Archived

(* Ranges do not touch, so that what is archived without a break is in one *)
(* of them.                                                                *)
LEMMA OneRange ==
  ASSUME ShapeInv, NEW t, NEW first \in Nat, NEW last \in Nat, first <= last, HasArchived(t, first, last)
  PROVE  \E r \in Holding(t, first) : r.end >= last
<1>1. first \in Archived(t)
  BY DEF HasArchived
<1>2. PICK r \in Holding(t, first) : TRUE
  BY <1>1, ArchivedIsHeld
<1>3. /\ r \in wal.ranges /\ r.timeline = t /\ r.start \in Nat /\ r.end \in Nat
      /\ r.start <= first /\ first <= r.end
  BY HoldingIsOne
<1>4. ASSUME r.end < last PROVE FALSE
  <2> DEFINE p == r.end + 1
  <2>1. p \in Nat /\ p \in first .. last
    BY <1>3, <1>4
  <2>2. p \in Archived(t)
    BY <2>1 DEF HasArchived
  <2>3. PICK s \in Holding(t, p) : TRUE
    BY <2>2, ArchivedIsHeld
  <2>4. /\ s \in wal.ranges /\ s.timeline = t /\ s.start \in Nat /\ s.end \in Nat
        /\ s.start <= p /\ p <= s.end
    BY <2>1, HoldingIsOne
  <2>5. s # r
    BY <1>3, <2>4
  <2>6. r.end + 1 < s.start \/ s.end + 1 < r.start
    BY <1>3, <2>4, <2>5, ArchiveFacts
  <2> QED
    BY <1>3, <2>4, <2>6
<1> QED
  BY <1>3, <1>4

LEMMA JoinedRanges ==
  ASSUME NEW t, NEW a \in Nat, NEW b \in Nat, NEW c \in Nat,
         HasArchived(t, a, b), HasArchived(t, b, c)
  PROVE  HasArchived(t, a, c)
<1>1. \A p \in a .. c : p \in a .. b \/ p \in b .. c
  OBVIOUS
<1> QED
  BY <1>1 DEF HasArchived

(* The last range of a timeline ends with its newest segment. *)
LEMMA LastRange ==
  ASSUME ShapeInv, NEW t, NEW start \in Nat, NEW r \in Holding(t, start)
  PROVE  /\ r.end \in Archived(t)
         /\ IsLastRange(r) => \A p \in Archived(t) : p <= r.end
         /\ (\A p \in Archived(t) : HasArchived(t, start, p)) => IsLastRange(r)
<1>1. /\ r \in wal.ranges /\ r.timeline = t /\ r.start \in Nat /\ r.end \in Nat
      /\ r.start <= start /\ start <= r.end
      /\ \A s \in Holding(t, start) : s = r
  BY HoldingIsOne
<1>2. r.end \in Archived(t)
  <2>1. r.start <= r.end
    BY <1>1
  <2>2. r \in Holding(t, r.end)
    BY <1>1, <2>1 DEF Holding, rangesForTimeline
  <2> QED
    BY <1>1, <2>2, ArchivedIsHeld
<1>3. ASSUME IsLastRange(r), NEW p \in Archived(t) PROVE p <= r.end
  <2>1. PICK s \in Holding(t, p) : p \in Nat
    BY ArchivedIsHeld
  <2>2. /\ s \in wal.ranges /\ s.timeline = t /\ s.start \in Nat /\ s.end \in Nat
        /\ s.start <= p /\ p <= s.end
    BY <2>1, HoldingIsOne
  <2>3. s.start <= r.start
    BY <1>1, <1>3, <2>2 DEF IsLastRange, rangesForTimeline
  <2>4. s # r => r.end + 1 < s.start \/ s.end + 1 < r.start
    BY <1>1, <2>2, ArchiveFacts
  <2> QED
    BY <1>1, <2>1, <2>2, <2>3, <2>4
<1>4. ASSUME \A p \in Archived(t) : HasArchived(t, start, p) PROVE IsLastRange(r)
  <2> SUFFICES ASSUME NEW s \in rangesForTimeline(t), s.start > r.start PROVE FALSE
    <3>1. \A s \in rangesForTimeline(t) : s.start \in Nat
      BY ArchiveFacts DEF rangesForTimeline, WALRange
    <3> QED
      BY <1>1, <3>1 DEF IsLastRange
  <2>1. s \in wal.ranges /\ s.timeline = t /\ s.start \in Nat /\ s.end \in Nat /\ s.start <= s.end
    BY ArchiveFacts DEF rangesForTimeline, WALRange
  <2>2. s # r
    BY <1>1
  <2>3. r.end + 1 < s.start
    BY <1>1, <2>1, <2>2, ArchiveFacts
  <2>4. s \in Holding(t, s.start)
    BY <2>1 DEF Holding
  <2>5. s.start \in Archived(t)
    BY <2>1, <2>4, ArchivedIsHeld
  <2>6. HasArchived(t, start, s.start)
    BY <1>4, <2>5
  <2>7. PICK q \in Holding(t, start) : q.end >= s.start
    BY <1>1, <2>1, <2>3, <2>6, OneRange
  <2> QED
    BY <1>1, <2>1, <2>3, <2>7
<1> QED
  BY <1>2, <1>3, <1>4

-----------------------------------------------------------------------------
(* Routes from a backup to a target, and lineages *)

(* The edges of a route, in order, are those of one valid history. *)
Route(edges, from, to) ==
  \/ edges = <<>> /\ from = to
  \/ /\ Lead(edges, from, to)
     /\ \E h \in histories : h.state = Healthy /\ EdgesOf(edges) \subseteq EdgesOf(h.edges)

LEMMA ChainOrder ==
  ASSUME NEW edges, NEW to, Chain(edges, to)
  PROVE  /\ edges \in Seq(HistoryEdge) /\ Len(edges) \in Nat /\ DOMAIN edges = 1 .. Len(edges)
         /\ \A i \in 1 .. Len(edges) :
              /\ edges[i] \in HistoryEdge
              /\ edges[i].parent \in Nat /\ edges[i].child \in Nat
              /\ edges[i].lsn \in Nat /\ edges[i].position \in Nat
              /\ edges[i].parent < edges[i].child
         /\ \A i, j \in 1 .. Len(edges) : i < j =>
              /\ edges[i].child <= edges[j].parent
              /\ edges[i].child < edges[j].child
              /\ edges[i].parent < edges[j].parent
              /\ edges[i].lsn < edges[j].lsn
              /\ edges[i].position <= edges[j].position
         /\ \A i \in 2 .. Len(edges) : edges[i].parent = edges[i - 1].child
         /\ edges # <<>> => 1 \in 1 .. Len(edges) /\ Len(edges) \in 1 .. Len(edges)
                            /\ edges[Len(edges)].child = to
<1>1. edges \in Seq(HistoryEdge) /\ Len(edges) \in Nat /\ DOMAIN edges = 1 .. Len(edges)
  BY DEF Chain
<1>2. \A i \in 1 .. Len(edges) :
        /\ edges[i] \in HistoryEdge
        /\ edges[i].parent \in Nat /\ edges[i].child \in Nat
        /\ edges[i].lsn \in Nat /\ edges[i].position \in Nat
        /\ edges[i].parent < edges[i].child
  <2> TAKE i \in 1 .. Len(edges)
  <2>1. edges[i] \in HistoryEdge
    BY <1>1
  <2> QED
    BY <2>1 DEF HistoryEdge, Timelines, Chain
<1>3. ASSUME NEW i \in 1 .. Len(edges), NEW j \in 1 .. Len(edges), i < j
      PROVE  /\ edges[i].child <= edges[j].parent
             /\ edges[i].child < edges[j].child
             /\ edges[i].parent < edges[j].parent
             /\ edges[i].lsn < edges[j].lsn
             /\ edges[i].position <= edges[j].position
  <2>1. /\ edges[i].child <= edges[j].parent
        /\ edges[i].lsn < edges[j].lsn
        /\ edges[i].position <= edges[j].position
    BY <1>3 DEF Chain
  <2> QED
    BY <1>2, <2>1
<1>4. \A i \in 2 .. Len(edges) : edges[i].parent = edges[i - 1].child
  <2> TAKE i \in 2 .. Len(edges)
  <2>1. i - 1 \in 1 .. Len(edges) /\ i - 1 < Len(edges) /\ (i - 1) + 1 = i
    BY <1>1
  <2>2. edges[(i - 1) + 1].parent = edges[i - 1].child
    BY <2>1 DEF Chain
  <2> QED
    BY <2>1, <2>2
<1>5. ASSUME edges # <<>>
      PROVE  1 \in 1 .. Len(edges) /\ Len(edges) \in 1 .. Len(edges) /\ edges[Len(edges)].child = to
  <2>1. Len(edges) >= 1
    BY <1>1, <1>5
  <2> QED
    BY <1>1, <1>5, <2>1 DEF Chain
<1> QED
  BY <1>1, <1>2, <1>3, <1>4, <1>5

LEMMA RouteType ==
  ASSUME NEW edges, NEW from, NEW to, Route(edges, from, to)
  PROVE  Chain(edges, to) /\ edges \in Seq(HistoryEdge) /\ (edges # <<>> => Lead(edges, from, to))
<1>1. CASE edges = <<>>
  BY <1>1, EmptyChain DEF Chain
<1>2. CASE Lead(edges, from, to)
  BY <1>2 DEF Lead, Chain
<1> QED
  BY <1>1, <1>2 DEF Route

LEMMA RouteIsLineage ==
  ASSUME NEW edges, NEW from, NEW to, Route(edges, from, to)
  PROVE  EdgesOf(edges) \in Lineages(from, to)
<1> DEFINE E == EdgesOf(edges)
           n == Len(edges)
           valid == {SUBSET EdgesOf(h.edges) : h \in {g \in histories : g.state = Healthy}}
<1>1. CASE edges = <<>> /\ from = to
  <2>1. E = {}
    BY <1>1 DEF EdgesOf
  <2>2. {} \in UNION (valid \cup {{{}}})
    OBVIOUS
  <2> QED
    BY <1>1, <2>1, <2>2 DEF Lineages
<1>2. CASE Lead(edges, from, to) /\ \E h \in histories : h.state = Healthy /\ E \subseteq EdgesOf(h.edges)
  <2>1. E \in UNION (valid \cup {{{}}})
    <3>1. PICK h \in histories : h.state = Healthy /\ E \subseteq EdgesOf(h.edges)
      BY <1>2
    <3>2. SUBSET EdgesOf(h.edges) \in valid
      BY <3>1
    <3> HIDE DEF E, valid
    <3> QED
      BY <3>1, <3>2
  <2>2. Chain(edges, to) /\ edges # <<>> /\ edges[1].parent = from
    BY <1>2 DEF Lead
  <2>3. /\ n \in Nat /\ DOMAIN edges = 1 .. n /\ 1 \in 1 .. n /\ n \in 1 .. n /\ edges[n].child = to
        /\ \A i \in 1 .. n : /\ edges[i].parent \in Nat /\ edges[i].child \in Nat
                             /\ edges[i].parent < edges[i].child
        /\ \A i, j \in 1 .. n : i < j => edges[i].child < edges[j].child /\ edges[i].parent < edges[j].parent
        /\ \A i \in 2 .. n : edges[i].parent = edges[i - 1].child
    BY <2>2, ChainOrder
  <2>4. E = {edges[i] : i \in 1 .. n}
    BY <2>3 DEF EdgesOf
  <2> HIDE DEF n, E
  <2>5. Children(E) = {edges[i].child : i \in 1 .. n}
    BY <2>4 DEF Children
  <2>6. to \in Children(E) /\ E # {}
    BY <2>3, <2>4, <2>5
  <2>7. \A i \in 1 .. n : from < edges[i].child /\ edges[i].parent # to
    <3> TAKE i \in 1 .. n
    <3>1. edges[1].parent <= edges[i].parent
      BY <2>3
    <3>2. edges[i].child <= edges[n].child
      BY <2>3
    <3> QED
      BY <2>2, <2>3, <3>1, <3>2
  <2>8. from \notin Children(E)
    <3>1. from \in Nat
      BY <2>2, <2>3
    <3> QED
      BY <2>3, <2>5, <2>7, <3>1
  <2>9. \A i \in 1 .. n : edges[i].parent \in Children(E) \cup {from}
    <3> TAKE i \in 1 .. n
    <3>1. CASE i = 1
      BY <2>2, <3>1
    <3>2. CASE i # 1
      <4>1. i \in 2 .. n /\ i - 1 \in 1 .. n
        BY <2>3, <3>2
      <4> QED
        BY <2>3, <2>5, <4>1
    <3> QED
      BY <3>1, <3>2
  <2> QED
    BY <2>1, <2>4, <2>6, <2>7, <2>8, <2>9 DEF Lineages, E
<1> QED
  BY <1>1, <1>2 DEF Route

(* Where a route comes to a timeline, and where it leaves it. *)
LEMMA RouteFacts ==
  ASSUME NEW edges, NEW backup, NEW to, Route(edges, backup.beginTimeline, to)
  PROVE  /\ \A k \in 1 .. Len(edges) + 1 :
              /\ Entry(EdgesOf(edges), backup, TimelineAt(backup, edges, k)) =
                   IF k = 1 THEN backup.begin ELSE edges[k - 1].position
              /\ TimelineAt(backup, edges, k) \in {backup.beginTimeline} \cup Children(EdgesOf(edges))
         /\ \A k \in 1 .. Len(edges) :
              /\ edges[k].parent = TimelineAt(backup, edges, k)
              /\ Exit(EdgesOf(edges), TimelineAt(backup, edges, k)) = edges[k].position
         /\ \A k \in 1 .. Len(edges) + 1 : k \notin 1 .. Len(edges) => TimelineAt(backup, edges, k) = to
<1> DEFINE E == EdgesOf(edges)
           n == Len(edges)
           from == backup.beginTimeline
           T(k) == TimelineAt(backup, edges, k)
<1>1. Chain(edges, to) /\ (edges # <<>> => Lead(edges, from, to)) /\ (edges = <<>> => from = to)
  BY RouteType DEF Route, Lead
<1>2. /\ n \in Nat /\ DOMAIN edges = 1 .. n
      /\ \A i \in 1 .. n : /\ edges[i].parent \in Nat /\ edges[i].child \in Nat
                           /\ edges[i].parent < edges[i].child
      /\ \A i, j \in 1 .. n : i < j => edges[i].child < edges[j].child /\ edges[i].parent < edges[j].parent
      /\ \A i \in 2 .. n : edges[i].parent = edges[i - 1].child
      /\ edges # <<>> => 1 \in 1 .. n /\ n \in 1 .. n /\ edges[n].child = to /\ edges[1].parent = from
  BY <1>1, ChainOrder DEF Lead
<1>3. E = {edges[i] : i \in 1 .. n}
  BY <1>2 DEF EdgesOf
<1>4. n = 0 <=> edges = <<>>
  BY <1>1 DEF Chain
<1> HIDE DEF n, E
<1>5. /\ \A i, j \in 1 .. n : edges[i].child = edges[j].child => i = j
      /\ \A i, j \in 1 .. n : edges[i].parent = edges[j].parent => i = j
  BY <1>2
<1>6. \A i \in 1 .. n : edges[i].child # from
  <2> TAKE i \in 1 .. n
  <2>1. edges # <<>>
    BY <1>2, <1>4
  <2>2. edges[1].parent <= edges[i].parent
    BY <1>2, <2>1
  <2> QED
    BY <1>2, <2>1, <2>2
<1>7. \A i \in 1 .. n : (CHOOSE edge \in E : edge.child = edges[i].child) = edges[i]
  BY <1>3, <1>5
<1>8. \A i \in 1 .. n : (CHOOSE edge \in E : edge.parent = edges[i].parent) = edges[i]
  BY <1>3, <1>5
<1>9. ASSUME NEW k \in 1 .. n + 1
      PROVE  /\ Entry(E, backup, T(k)) = IF k = 1 THEN backup.begin ELSE edges[k - 1].position
             /\ T(k) \in {from} \cup Children(E)
  <2>1. CASE k = 1
    BY <2>1 DEF TimelineAt, Entry
  <2>2. CASE k # 1
    <3>1. k - 1 \in 1 .. n
      BY <1>2, <2>2
    <3>2. T(k) = edges[k - 1].child /\ T(k) # from
      BY <1>6, <2>2, <3>1 DEF TimelineAt
    <3>3. Entry(E, backup, T(k)) = edges[k - 1].position
      BY <1>7, <3>1, <3>2 DEF Entry
    <3>4. T(k) \in Children(E)
      BY <1>3, <3>1, <3>2 DEF Children
    <3> QED
      BY <2>2, <3>3, <3>4
  <2> QED
    BY <2>1, <2>2
<1>10. ASSUME NEW k \in 1 .. n PROVE edges[k].parent = T(k) /\ Exit(E, T(k)) = edges[k].position
  <2>1. edges # <<>>
    BY <1>2, <1>4
  <2>2. edges[k].parent = T(k)
    <3>1. CASE k = 1
      BY <1>2, <2>1, <3>1 DEF TimelineAt
    <3>2. CASE k # 1
      <4>1. k \in 2 .. n
        BY <1>2, <3>2
      <4> QED
        BY <1>2, <3>2, <4>1 DEF TimelineAt
    <3> QED
      BY <3>1, <3>2
  <2> QED
    BY <1>8, <2>2 DEF Exit
<1>11. ASSUME NEW k \in 1 .. n + 1, k \notin 1 .. n PROVE T(k) = to
  <2>1. CASE edges = <<>>
    <3>1. k = 1
      BY <1>4, <2>1
    <3> QED
      BY <1>1, <2>1, <3>1 DEF TimelineAt
  <2>2. CASE edges # <<>>
    <3>1. k # 1 /\ k - 1 = n
      BY <1>2, <1>4, <1>11, <2>2
    <3> QED
      BY <1>2, <2>2, <3>1 DEF TimelineAt
  <2> QED
    BY <2>1, <2>2
<1> QED
  BY <1>9, <1>10, <1>11 DEF n, E

(* The path of a backup to a target follows a route, which does not leave  *)
(* the timeline of the backup too early, or says nothing.                  *)
LEMMA PathRoute ==
  ASSUME ShapeInv, AncestryInv, NEW b, backups[b] \in BackupMetadata, NEW path \in PathSet(b)
  PROVE  \/ \E t : path = unknownPath(b, t)
         \/ \E edges : /\ Route(edges, backups[b].beginTimeline, path.target)
                       /\ path = evaluatePath(b, path.target, edges)
                       /\ edges # <<>> => ~branchBeforeBackup(edges[1], backups[b])
<1> DEFINE backup == backups[b]
<1>1. CASE path = Own(b)
  <2>1. <<>> \in Seq(HistoryEdge)
    OBVIOUS
  <2>2. path.target = backup.beginTimeline /\ path = evaluatePath(b, path.target, <<>>)
    <3>1. path = evaluatePath(b, backups[b].beginTimeline, <<>>)
      BY <1>1 DEF Own
    <3>2. evaluatePath(b, backups[b].beginTimeline, <<>>).target = backups[b].beginTimeline
      BY <2>1, PathFields, ZenonT(40)
    <3> QED
      BY <3>1, <3>2, Zenon
  <2>3. Route(<<>>, backup.beginTimeline, path.target)
    BY <2>2 DEF Route
  <2> QED
    BY <2>2, <2>3
<1>2. CASE path \in Followed(b)
  <2>1. PICK target \in FirstMet(backup) : path = evaluatePath(b, target.timeline, target.edges)
    BY <1>2 DEF Followed
  <2>2. target \in Met(backup) /\ backup.beginTimeline \in Nat
    BY DEF FirstMet, BackupMetadata
  <2>3. PICK h \in Continuing(backup) \ TooEarly(backup) : \E i \in 1 .. Len(Descent(h, backup)) :
           /\ target \in Target
           /\ Lead(target.edges, backup.beginTimeline, target.timeline)
           /\ EdgesOf(target.edges) \subseteq EdgesOf(h.edges)
           /\ target.edges[1] = Descent(h, backup)[1]
    BY <2>2, MetFacts
  <2>4. h \in histories /\ h.state = Healthy /\ ~branchBeforeBackup(target.edges[1], backup)
    BY <2>3 DEF Continuing, TooEarly
  <2>5. target.edges \in Seq(HistoryEdge)
    BY <2>3 DEF Target
  <2>6. path.target = target.timeline
    BY <2>1, <2>5, PathFields
  <2>7. Route(target.edges, backup.beginTimeline, path.target)
    BY <2>3, <2>4, <2>6 DEF Route
  <2> QED
    BY <2>1, <2>4, <2>6, <2>7
<1>3. CASE path \in Lost(b)
  BY <1>3 DEF Lost
<1> QED
  BY <1>1, <1>2, <1>3 DEF PathSet

HealthyLeg(b, edges, i) == Legs(backups[b], edges)[i].reached.state = Healthy

(* A path comes to the start of a leg with everything before it archived. *)
LEMMA LegStart ==
  ASSUME ShapeInv, NEW b, backups[b] \in BackupMetadata, NEW edges, NEW to,
         Route(edges, backups[b].beginTimeline, to),
         NEW k \in 1 .. Len(edges) + 1,
         \A i \in 0 .. k - 1 : HealthyLeg(b, edges, i)
  PROVE  LET backup == backups[b]
             t == TimelineAt(backup, edges, k)
             start == StartAt(backup, edges, k)
             entry == Entry(EdgesOf(edges), backup, t)
         IN  /\ start \in Nat /\ entry \in Nat
             /\ backup.begin <= backup.end => entry <= start
             /\ HasArchived(t, entry, start)
             /\ k > 1 => start \in Archived(t)
<1> DEFINE backup == backups[b]
           t == TimelineAt(backup, edges, k)
           start == StartAt(backup, edges, k)
           entry == Entry(EdgesOf(edges), backup, t)
           legs == Legs(backup, edges)
<1>1. edges \in Seq(HistoryEdge) /\ Len(edges) \in Nat
  BY RouteType
<1>2. backup.begin \in Nat /\ backup.end \in Nat
  BY DEF BackupMetadata
<1>3. entry = IF k = 1 THEN backup.begin ELSE edges[k - 1].position
  BY ONLY RouteFacts, Route(edges, backup.beginTimeline, to), k \in 1 .. Len(edges) + 1
<1>4. CASE k = 1
  <2>1. start = backup.end /\ t = backup.beginTimeline /\ entry = backup.begin
    BY <1>3, <1>4 DEF StartAt, TimelineAt
  <2>2. legs[0].reached = reachPosition(backup.beginTimeline, backup.begin, backup.end)
    BY <1>1, LegsFacts
  <2>3. legs[0].reached.state = Healthy
    BY <1>4 DEF HealthyLeg
  <2>4. \E r \in Holding(backup.beginTimeline, backup.begin) : r.end >= backup.end
    BY <1>2, <2>2, <2>3, ReachFacts
  <2>5. HasArchived(backup.beginTimeline, backup.begin, backup.end)
    BY <1>2, <2>4, HeldRange
  <2> QED
    BY <1>2, <1>4, <2>1, <2>5
<1>5. CASE k # 1
  <2>1. k - 1 \in 1 .. Len(edges) /\ k - 1 \in 0 .. k - 1
    BY <1>1, <1>5
  <2> DEFINE edge == edges[k - 1]
  <2>2. edge \in HistoryEdge
    BY <1>1, <2>1
  <2>3. edge.position \in Nat
    BY <2>2 DEF HistoryEdge
  <2>4. start = edge.position /\ t = edge.child /\ entry = edge.position
    BY <1>3, <1>5 DEF StartAt, TimelineAt
  <2>5. legs[k - 1].reached =
          Leg(TimelineAt(backup, edges, k - 1), StartAt(backup, edges, k - 1), edges[k - 1])
    BY <1>1, <2>1, LegsFacts
  <2>6. legs[k - 1].reached.state = Healthy
    BY <2>1 DEF HealthyLeg
  <2>7. StartAt(backup, edges, k - 1) \in Nat
    <3>1. CASE k - 1 = 1
      BY <1>2, <3>1 DEF StartAt
    <3>2. CASE k - 1 # 1
      <4>1. k - 1 - 1 \in 1 .. Len(edges)
        BY <1>1, <2>1, <3>2
      <4>2. edges[k - 1 - 1] \in HistoryEdge
        BY <1>1, <4>1
      <4> QED
        BY <3>2, <4>2 DEF StartAt, HistoryEdge
    <3> QED
      BY <3>1, <3>2
  <2>8. rangeContains(edge.child, edge.position)
    BY <2>2, <2>5, <2>6, <2>7, LegFacts
  <2>9. edge.position \in Archived(edge.child)
    BY <2>3, <2>8, ContainedIsArchived
  <2>10. HasArchived(edge.child, edge.position, edge.position)
    BY <2>3, <2>9 DEF HasArchived
  <2> QED
    BY <2>3, <2>4, <2>9, <2>10
<1> QED
  BY <1>4, <1>5

(* On a path that stops at a gap the gap is the first thing missing. *)
LEMMA GapIsRequired ==
  ASSUME ShapeInv, NEW b, backups[b] \in BackupMetadata, backups[b].begin <= backups[b].end,
         NEW edges, NEW target, Route(edges, backups[b].beginTimeline, target),
         wal.state # Unknown,
         evaluatePath(b, target, edges).stop \in {CandidateLimited, GapLimited}
  PROVE  LET path == evaluatePath(b, target, edges)
             backup == backups[b]
             E == EdgesOf(edges)
         IN  /\ StopsAtGap(path, path.timeline)
             /\ path.timeline \in {backup.beginTimeline} \cup Children(E)
             /\ Entry(E, backup, path.timeline) <= path.frontier
             /\ HasArchived(path.timeline, Entry(E, backup, path.timeline), path.frontier)
             /\ \/ path.timeline = target
                \/ path.timeline = backup.beginTimeline /\ path.frontier < backup.end
                \/ path.frontier < Exit(E, path.timeline)
<1> DEFINE path == evaluatePath(b, target, edges)
           backup == backups[b]
           E == EdgesOf(edges)
           n == Len(edges)
           legs == Legs(backup, edges)
<1>1. edges \in Seq(HistoryEdge) /\ n \in Nat
  BY RouteType
<1>2. PICK k \in 0 .. n + 1 : EndsAt(path, b, target, edges, k)
  BY <1>1, EvaluateFacts
<1> DEFINE reached == legs[k].reached
<1>3. /\ path.state = reached.state /\ path.stop = reached.stop /\ path.timeline = legs[k].timeline
      /\ path.frontier = reached.frontier
      /\ \A i \in 0 .. k - 1 : HealthyLeg(b, edges, i)
  BY <1>2 DEF EndsAt, HealthyLeg
<1>4. StopsAtGap(path, legs[k].timeline) <=> StopsAtGap(reached, legs[k].timeline)
  BY <1>3 DEF StopsAtGap
<1>5. backup.begin \in Nat /\ backup.end \in Nat
  BY DEF BackupMetadata
<1> HIDE DEF path
<1>6. CASE k = 0
  <2>1. legs[0].timeline = backup.beginTimeline
        /\ legs[0].reached = reachPosition(backup.beginTimeline, backup.begin, backup.end)
    BY <1>1, LegsFacts
  <2>2. reached.stop \in {CandidateLimited, GapLimited}
    BY <1>3 DEF path
  <2>3. /\ StopsAtGap(reached, backup.beginTimeline)
        /\ reached.frontier < backup.end
        /\ \E r \in Holding(backup.beginTimeline, backup.begin) : r.end = reached.frontier
    <3> HIDE DEF legs
    <3>1. reached = reachPosition(backup.beginTimeline, backup.begin, backup.end)
      BY <1>6, <2>1
    <3> HIDE DEF reached, backup
    <3> QED
      BY ONLY <1>5, <2>2, <3>1, ShapeInv, ReachFacts
  <2>4. PICK r \in Holding(backup.beginTimeline, backup.begin) : r.end = reached.frontier
    BY <2>3
  <2>5. r.end \in Nat /\ backup.begin <= r.end
    BY <1>5, HoldingIsOne
  <2>6. HasArchived(backup.beginTimeline, backup.begin, r.end)
    <3>1. r.end >= r.end
      BY <2>5
    <3> QED
      BY <1>5, <2>5, <3>1, HeldRange
  <2>7. Entry(E, backup, backup.beginTimeline) = backup.begin
    BY DEF Entry
  <2> HIDE DEF reached, legs
  <2> QED
    BY <1>3, <1>4, <1>6, <2>1, <2>3, <2>4, <2>5, <2>6, <2>7 DEF path
<1>7. CASE k \in 1 .. n + 1
  <2> DEFINE t == TimelineAt(backup, edges, k)
             start == StartAt(backup, edges, k)
             entry == Entry(E, backup, t)
  <2>1. start \in Nat /\ entry \in Nat /\ entry <= start /\ HasArchived(t, entry, start)
    BY <1>3, <1>7, LegStart
  <2>2. /\ t \in {backup.beginTimeline} \cup Children(E)
        /\ k <= n => Exit(E, t) = edges[k].position
        /\ k = n + 1 => t = target
    <3>1. ASSUME NEW c, Route(edges, c.beginTimeline, target)
          PROVE  /\ TimelineAt(c, edges, k) \in {c.beginTimeline} \cup Children(E)
                 /\ k \in 1 .. n => Exit(E, TimelineAt(c, edges, k)) = edges[k].position
                 /\ k \notin 1 .. n => TimelineAt(c, edges, k) = target
      BY ONLY <1>7, <3>1, RouteFacts, ZenonT(40)
    <3>2. /\ k <= n => k \in 1 .. n
          /\ k = n + 1 => k \notin 1 .. n
      BY <1>1, <1>7
    <3> QED
      BY <3>1, <3>2
  <2>3. legs[k].timeline = t
    <3>1. CASE k \in 1 .. n
      BY <1>1, <3>1, LegsFacts
    <3>2. CASE k = n + 1
      BY <1>1, <3>2, LegsFacts
    <3> HIDE DEF n
    <3>3. k \in 1 .. n \/ k = n + 1
      BY <1>1, <1>7
    <3> QED
      BY <3>1, <3>2, <3>3
  <2>4. reached.stop \in {CandidateLimited, GapLimited}
    BY <1>3 DEF path
  <2>5. /\ StopsAtGap(reached, t)
        /\ \E r \in Holding(t, start) : r.end = reached.frontier
        /\ t = target \/ reached.frontier < Exit(E, t)
    <3>1. CASE k \in 1 .. n
      <4>1. legs[k].reached = Leg(t, start, edges[k])
        BY <1>1, <3>1, LegsFacts
      <4>2. edges[k] \in HistoryEdge
        BY <1>1, <3>1
      <4>3. edges[k].position \in Nat
        BY <4>2 DEF HistoryEdge
      <4> HIDE DEF t, start
      <4>4. reached = reachPosition(t, start, edges[k].position)
        BY <2>1, <2>4, <4>1, <4>2, LegFacts
      <4>5. /\ StopsAtGap(reached, t)
            /\ reached.frontier < edges[k].position
            /\ \E r \in Holding(t, start) : r.end = reached.frontier
        <5> HIDE DEF reached
        <5> QED
          BY ONLY <2>1, <2>4, <4>3, <4>4, ShapeInv, ReachFacts
      <4>6. Exit(E, t) = edges[k].position
        BY <1>1, <2>2, <3>1
      <4> QED
        BY <4>5, <4>6
    <3>2. CASE k = n + 1
      <4>1. legs[k].reached = contiguousFrontier(t, start)
        BY <1>1, <3>2, LegsFacts
      <4> HIDE DEF t, start
      <4> QED
        BY <2>1, <2>2, <2>4, <3>2, <4>1, FrontierFacts
    <3> HIDE DEF n
    <3>3. k \in 1 .. n \/ k = n + 1
      BY <1>1, <1>7
    <3> QED
      BY <3>1, <3>2, <3>3
  <2> HIDE DEF t, start, entry
  <2>6. PICK r \in Holding(t, start) : r.end = reached.frontier
    BY <2>5
  <2>7. r.end \in Nat /\ start <= r.end
    BY <2>1, HoldingIsOne
  <2>8. HasArchived(t, entry, r.end)
    <3>1. r.end >= r.end
      BY <2>7
    <3>2. HasArchived(t, start, r.end)
      BY <2>1, <2>7, <3>1, HeldRange
    <3> QED
      BY <2>1, <2>7, <3>2, JoinedRanges
  <2> HIDE DEF reached, legs
  <2> QED
    BY <1>3, <1>4, <2>1, <2>2, <2>3, <2>5, <2>6, <2>7, <2>8 DEF path, entry
<1> HIDE DEF n
<1>8. k = 0 \/ k \in 1 .. n + 1
  BY <1>1
<1> QED
  BY <1>6, <1>7, <1>8

LEMMA UnknownStopsAtNothing ==
  ASSUME NEW b, NEW t
  PROVE  /\ unknownPath(b, t).stop \notin {CandidateLimited, GapLimited}
         /\ unknownPath(b, t).state # Healthy
BY DEF unknownPath, UnknownLimited, CandidateLimited, GapLimited, Unknown, Healthy

(* reachPosition, contiguousFrontier: a gap that stops a path is the first *)
(* thing missing from what the path needs.                                 *)
THEOREM RequiredGaps == Spec => []GapsThatStopAreRequired
<1>1. CoverageInv => GapsThatStopAreRequired
  <2> SUFFICES ASSUME CoverageInv, NEW i \in DOMAIN paths,
                      paths[i].stop \in {CandidateLimited, GapLimited}
               PROVE  LET path   == paths[i]
                          backup == backups[path.backup]
                      IN  /\ StopsAtGap(path, path.timeline)
                          /\ \E edges \in Lineages(backup.beginTimeline, path.target) :
                               /\ path.timeline \in {backup.beginTimeline} \cup Children(edges)
                               /\ Entry(edges, backup, path.timeline) <= path.frontier
                               /\ HasArchived(path.timeline, Entry(edges, backup, path.timeline),
                                              path.frontier)
                               /\ \/ path.timeline = path.target
                                  \/ path.timeline = backup.beginTimeline /\ path.frontier < backup.end
                                  \/ path.frontier < Exit(edges, path.timeline)
    BY DEF GapsThatStopAreRequired, StopsAtGap
  <2> DEFINE path == paths[i]
             b == path.backup
             backup == backups[b]
  <2>1. ShapeInv /\ AncestryInv /\ PathInv
    BY DEF CoverageInv
  <2>2. /\ PathFor(b, path) /\ backup \in BackupMetadata
    BY <2>1 DEF PathInv, PathTypeOK, PathsAreExplained
  <2>3. Anchored(b) /\ path \in PathSet(b)
    BY <2>2, UnknownStopsAtNothing DEF PathFor
  <2>4. backup.begin <= backup.end
    BY <2>3 DEF Anchored, CannotAnchor, AnchorsAreValid
  <2>5. PICK edges : /\ Route(edges, backup.beginTimeline, path.target)
                     /\ path = evaluatePath(b, path.target, edges)
    BY <2>1, <2>2, <2>3, PathRoute, UnknownStopsAtNothing
  <2>6. wal.state # Unknown
    BY <2>5, UnknownStopsAtNothing DEF evaluatePath
  <2>7. EdgesOf(edges) \in Lineages(backup.beginTimeline, path.target)
    BY <2>5, RouteIsLineage
  <2> QED
    BY <2>1, <2>2, <2>4, <2>5, <2>6, <2>7, GapIsRequired
<1> QED
  BY <1>1, CoverageInvariance, PTL

-----------------------------------------------------------------------------
(* Healthy paths *)

(* A switch comes after the backup if it does not come before, and if one  *)
(* does so do all that follow.                                             *)
LEMMA SwitchesAfterBackup ==
  ASSUME NEW backup \in BackupMetadata, NEW edges, NEW to, Chain(edges, to)
  PROVE  /\ \A i \in 1 .. Len(edges) :
              AfterBackup(edges[i], backup) <=> ~branchBeforeBackup(edges[i], backup)
         /\ \A i \in 1 .. Len(edges) :
              AfterBackup(edges[1], backup) => AfterBackup(edges[i], backup)
<1>1. backup.endLSN \in Nat /\ backup.end \in Nat
  BY DEF BackupMetadata
<1>2. /\ \A i \in 1 .. Len(edges) : edges[i].lsn \in Nat /\ edges[i].position \in Nat
      /\ \A i, j \in 1 .. Len(edges) : i < j =>
           edges[i].lsn < edges[j].lsn /\ edges[i].position <= edges[j].position
      /\ Len(edges) \in Nat
  BY ChainOrder
<1>3. \A i \in 1 .. Len(edges) :
        AfterBackup(edges[i], backup) <=> ~branchBeforeBackup(edges[i], backup)
  BY <1>1, <1>2 DEF AfterBackup, branchBeforeBackup
<1>4. ASSUME NEW i \in 1 .. Len(edges), AfterBackup(edges[1], backup)
      PROVE  AfterBackup(edges[i], backup)
  <2>1. 1 \in 1 .. Len(edges) /\ (i = 1 \/ 1 < i)
    BY <1>2
  <2>2. edges[1].lsn <= edges[i].lsn /\ edges[1].position <= edges[i].position
    BY <1>2, <2>1
  <2> QED
    BY <1>1, <1>2, <1>4, <2>1, <2>2 DEF AfterBackup
<1> QED
  BY <1>3, <1>4

(* A healthy path can be replayed, to the newest segment of its target. *)
LEMMA HealthyIsReplayable ==
  ASSUME ShapeInv, NEW b, backups[b] \in BackupMetadata, backups[b].begin <= backups[b].end,
         NEW edges, NEW target, Route(edges, backups[b].beginTimeline, target),
         edges # <<>> => ~branchBeforeBackup(edges[1], backups[b]),
         wal.state # Unknown,
         evaluatePath(b, target, edges).state = Healthy
  PROVE  LET path == evaluatePath(b, target, edges)
         IN  /\ Replayable(backups[b], target)
             /\ path.stop = Frontier
             /\ path.timeline = target
             /\ path.frontier \in Archived(target)
             /\ \A p \in Archived(target) : p <= path.frontier
<1> DEFINE path == evaluatePath(b, target, edges)
           backup == backups[b]
           E == EdgesOf(edges)
           n == Len(edges)
           legs == Legs(backup, edges)
           T(k) == TimelineAt(backup, edges, k)
           S(k) == StartAt(backup, edges, k)
           In(k) == Entry(E, backup, T(k))
<1>1. /\ edges \in Seq(HistoryEdge) /\ n \in Nat /\ DOMAIN edges = 1 .. n /\ Chain(edges, target)
      /\ E = {edges[i] : i \in 1 .. n}
  BY RouteType DEF EdgesOf
<1>2. PICK k \in 0 .. n + 1 : EndsAt(path, b, target, edges, k)
  BY <1>1, EvaluateFacts
<1>3. k = n + 1
  BY <1>2 DEF EndsAt
<1>4. /\ path.state = legs[n + 1].reached.state /\ path.stop = legs[n + 1].reached.stop
      /\ path.timeline = legs[n + 1].timeline /\ path.frontier = legs[n + 1].reached.frontier
  BY <1>2, <1>3 DEF EndsAt
<1>5. \A i \in 0 .. n : HealthyLeg(b, edges, i)
  <2>1. \A i \in 0 .. n : i \in 0 .. k - 1
    BY <1>1, <1>3
  <2> QED
    BY <1>2, <2>1 DEF EndsAt, HealthyLeg
<1> HIDE DEF path
<1>6. \A i \in 1 .. n + 1 : /\ S(i) \in Nat /\ In(i) \in Nat /\ In(i) <= S(i)
                            /\ HasArchived(T(i), In(i), S(i))
                            /\ i > 1 => S(i) \in Archived(T(i))
  <2> TAKE i \in 1 .. n + 1
  <2>1. \A j \in 0 .. i - 1 : HealthyLeg(b, edges, j)
    BY <1>1, <1>5
  <2> QED
    BY <2>1, LegStart
<1>7. ASSUME NEW c, Route(edges, c.beginTimeline, target)
      PROVE  /\ \A i \in 1 .. n : edges[i].parent = TimelineAt(c, edges, i)
             /\ \A i \in 1 .. n + 1 : i \notin 1 .. n => TimelineAt(c, edges, i) = target
  BY ONLY <1>7, RouteFacts, ZenonT(40)
<1>8. /\ \A i \in 1 .. n : edges[i].parent = T(i)
      /\ T(n + 1) = target
  <2>1. \A i \in 1 .. n : edges[i].parent = T(i)
    BY <1>7
  <2>2. n + 1 \in 1 .. n + 1 /\ n + 1 \notin 1 .. n
    BY <1>1
  <2>3. \A i \in 1 .. n + 1 : i \notin 1 .. n => T(i) = target
    BY <1>7
  <2> HIDE DEF n, T
  <2> QED
    BY <2>1, <2>2, <2>3
<1>9. ASSUME NEW i \in 1 .. n
      PROVE  HasArchived(edges[i].parent, Entry(E, backup, edges[i].parent), edges[i].position)
  <2>1. legs[i].reached = Leg(T(i), S(i), edges[i])
    BY <1>1, LegsFacts
  <2>2. legs[i].reached.state = Healthy
    BY <1>1, <1>5 DEF HealthyLeg
  <2>3. edges[i] \in HistoryEdge /\ i \in 1 .. n + 1
    BY <1>1
  <2>4. edges[i].position \in Nat
    BY <2>3 DEF HistoryEdge
  <2> HIDE DEF S, T, In
  <2>5. reachPosition(T(i), S(i), edges[i].position).state = Healthy
    BY <1>6, <2>1, <2>2, <2>3, LegFacts
  <2>6. \E r \in Holding(T(i), S(i)) : r.end >= edges[i].position
    BY <1>6, <2>3, <2>4, <2>5, ReachFacts
  <2>7. HasArchived(T(i), S(i), edges[i].position)
    BY <1>6, <2>3, <2>4, <2>6, HeldRange
  <2>8. HasArchived(T(i), In(i), edges[i].position)
    BY <1>6, <2>3, <2>4, <2>7, JoinedRanges
  <2> QED
    BY <1>8, <2>8 DEF In
<1>10. /\ legs[n + 1].timeline = target
       /\ legs[n + 1].reached = contiguousFrontier(target, S(n + 1))
  <2>1. /\ legs[n + 1].timeline = T(n + 1)
        /\ legs[n + 1].reached = contiguousFrontier(T(n + 1), S(n + 1))
    BY <1>1, LegsFacts
  <2> QED
    BY <1>8, <2>1
<1>11. n + 1 \in 1 .. n + 1 /\ S(n + 1) \in Nat
  <2>1. n + 1 \in 1 .. n + 1
    BY <1>1
  <2> HIDE DEF n, S, T, In
  <2> QED
    BY <1>6, <2>1
<1>12. /\ path.stop = Frontier
       /\ \E r \in Holding(target, S(n + 1)) : IsLastRange(r) /\ r.end = path.frontier
  <2>1. legs[n + 1].reached.state = Healthy
    BY <1>4 DEF path
  <2> HIDE DEF legs, S
  <2> QED
    BY <1>4, <1>10, <1>11, <2>1, FrontierFacts
<1>13. PICK r \in Holding(target, S(n + 1)) : IsLastRange(r) /\ r.end = path.frontier
  BY <1>12
<1>14. path.frontier \in Archived(target) /\ \A p \in Archived(target) : p <= path.frontier
  BY <1>11, <1>13, LastRange
<1>15. /\ In(n + 1) \in Nat /\ In(n + 1) <= S(n + 1)
       /\ HasArchived(target, In(n + 1), S(n + 1))
       /\ In(n + 1) = Entry(E, backup, target)
  BY <1>6, <1>8, <1>11
<1> HIDE DEF In, S
<1>16. \A p \in Archived(target) : p \in Nat /\ HasArchived(target, In(n + 1), p)
  <2> TAKE p \in Archived(target)
  <2>1. p \in Nat /\ p <= r.end
    BY <1>13, <1>14, ArchivedIsHeld
  <2>2. HasArchived(target, S(n + 1), p)
    BY <1>11, <1>13, <2>1, HeldRange
  <2> QED
    BY <1>11, <1>15, <2>1, <2>2, JoinedRanges
<1>17. In(n + 1) \in Archived(target)
  BY <1>11, <1>15 DEF HasArchived
<1>18. HasArchived(backup.beginTimeline, backup.begin, backup.end)
  <2>1. T(1) = backup.beginTimeline /\ S(1) = backup.end
    BY DEF TimelineAt, StartAt, S
  <2>2. In(1) = backup.begin
    BY <2>1 DEF Entry, In
  <2>3. 1 \in 1 .. n + 1
    BY <1>1
  <2>4. HasArchived(T(1), In(1), S(1))
    BY <1>6, <2>3 DEF In, S
  <2> QED
    BY <2>1, <2>2, <2>4
<1>19. \A i \in 1 .. n : AfterBackup(edges[i], backup)
  <2> TAKE i \in 1 .. n
  <2>1. edges # <<>> /\ 1 \in 1 .. n
    BY <1>1
  <2> QED
    BY <1>1, <2>1, SwitchesAfterBackup
<1>20. Replayable(backup, target)
  <2>1. E \in Lineages(backup.beginTimeline, target)
    BY RouteIsLineage
  <2>2. \A edge \in E : /\ AfterBackup(edge, backup)
                        /\ HasArchived(edge.parent, Entry(E, backup, edge.parent), edge.position)
    BY <1>1, <1>9, <1>19
  <2> HIDE DEF E
  <2> QED
    BY <1>15, <1>16, <1>17, <1>18, <2>1, <2>2 DEF Replayable
<1>21. path.timeline = target
  BY <1>4, <1>10
<1> QED
  BY <1>12, <1>14, <1>20, <1>21 DEF path

-----------------------------------------------------------------------------
(* Lineages are routes *)

(* The switches of a lineage, in the order in which they occur, are the    *)
(* part of a history between its two timelines.                            *)
LEMMA LineageIsPart ==
  ASSUME NEW edges, NEW last, Chain(edges, last), NEW L, L \subseteq EdgesOf(edges),
         NEW from, NEW to,
         to \in Children(L), from \notin Children(L),
         \A e \in L : e.parent # to /\ e.parent \in Children(L) \cup {from}
  PROVE  \E k, m \in 1 .. Len(edges) :
           /\ k <= m
           /\ edges[k].parent = from /\ edges[m].child = to
           /\ L = {edges[i] : i \in k .. m}
<1> DEFINE n == Len(edges)
           at == {i \in 1 .. n : edges[i] \in L}
<1>1. /\ n \in Nat /\ DOMAIN edges = 1 .. n
      /\ \A i \in 1 .. n : /\ edges[i].parent \in Nat /\ edges[i].child \in Nat
                           /\ edges[i].parent < edges[i].child
      /\ \A i, j \in 1 .. n : i < j => edges[i].child < edges[j].child /\ edges[i].parent < edges[j].parent
      /\ \A i \in 2 .. n : edges[i].parent = edges[i - 1].child
  BY ChainOrder
<1>2. /\ L = {edges[i] : i \in at} /\ at \subseteq 1 .. n
  BY <1>1 DEF EdgesOf
<1> HIDE DEF n
<1>3. \A i, j \in 1 .. n : edges[i].child = edges[j].child => i = j
  BY <1>1
<1>4. PICK m \in at : edges[m].child = to
  BY <1>2 DEF Children
<1>5. \A i \in at : edges[i].parent = from \/ i - 1 \in at
  <2> TAKE i \in at
  <2>1. CASE edges[i].parent \in Children(L)
    <3>1. PICK j \in at : edges[j].child = edges[i].parent
      BY <1>2, <2>1 DEF Children
    <3>2. j \in 1 .. n /\ i \in 1 .. n
      BY <1>2
    <3>3. j < i
      BY <1>1, <3>1, <3>2
    <3>4. i \in 2 .. n /\ i - 1 \in 1 .. n
      BY <1>1, <3>2, <3>3
    <3>5. edges[i - 1].child = edges[j].child
      BY <1>1, <3>1, <3>4
    <3>6. i - 1 = j
      BY <1>3, <3>2, <3>4, <3>5
    <3> QED
      BY <3>1, <3>6
  <2>2. edges[i] \in L
    OBVIOUS
  <2> QED
    BY <2>1, <2>2
<1>6. PICK k \in at : \A i \in at : k <= i
  <2>1. at \in SUBSET Nat /\ at # {}
    BY <1>1, <1>2, <1>4
  <2> QED
    BY <2>1, LeastElement
<1>7. k \in 1 .. n /\ m \in 1 .. n /\ k <= m
  BY <1>2, <1>4, <1>6
<1>8. edges[k].parent = from
  <2>1. k - 1 \notin at
    BY <1>6, <1>7
  <2> QED
    BY <1>5, <2>1
<1>9. \A i \in at : i <= m
  <2> DEFINE beyond == {i \in at : i > m}
  <2> SUFFICES ASSUME beyond # {} PROVE FALSE
    <3>1. \A i \in at : i \in 1 .. n
      BY <1>2
    <3> HIDE DEF at
    <3> QED
      BY <1>1, <1>7, <3>1
  <2>1. PICK j \in beyond : \A i \in beyond : j <= i
    <3>1. beyond \in SUBSET Nat
      BY <1>1, <1>2
    <3> QED
      BY <3>1, LeastElement
  <2>2. j \in at /\ j > m /\ j \in 1 .. n
    BY <1>2, <2>1
  <2>3. edges[j].parent # from
    BY <1>1, <1>7, <1>8, <2>2
  <2>4. j - 1 \in at
    BY <1>5, <2>2, <2>3
  <2>5. j - 1 = m
    <3>1. j - 1 \notin beyond
      BY <2>1, <2>2
    <3> QED
      BY <1>7, <2>2, <2>4, <3>1
  <2>6. edges[j].parent = to
    <3>1. j \in 2 .. n
      BY <1>1, <1>7, <2>2
    <3> QED
      BY <1>1, <1>4, <2>5, <3>1
  <2> QED
    BY <2>2, <2>6
<1>10. \A i \in k .. m : i \in at
  <2> DEFINE missing == {d \in 0 .. m - k : m - d \notin at}
  <2>1. missing = {}
    <3> SUFFICES ASSUME missing # {} PROVE FALSE
      OBVIOUS
    <3>1. PICK d \in missing : \A e \in missing : d <= e
      <4>1. missing \in SUBSET Nat
        BY <1>7
      <4> QED
        BY <4>1, LeastElement
    <3>2. d \in 0 .. m - k /\ m - d \notin at
      BY <3>1
    <3>3. d # 0
      BY <1>4, <1>7, <3>2
    <3>4. d - 1 \in 0 .. m - k /\ d - 1 \notin missing
      BY <1>7, <3>1, <3>2, <3>3
    <3>5. m - (d - 1) \in at
      BY <3>4
    <3>6. edges[m - (d - 1)].parent = from
      <4>1. m - (d - 1) - 1 = m - d
        BY <1>7, <3>2
      <4> QED
        BY <1>5, <3>2, <3>5, <4>1
    <3>7. m - (d - 1) > k /\ m - (d - 1) \in 1 .. n
      BY <1>2, <1>7, <3>2, <3>5
    <3> QED
      BY <1>1, <1>7, <1>8, <3>6, <3>7
  <2> TAKE i \in k .. m
  <2>2. m - i \in 0 .. m - k /\ m - (m - i) = i
    BY <1>7
  <2> QED
    BY <2>1, <2>2
<1>11. at = k .. m
  BY <1>2, <1>6, <1>7, <1>9, <1>10
<1>12. L = {edges[i] : i \in k .. m}
  BY <1>2, <1>11
<1> HIDE DEF at
<1> QED
  BY <1>4, <1>7, <1>8, <1>12 DEF n

(* Two histories that lead from one timeline to another do so over the     *)
(* same switches, because no two known edges lead to one timeline.         *)
LEMMA LeadsAgree ==
  ASSUME KnownEdgesAgree, NEW d, NEW e, NEW from, NEW s, NEW t, Lead(d, from, s), Lead(e, from, t),
         EdgesOf(d) \subseteq known, EdgesOf(e) \subseteq known,
         NEW i \in 1 .. Len(d), NEW j \in 1 .. Len(e), d[i].child = e[j].child
  PROVE  i = j /\ \A x \in 1 .. i : d[x] = e[x]
<1>1. /\ Len(d) \in Nat /\ DOMAIN d = 1 .. Len(d) /\ d[1].parent = from
      /\ \A x, y \in 1 .. Len(d) : x < y => d[x].parent < d[y].parent
      /\ \A x \in 1 .. Len(d) : d[x].parent \in Nat
      /\ \A x \in 2 .. Len(d) : d[x].parent = d[x - 1].child
  BY ChainOrder DEF Lead
<1>2. /\ Len(e) \in Nat /\ DOMAIN e = 1 .. Len(e) /\ e[1].parent = from
      /\ \A x, y \in 1 .. Len(e) : x < y => e[x].parent < e[y].parent
      /\ \A x \in 1 .. Len(e) : e[x].parent \in Nat
      /\ \A x \in 2 .. Len(e) : e[x].parent = e[x - 1].child
  BY ChainOrder DEF Lead
<1>3. /\ \A x \in 1 .. Len(d) : d[x] \in known
      /\ \A x \in 1 .. Len(e) : e[x] \in known
  BY <1>1, <1>2 DEF EdgesOf
<1>4. \A x \in 1 .. Len(d), y \in 1 .. Len(e) : d[x].child = e[y].child => d[x] = e[y]
  BY <1>3 DEF KnownEdgesAgree
<1> DEFINE less == IF i <= j THEN i ELSE j
           differ == {x \in 0 .. less - 1 : d[i - x] # e[j - x]}
<1>5. less \in Nat \ {0} /\ less <= i /\ less <= j
  OBVIOUS
<1>6. differ = {}
  <2> SUFFICES ASSUME differ # {} PROVE FALSE
    OBVIOUS
  <2>1. PICK x \in differ : \A y \in differ : x <= y
    <3>1. differ \in SUBSET Nat
      BY <1>5
    <3> QED
      BY <3>1, LeastElement
  <2>2. x \in 0 .. less - 1 /\ d[i - x] # e[j - x]
    BY <2>1
  <2> HIDE DEF less, differ
  <2>3. x # 0
    BY <1>4, <2>2
  <2>4. x - 1 \in 0 .. less - 1 /\ x - 1 \notin differ
    <3>1. x \in Nat /\ x - 1 \in 0 .. less - 1 /\ ~(x <= x - 1)
      BY <1>5, <2>2, <2>3
    <3> QED
      BY <2>1, <3>1
  <2>5. d[i - (x - 1)] = e[j - (x - 1)]
    BY <2>4 DEF differ
  <2>6. /\ i - (x - 1) \in 2 .. Len(d) /\ i - (x - 1) - 1 = i - x /\ i - x \in 1 .. Len(d)
        /\ j - (x - 1) \in 2 .. Len(e) /\ j - (x - 1) - 1 = j - x /\ j - x \in 1 .. Len(e)
    <3>1. x \in Nat /\ x >= 1 /\ x < i /\ x < j
      BY <1>5, <2>2, <2>3
    <3>2. Len(d) \in Nat /\ Len(e) \in Nat /\ i <= Len(d) /\ j <= Len(e)
      BY <1>1, <1>2
    <3> QED
      BY ONLY <3>1, <3>2, i \in 1 .. Len(d), j \in 1 .. Len(e)
  <2>7. d[i - x].child = e[j - x].child
    BY <1>1, <1>2, <2>5, <2>6
  <2> QED
    BY <1>4, <2>2, <2>6, <2>7
<1>7. d[i - (less - 1)] = e[j - (less - 1)]
  <2>1. less - 1 \in 0 .. less - 1
    BY <1>5
  <2> HIDE DEF less
  <2> QED
    BY <1>6, <2>1
<1>8. i = j
  <2>1. CASE i < j
    <3>1. less = i /\ d[1] = e[j - (i - 1)]
      BY <1>7, <2>1
    <3>2. 1 \in 1 .. Len(e) /\ j - (i - 1) \in 1 .. Len(e) /\ 1 < j - (i - 1)
      BY <1>2, <2>1
    <3>3. e[1].parent < e[j - (i - 1)].parent /\ e[1].parent \in Nat
      BY <1>2, <3>2
    <3>4. d[1].parent = from /\ e[1].parent = from
      BY <1>1, <1>2
    <3>5. e[j - (i - 1)].parent = from
      BY <3>1, <3>4
    <3>6. from < from /\ from \in Nat
      BY <3>3, <3>4, <3>5
    <3> QED
      BY <3>6
  <2>2. CASE j < i
    <3>1. less = j /\ e[1] = d[i - (j - 1)]
      BY <1>7, <2>2
    <3>2. 1 \in 1 .. Len(d) /\ i - (j - 1) \in 1 .. Len(d) /\ 1 < i - (j - 1)
      BY <1>1, <2>2
    <3>3. d[1].parent < d[i - (j - 1)].parent /\ d[1].parent \in Nat
      BY <1>1, <3>2
    <3>4. d[1].parent = from /\ e[1].parent = from
      BY <1>1, <1>2
    <3>5. d[i - (j - 1)].parent = from
      BY <3>1, <3>4
    <3>6. from < from /\ from \in Nat
      BY <3>3, <3>4, <3>5
    <3> QED
      BY <3>6
  <2> QED
    BY <1>1, <1>2, <2>1, <2>2
<1>9. ASSUME NEW x \in 1 .. i PROVE d[x] = e[x]
  <2>1. i - x \in 0 .. less - 1 /\ i - (i - x) = x /\ j - (i - x) = x
    BY <1>8
  <2> HIDE DEF less
  <2> QED
    BY <1>6, <2>1
<1> QED
  BY <1>8, <1>9

(* The first part of a descent, as a lineage. *)
Part(d, i) == {d[x] : x \in 1 .. i}

ComesTo(h, backup, to, L) ==
  \E i \in 1 .. Len(Descent(h, backup)) :
    Descent(h, backup)[i].child = to /\ L = Part(Descent(h, backup), i)

LEMMA LineageIsDescent ==
  ASSUME ShapeInv, AncestryInv, NEW backup, NEW to, NEW L,
         L \in Lineages(backup.beginTimeline, to), L # {}
  PROVE  \E h \in Continuing(backup) : ComesTo(h, backup, to, L)
<1> DEFINE from == backup.beginTimeline
<1>1. PICK h \in histories : h.state = Healthy /\ L \subseteq EdgesOf(h.edges)
  BY DEF Lineages
<1>2. /\ to \in Children(L) /\ from \notin Children(L)
      /\ \A e \in L : e.parent # to /\ e.parent \in Children(L) \cup {from}
  BY DEF Lineages
<1>3. Chain(h.edges, h.timeline)
  BY DEF ShapeInv
<1> DEFINE edges == h.edges
           n == Len(edges)
<1>4. \E k, m \in 1 .. n :
        k <= m /\ edges[k].parent = from /\ edges[m].child = to /\ L = {edges[x] : x \in k .. m}
  BY <1>1, <1>2, <1>3, LineageIsPart
<1>5. PICK k \in 1 .. n, m \in 1 .. n :
        k <= m /\ edges[k].parent = from /\ edges[m].child = to /\ L = {edges[x] : x \in k .. m}
  BY <1>4
<1>6. /\ edges \in Seq(HistoryEdge) /\ n \in Nat /\ DOMAIN edges = 1 .. n
      /\ \A x \in 1 .. n : /\ edges[x].parent \in Nat /\ edges[x].child \in Nat
                           /\ edges[x].parent < edges[x].child
      /\ \A x, y \in 1 .. n : x < y => edges[x].child < edges[y].child /\ edges[x].parent < edges[y].parent
      /\ edges # <<>> => n \in 1 .. n /\ edges[n].child = h.timeline
  BY <1>3, ChainOrder
<1>7. h.timeline # from
  <2>1. edges # <<>> /\ n \in 1 .. n /\ edges[n].child = h.timeline
    BY <1>5, <1>6
  <2>2. edges[k].child <= edges[n].child
    BY <1>5, <1>6, <2>1, SMTT(20)
  <2> QED
    BY <1>5, <1>6, <2>1, <2>2
<1> DEFINE starts == {x \in DOMAIN edges : edges[x].parent = from}
           d == Descent(h, backup)
<1>8. starts = {k}
  BY <1>5, <1>6, SMTT(20)
<1>9. d = SubSeq(edges, k, n)
  <2>1. (CHOOSE x \in starts : TRUE) = k /\ starts # {}
    BY <1>8
  <2> QED
    BY <2>1 DEF Descent, descendantEdges
<1>10. Len(d) = n - k + 1 /\ \A x \in 1 .. Len(d) : d[x] = edges[k + x - 1]
  <2>1. n \in 1 .. n /\ k <= n
    BY <1>5, <1>6
  <2> QED
    BY <1>3, <1>5, <1>9, <2>1, ChainPart
<1>11. h \in Continuing(backup)
  <2>1. Len(d) # 0
    BY <1>5, <1>6, <1>10
  <2>2. d # <<>>
    BY <2>1
  <2> QED
    BY <1>1, <1>7, <2>2 DEF Continuing
<1> DEFINE i == m - k + 1
<1>12. i \in 1 .. Len(d) /\ d[i] = edges[m]
  <2>1. i \in 1 .. Len(d)
    BY <1>5, <1>6, <1>10
  <2>2. k + i - 1 = m
    BY <1>5, <1>6
  <2> HIDE DEF i, d
  <2> QED
    BY <1>10, <2>1, <2>2
<1>13. L = Part(d, i)
  <2>1. \A x \in k .. m : x - k + 1 \in 1 .. i /\ d[x - k + 1] = edges[x]
    <3> TAKE x \in k .. m
    <3>1. x - k + 1 \in 1 .. i /\ x - k + 1 \in 1 .. Len(d) /\ k + (x - k + 1) - 1 = x
      BY <1>5, <1>6, <1>10
    <3> HIDE DEF d
    <3> QED
      BY <1>10, <3>1
  <2>2. \A x \in 1 .. i : k + x - 1 \in k .. m /\ d[x] = edges[k + x - 1]
    <3> TAKE x \in 1 .. i
    <3>1. k + x - 1 \in k .. m
      BY <1>5, <1>6
    <3> HIDE DEF d
    <3>2. x \in 1 .. Len(d)
      BY <1>5, <1>6, <1>10
    <3> QED
      BY <1>10, <3>1, <3>2
  <2> HIDE DEF d, i
  <2>3. L \subseteq Part(d, i)
    BY <1>5, <2>1 DEF Part
  <2>4. Part(d, i) \subseteq L
    BY <1>5, <2>2 DEF Part
  <2> QED
    BY <2>3, <2>4
<1> HIDE DEF i
<1> QED
  BY <1>5, <1>11, <1>12, <1>13 DEF ComesTo

(* Any part of a descent is a route. *)
LEMMA DescentIsRoute ==
  ASSUME ShapeInv, AncestryInv, NEW backup, NEW h \in Continuing(backup),
         NEW i \in 1 .. Len(Descent(h, backup))
  PROVE  LET d == Descent(h, backup)
         IN  /\ Route(SubSeq(d, 1, i), backup.beginTimeline, d[i].child)
             /\ Part(d, i) \in Lineages(backup.beginTimeline, d[i].child)
             /\ Lead(d, backup.beginTimeline, h.timeline)
             /\ EdgesOf(d) \subseteq known
<1> DEFINE d == Descent(h, backup)
           part == SubSeq(d, 1, i)
<1>1. /\ h \in histories /\ h.state = Healthy /\ Lead(d, backup.beginTimeline, h.timeline)
      /\ EdgesOf(d) \subseteq EdgesOf(h.edges)
  BY DescentFacts
<1>2. Chain(d, h.timeline) /\ d[1].parent = backup.beginTimeline /\ Len(d) \in Nat
  BY <1>1 DEF Lead, Chain
<1>3. 1 \in 1 .. Len(d) /\ 1 <= i
  BY <1>2
<1> HIDE DEF d
<1>4. /\ Chain(part, d[i].child) /\ Len(part) = i - 1 + 1
      /\ \A x \in 1 .. Len(part) : part[x] = d[1 + x - 1]
      /\ EdgesOf(part) \subseteq EdgesOf(d)
  BY <1>2, <1>3, ChainPart DEF d
<1>5. Len(part) = i /\ \A x \in 1 .. i : part[x] = d[x]
  <2>1. Len(part) = i /\ \A x \in 1 .. i : 1 + x - 1 = x
    BY <1>4
  <2> QED
    BY <1>4, <2>1
<1>6. Lead(part, backup.beginTimeline, d[i].child)
  <2>1. part # <<>>
    BY <1>3, <1>5
  <2>2. part[1] = d[1]
    BY <1>3, <1>5
  <2> QED
    BY <1>2, <1>4, <2>1, <2>2 DEF Lead
<1>7. Route(part, backup.beginTimeline, d[i].child)
  BY <1>1, <1>4, <1>6 DEF Route, d
<1>8. EdgesOf(part) = Part(d, i)
  <2>1. DOMAIN part = 1 .. i
    BY <1>4, <1>5 DEF Chain
  <2> HIDE DEF part
  <2> QED
    BY <1>5, <2>1 DEF EdgesOf, Part
<1>9. Part(d, i) \in Lineages(backup.beginTimeline, d[i].child)
  BY <1>7, <1>8, RouteIsLineage
<1>10. EdgesOf(d) \subseteq known
  BY <1>1 DEF AncestryInv, ValidHistoriesAreKnown, d
<1> QED
  BY <1>1, <1>7, <1>9, <1>10 DEF d

TooEarlyFor(backup, t) ==
  \E L \in Lineages(backup.beginTimeline, t) : \E edge \in L : ~AfterBackup(edge, backup)

(* A timeline is not applicable to a backup exactly if a valid history has *)
(* a switch on the way to it that is too early.                            *)
LEMMA NotApplicableIsTooEarly ==
  ASSUME ShapeInv, AncestryInv, NEW backup \in BackupMetadata, NEW t
  PROVE  t \in NotApplicable(backup) <=> TooEarlyFor(backup, t)
<1>1. ASSUME t \in NotApplicable(backup) PROVE TooEarlyFor(backup, t)
  <2>1. PICK h \in TooEarly(backup) : \E edge \in EdgesOf(Descent(h, backup)) : edge.child = t
    BY <1>1 DEF NotApplicable
  <2> DEFINE d == Descent(h, backup)
  <2>2. h \in Continuing(backup) /\ branchBeforeBackup(d[1], backup)
    BY <2>1 DEF TooEarly
  <2>3. Chain(d, h.timeline)
    BY <2>2, DescentFacts DEF Lead
  <2>4. Len(d) \in Nat /\ DOMAIN d = 1 .. Len(d)
    BY <2>3, ChainOrder
  <2>5. PICK i \in 1 .. Len(d) : d[i].child = t
    BY <2>1, <2>4 DEF EdgesOf
  <2>6. Part(d, i) \in Lineages(backup.beginTimeline, t)
    BY <2>2, <2>5, DescentIsRoute
  <2>7. d[1] \in Part(d, i)
    BY <2>4 DEF Part
  <2>8. ~AfterBackup(d[1], backup)
    <3>1. 1 \in 1 .. Len(d)
      BY <2>4
    <3> HIDE DEF d
    <3> QED
      BY <2>2, <2>3, <3>1, SwitchesAfterBackup
  <2> QED
    BY <2>6, <2>7, <2>8 DEF TooEarlyFor
<1>2. ASSUME TooEarlyFor(backup, t) PROVE t \in NotApplicable(backup)
  <2>1. PICK L \in Lineages(backup.beginTimeline, t) : \E edge \in L : ~AfterBackup(edge, backup)
    BY <1>2 DEF TooEarlyFor
  <2>2. PICK h \in Continuing(backup) : ComesTo(h, backup, t, L)
    <3>1. L # {}
      BY <2>1
    <3> QED
      BY <3>1, LineageIsDescent
  <2> DEFINE d == Descent(h, backup)
  <2>3. PICK i \in 1 .. Len(d) : d[i].child = t /\ L = Part(d, i)
    BY <2>2 DEF ComesTo
  <2>4. Chain(d, h.timeline)
    BY <2>2, DescentFacts DEF Lead
  <2>5. Len(d) \in Nat /\ DOMAIN d = 1 .. Len(d)
    BY <2>4, ChainOrder
  <2>6. PICK x \in 1 .. i : ~AfterBackup(d[x], backup)
    BY <2>1, <2>3 DEF Part
  <2>7. x \in 1 .. Len(d) /\ 1 \in 1 .. Len(d)
    BY <2>5
  <2> HIDE DEF d
  <2>8. ~AfterBackup(d[1], backup) /\ branchBeforeBackup(d[1], backup)
    BY <2>4, <2>6, <2>7, SwitchesAfterBackup
  <2>9. h \in TooEarly(backup)
    BY <2>2, <2>8 DEF TooEarly, d
  <2>10. d[i] \in EdgesOf(d)
    BY <2>5 DEF EdgesOf
  <2> QED
    BY <2>3, <2>9, <2>10 DEF NotApplicable, d
<1> QED
  BY <1>1, <1>2

(* No timeline is both followed and not applicable. *)
LEMMA MetIsApplicable ==
  ASSUME ShapeInv, AncestryInv, NEW backup, NEW target \in Met(backup)
  PROVE  target.timeline \notin NotApplicable(backup)
<1> SUFFICES ASSUME target.timeline \in NotApplicable(backup) PROVE FALSE
  OBVIOUS
<1>1. PICK g \in Continuing(backup) \ TooEarly(backup) : \E i \in 1 .. Len(Descent(g, backup)) :
        target.timeline = Descent(g, backup)[i].child
  BY MetFacts
<1>2. PICK j \in 1 .. Len(Descent(g, backup)) : target.timeline = Descent(g, backup)[j].child
  BY <1>1
<1>3. PICK h \in TooEarly(backup) :
        \E edge \in EdgesOf(Descent(h, backup)) : edge.child = target.timeline
  BY DEF NotApplicable
<1>4. h \in Continuing(backup) /\ branchBeforeBackup(Descent(h, backup)[1], backup)
  BY <1>3 DEF TooEarly
<1>5. g \in Continuing(backup) /\ ~branchBeforeBackup(Descent(g, backup)[1], backup)
  BY <1>1 DEF TooEarly
<1> DEFINE d == Descent(h, backup)
           e == Descent(g, backup)
<1>6. Len(d) \in Nat /\ DOMAIN d = 1 .. Len(d)
  BY <1>4, DescentFacts, ChainOrder DEF Lead
<1>7. PICK i \in 1 .. Len(d) : d[i].child = target.timeline
  BY <1>3, <1>6 DEF EdgesOf
<1>8. /\ Lead(d, backup.beginTimeline, h.timeline) /\ EdgesOf(d) \subseteq known
      /\ Lead(e, backup.beginTimeline, g.timeline) /\ EdgesOf(e) \subseteq known
  BY <1>2, <1>4, <1>5, <1>7, DescentIsRoute
<1>9. KnownEdgesAgree
  BY DEF AncestryInv
<1> HIDE DEF d, e
<1>10. \A x \in 1 .. i : d[x] = e[x]
  BY <1>2, <1>7, <1>8, <1>9, LeadsAgree DEF e
<1>11. d[1] = e[1]
  BY <1>6, <1>10
<1> QED
  BY <1>4, <1>5, <1>11 DEF d, e

(* What a leg of a route has before it and needs. *)
LEMMA LegIsHealthy ==
  ASSUME ShapeInv, NEW t, NEW entry \in Nat, NEW start \in Nat,
         NEW r \in Holding(t, entry), r \in Holding(t, start)
  PROVE  /\ \A required \in Nat :
              HasArchived(t, entry, required) => reachPosition(t, start, required).state = Healthy
         /\ (\A p \in Archived(t) : HasArchived(t, entry, p)) => contiguousFrontier(t, start).state = Healthy
<1>1. r.end \in Nat /\ entry <= r.end /\ \A s \in Holding(t, entry) : s = r
  BY HoldingIsOne
<1>2. ASSUME NEW required \in Nat, HasArchived(t, entry, required)
      PROVE  reachPosition(t, start, required).state = Healthy
  <2>1. r.end >= required
    <3>1. CASE entry <= required
      <4>1. PICK s \in Holding(t, entry) : s.end >= required
        BY <1>2, <3>1, OneRange
      <4> QED
        BY <1>1, <4>1
    <3>2. CASE ~(entry <= required)
      BY <1>1, <3>2
    <3> QED
      BY <3>1, <3>2
  <2> QED
    BY <2>1, ReachFacts
<1>3. ASSUME \A p \in Archived(t) : HasArchived(t, entry, p)
      PROVE  contiguousFrontier(t, start).state = Healthy
  <2>1. IsLastRange(r)
    BY <1>3, LastRange
  <2> QED
    BY <2>1, FrontierFacts
<1> QED
  BY <1>2, <1>3

(* A route over which a recovery is possible makes a healthy path. *)
LEMMA RouteIsHealthy ==
  ASSUME ShapeInv, NEW b, backups[b] \in BackupMetadata, backups[b].begin <= backups[b].end,
         NEW edges, NEW target, Route(edges, backups[b].beginTimeline, target),
         wal.state # Unknown,
         LET backup == backups[b]
             E == EdgesOf(edges)
         IN  /\ HasArchived(backup.beginTimeline, backup.begin, backup.end)
             /\ \A edge \in E : HasArchived(edge.parent, Entry(E, backup, edge.parent), edge.position)
             /\ Entry(E, backup, target) \in Archived(target)
             /\ \A p \in Archived(target) : HasArchived(target, Entry(E, backup, target), p)
  PROVE  evaluatePath(b, target, edges).state = Healthy
<1> DEFINE path == evaluatePath(b, target, edges)
           backup == backups[b]
           E == EdgesOf(edges)
           n == Len(edges)
           legs == Legs(backup, edges)
           T(k) == TimelineAt(backup, edges, k)
           S(k) == StartAt(backup, edges, k)
           In(k) == Entry(E, backup, T(k))
<1>1. /\ edges \in Seq(HistoryEdge) /\ n \in Nat /\ DOMAIN edges = 1 .. n /\ Chain(edges, target)
      /\ E = {edges[i] : i \in 1 .. n}
  BY RouteType DEF EdgesOf
<1>2. PICK k \in 0 .. n + 1 : EndsAt(path, b, target, edges, k)
  BY <1>1, EvaluateFacts
<1>3. path.state = legs[k].reached.state
  BY <1>2 DEF EndsAt
<1> HIDE DEF path
<1>4. ASSUME NEW c, Route(edges, c.beginTimeline, target)
      PROVE  /\ \A i \in 1 .. n : edges[i].parent = TimelineAt(c, edges, i)
             /\ \A i \in 1 .. n + 1 : i \notin 1 .. n => TimelineAt(c, edges, i) = target
             /\ \A i \in 1 .. n + 1 : Entry(E, c, TimelineAt(c, edges, i)) =
                                        IF i = 1 THEN c.begin ELSE edges[i - 1].position
  BY ONLY <1>4, RouteFacts, ZenonT(40)
<1>5. /\ \A i \in 1 .. n : edges[i].parent = T(i)
      /\ \A i \in 1 .. n + 1 : i \notin 1 .. n => T(i) = target
      /\ \A i \in 1 .. n + 1 : In(i) = IF i = 1 THEN backup.begin ELSE edges[i - 1].position
  BY <1>4
<1>6. /\ \A i \in 1 .. n : edges[i].position \in Nat
      /\ \A i, j \in 1 .. n : i < j => edges[i].position <= edges[j].position
  BY <1>1, ChainOrder
<1>7. backup.begin \in Nat /\ backup.end \in Nat
  BY DEF BackupMetadata
<1>8. \A i \in 1 .. n : HasArchived(T(i), In(i), edges[i].position)
  <2> TAKE i \in 1 .. n
  <2>1. HasArchived(edges[i].parent, Entry(E, backup, edges[i].parent), edges[i].position)
    BY <1>1
  <2>2. edges[i].parent = T(i)
    BY <1>5
  <2> QED
    BY <2>1, <2>2
<1>9. In(n + 1) = Entry(E, backup, target) /\ T(n + 1) = target
  <2>1. n + 1 \in 1 .. n + 1 /\ n + 1 \notin 1 .. n
    BY <1>1
  <2> HIDE DEF n
  <2> QED
    BY <1>5, <2>1
<1> HIDE DEF T, In
<1>10. \A i \in 1 .. n + 1 : i # 1 => In(i) \in Archived(T(i)) /\ In(i) = S(i) /\ i - 1 \in 1 .. n
  <2> TAKE i \in 1 .. n + 1
  <2> SUFFICES ASSUME i # 1 PROVE In(i) \in Archived(T(i)) /\ In(i) = S(i) /\ i - 1 \in 1 .. n
    OBVIOUS
  <2>1. i - 1 \in 1 .. n
    BY <1>1
  <2>2. In(i) = edges[i - 1].position /\ S(i) = edges[i - 1].position
    BY <1>5 DEF StartAt
  <2>3. In(i) \in Archived(T(i))
    <3>1. CASE i \in 1 .. n
      <4>1. edges[i - 1].position <= edges[i].position /\ edges[i - 1].position \in Nat
            /\ edges[i].position \in Nat
        BY <1>1, <1>6, <2>1, <3>1
      <4> QED
        BY <1>8, <2>2, <3>1, <4>1 DEF HasArchived
    <3>2. CASE i = n + 1
      BY <1>9, <3>2
    <3> HIDE DEF n
    <3> QED
      BY <1>1, <3>1, <3>2
  <2> QED
    BY <2>1, <2>2, <2>3
<1>11. ASSUME NEW i \in 1 .. n + 1
       PROVE  /\ In(i) \in Nat /\ S(i) \in Nat
              /\ \E r \in Holding(T(i), In(i)) : r \in Holding(T(i), S(i))
  <2>1. CASE i = 1
    <3>1. In(i) = backup.begin /\ S(i) = backup.end /\ T(i) = backup.beginTimeline
      BY <1>5, <2>1 DEF StartAt, TimelineAt, T
    <3>2. PICK r \in Holding(backup.beginTimeline, backup.begin) : r.end >= backup.end
      BY <1>7, OneRange
    <3>3. r \in Holding(backup.beginTimeline, backup.end)
      <4>1. r.start \in Nat /\ r.start <= backup.begin
        BY <1>7, HoldingIsOne
      <4>2. r.start <= backup.end
        BY <1>7, <4>1
      <4> QED
        BY <3>2, <4>2 DEF Holding
    <3> QED
      BY <1>7, <3>1, <3>2, <3>3
  <2>2. CASE i # 1
    <3> HIDE DEF S
    <3>1. In(i) = S(i) /\ In(i) \in Nat /\ Holding(T(i), In(i)) # {}
      BY <1>10, <2>2, ArchivedIsHeld
    <3> QED
      BY <3>1
  <2> QED
    BY <2>1, <2>2
<1>12. CASE k = 0
  <2>1. legs[0].reached = reachPosition(backup.beginTimeline, backup.begin, backup.end)
    BY <1>1, LegsFacts
  <2>2. \E r \in Holding(backup.beginTimeline, backup.begin) : r.end >= backup.end
    BY <1>7, OneRange
  <2>3. reachPosition(backup.beginTimeline, backup.begin, backup.end).state = Healthy
    BY <1>7, <2>2, ReachFacts
  <2> QED
    BY <1>3, <1>12, <2>1, <2>3 DEF path
<1>13. CASE k \in 1 .. n
  <2>1. legs[k].reached = Leg(T(k), S(k), edges[k])
    BY <1>1, <1>13, LegsFacts DEF T
  <2>2. edges[k] \in HistoryEdge /\ edges[k].position \in Nat
    BY <1>1, <1>6, <1>13
  <2>3. k \in 1 .. n + 1 /\ k + 1 \in 1 .. n + 1 /\ k + 1 # 1 /\ (k + 1) - 1 = k
    BY <1>1, <1>13
  <2> HIDE DEF S, n
  <2>4. PICK r \in Holding(T(k), In(k)) : r \in Holding(T(k), S(k)) /\ In(k) \in Nat /\ S(k) \in Nat
    BY <1>11, <2>3
  <2>5. reachPosition(T(k), S(k), edges[k].position).state = Healthy
    BY <1>8, <1>13, <2>2, <2>4, LegIsHealthy
  <2>6. T(k + 1) = edges[k].child /\ In(k + 1) = edges[k].position
    BY <1>5, <2>3 DEF T, TimelineAt
  <2>7. edges[k].position \in Archived(edges[k].child)
    BY <1>10, <2>3, <2>6
  <2>8. rangeContains(edges[k].child, edges[k].position)
    BY <2>2, <2>7, ContainedIsArchived
  <2>9. legs[k].reached = reachPosition(T(k), S(k), edges[k].position)
    BY <2>1, <2>2, <2>4, <2>5, <2>8, LegFacts
  <2> HIDE DEF legs
  <2> QED
    BY <1>3, <2>5, <2>9 DEF path
<1>14. CASE k = n + 1
  <2>1. legs[n + 1].reached = contiguousFrontier(T(n + 1), S(n + 1))
    BY <1>1, LegsFacts DEF T
  <2>2. n + 1 \in 1 .. n + 1
    BY <1>1
  <2> HIDE DEF S, n
  <2>3. PICK r \in Holding(T(n + 1), In(n + 1)) :
          r \in Holding(T(n + 1), S(n + 1)) /\ In(n + 1) \in Nat /\ S(n + 1) \in Nat
    BY <1>11, <2>2
  <2>4. \A p \in Archived(T(n + 1)) : HasArchived(T(n + 1), In(n + 1), p)
    BY <1>9
  <2>5. contiguousFrontier(T(n + 1), S(n + 1)).state = Healthy
    BY <2>3, <2>4, LegIsHealthy
  <2> HIDE DEF legs
  <2> QED
    BY <1>3, <1>14, <2>1, <2>5 DEF path
<1> HIDE DEF n
<1>15. k = 0 \/ k \in 1 .. n \/ k = n + 1
  BY <1>1
<1> QED
  BY <1>12, <1>13, <1>14, <1>15

(* Of the histories that lead to a timeline one comes first. *)
LEMMA FirstOfMet ==
  ASSUME ShapeInv, AncestryInv, NEW backup, NEW m \in Met(backup)
  PROVE  \E f \in FirstMet(backup) : f.timeline = m.timeline
<1> DEFINE same == {x \in Met(backup) : x.timeline = m.timeline}
           vias == {x.via : x \in same}
<1>1. \A x \in Met(backup) : x.via \in Nat
  <2> TAKE x \in Met(backup)
  <2>1. x \in Target
    BY MetFacts
  <2> QED
    BY <2>1 DEF Target, Timelines
<1>2. PICK v \in vias : \A w \in vias : v <= w
  <2>1. vias \in SUBSET Nat /\ vias # {}
    BY <1>1
  <2> QED
    BY <2>1, LeastElement
<1>3. PICK f \in same : f.via = v
  BY <1>2
<1>4. \A x \in Met(backup) : x.timeline = f.timeline => f.via <= x.via
  BY <1>2, <1>3
<1> QED
  BY <1>3, <1>4 DEF FirstMet

(* A lineage without a switch that is too early is followed. *)
LEMMA LineageIsFollowed ==
  ASSUME ShapeInv, AncestryInv, NEW backup, backup \in BackupMetadata, NEW t, NEW L,
         L \in Lineages(backup.beginTimeline, t), L # {},
         \A edge \in L : AfterBackup(edge, backup)
  PROVE  \E f \in FirstMet(backup) :
           /\ f.timeline = t
           /\ EdgesOf(f.edges) = L
           /\ Route(f.edges, backup.beginTimeline, t)
<1>1. PICK h \in Continuing(backup) : ComesTo(h, backup, t, L)
  BY LineageIsDescent
<1> DEFINE d == Descent(h, backup)
<1>2. PICK i \in 1 .. Len(d) : d[i].child = t /\ L = Part(d, i)
  BY <1>1 DEF ComesTo
<1>3. Lead(d, backup.beginTimeline, h.timeline) /\ EdgesOf(d) \subseteq known
  BY <1>1, <1>2, DescentIsRoute
<1>4. Chain(d, h.timeline) /\ Len(d) \in Nat /\ DOMAIN d = 1 .. Len(d)
  BY <1>3, ChainOrder DEF Lead
<1>5. h \notin TooEarly(backup)
  <2>1. 1 \in 1 .. Len(d) /\ d[1] \in L
    BY <1>2, <1>4 DEF Part
  <2> HIDE DEF d
  <2>2. AfterBackup(d[1], backup)
    BY <2>1
  <2>3. ~branchBeforeBackup(d[1], backup)
    BY <1>4, <2>1, <2>2, SwitchesAfterBackup
  <2> QED
    BY <2>3 DEF TooEarly, d
<1> DEFINE m == [timeline |-> d[i].child, edges |-> SubSeq(d, 1, i), via |-> h.timeline]
<1>6. m \in Met(backup) /\ m.timeline = t
  <2>1. m \in {[timeline |-> d[x].child, edges |-> SubSeq(d, 1, x), via |-> h.timeline] : x \in DOMAIN d}
    BY <1>2, <1>4
  <2>2. h \in Continuing(backup) \ TooEarly(backup)
    BY <1>1, <1>5
  <2> HIDE DEF m
  <2>3. m \in Met(backup)
    BY <2>1, <2>2 DEF Met, d
  <2> QED
    BY <1>2, <2>3 DEF m
<1> HIDE DEF m
<1>7. PICK f \in FirstMet(backup) : f.timeline = t
  BY <1>6, FirstOfMet
<1>8. f \in Met(backup)
  BY DEF FirstMet
<1>9. PICK g \in Continuing(backup) \ TooEarly(backup) : \E j \in 1 .. Len(Descent(g, backup)) :
        /\ Lead(f.edges, backup.beginTimeline, f.timeline)
        /\ EdgesOf(f.edges) \subseteq EdgesOf(g.edges)
  BY <1>8, MetFacts
<1>10. /\ g \in histories /\ g.state = Healthy
       /\ Lead(f.edges, backup.beginTimeline, t)
       /\ EdgesOf(f.edges) \subseteq EdgesOf(g.edges)
  BY <1>7, <1>9 DEF Continuing
<1>11. EdgesOf(f.edges) \subseteq known /\ KnownEdgesAgree
  BY <1>10 DEF AncestryInv, ValidHistoriesAreKnown
<1>12. Route(f.edges, backup.beginTimeline, t)
  BY <1>10 DEF Route
<1> DEFINE e == f.edges
           j == Len(e)
<1>13. /\ j \in 1 .. Len(e) /\ DOMAIN e = 1 .. j /\ e[j].child = t
  BY <1>10, ChainOrder DEF Lead
<1> HIDE DEF d, e
<1>14. i = j /\ \A x \in 1 .. i : d[x] = e[x]
  <2>1. /\ Lead(e, backup.beginTimeline, t) /\ EdgesOf(e) \subseteq known
    BY <1>10, <1>11 DEF e
  <2>2. j \in 1 .. Len(e) /\ d[i].child = e[j].child
    BY <1>2, <1>13
  <2>3. ASSUME NEW from, Lead(d, from, h.timeline), Lead(e, from, t)
        PROVE  i = j /\ \A x \in 1 .. i : d[x] = e[x]
    <3> HIDE DEF j
    <3> QED
      BY ONLY i \in 1 .. Len(d), <1>3, <1>11, <2>1, <2>2, <2>3, LeadsAgree
  <2> QED
    BY ONLY <1>3, <2>1, <2>3
<1>15. EdgesOf(e) = L
  <2>1. EdgesOf(e) = {e[x] : x \in 1 .. i}
    BY <1>13, <1>14 DEF EdgesOf
  <2>2. L = {d[x] : x \in 1 .. i}
    BY <1>2 DEF Part
  <2> QED
    BY <1>14, <2>1, <2>2
<1> QED
  BY <1>7, <1>12, <1>15 DEF e

(* What can be replayed is found healthy. *)
LEMMA ReplayableIsHealthy ==
  ASSUME ShapeInv, AncestryInv, NEW b, backups[b] \in BackupMetadata,
         backups[b].begin <= backups[b].end, NEW t, Replayable(backups[b], t)
  PROVE  \E p \in PathSet(b) : p.target = t /\ p.state = Healthy
<1> DEFINE backup == backups[b]
<1>1. PICK L \in Lineages(backup.beginTimeline, t) :
        /\ \A edge \in L :
             /\ AfterBackup(edge, backup)
             /\ HasArchived(edge.parent, Entry(L, backup, edge.parent), edge.position)
        /\ Entry(L, backup, t) \in Archived(t)
        /\ \A position \in Archived(t) : HasArchived(t, Entry(L, backup, t), position)
  BY DEF Replayable
<1>2. wal.state # Unknown /\ HasArchived(backup.beginTimeline, backup.begin, backup.end)
  BY DEF Replayable
<1>3. CASE L = {}
  <2>1. t = backup.beginTimeline
    BY <1>3 DEF Lineages
  <2>2. Route(<<>>, backup.beginTimeline, t)
    BY <2>1 DEF Route
  <2>3. EdgesOf(<<>>) = L
    BY <1>3 DEF EdgesOf
  <2>4. evaluatePath(b, t, <<>>).state = Healthy
    BY <1>1, <1>2, <2>2, <2>3, RouteIsHealthy
  <2>5. evaluatePath(b, t, <<>>).target = t
    <3>1. <<>> \in Seq(HistoryEdge)
      OBVIOUS
    <3> QED
      BY <3>1, PathFields
  <2>6. Own(b) = evaluatePath(b, t, <<>>)
    BY <2>1, Zenon DEF Own
  <2> QED
    BY <2>4, <2>5, <2>6 DEF PathSet
<1>4. CASE L # {}
  <2>1. PICK f \in FirstMet(backup) :
          f.timeline = t /\ EdgesOf(f.edges) = L /\ Route(f.edges, backup.beginTimeline, t)
    BY <1>1, <1>4, LineageIsFollowed
  <2>2. evaluatePath(b, t, f.edges).state = Healthy
    BY <1>1, <1>2, <2>1, RouteIsHealthy
  <2>3. evaluatePath(b, t, f.edges).target = t
    BY <2>1, RouteType, PathFields
  <2>4. evaluatePath(b, t, f.edges) \in Followed(b)
    BY <2>1 DEF Followed
  <2> QED
    BY <2>2, <2>3, <2>4 DEF PathSet
<1> QED
  BY <1>3, <1>4

-----------------------------------------------------------------------------
(* The paths of a backup, and what they account for *)

LEMMA PathSetFacts ==
  ASSUME ShapeInv, AncestryInv, NEW b, backups[b] \in BackupMetadata, NEW p \in PathSet(b)
  PROVE  /\ p.backup = b
         /\ p.target \in Nat /\ p.target >= backups[b].beginTimeline
         /\ \/ p = Own(b) /\ p.target = backups[b].beginTimeline
            \/ \E f \in FirstMet(backups[b]) : f.timeline = p.target
            \/ p.target \in Unconnected(backups[b]) /\ p.target > backups[b].beginTimeline
<1> DEFINE backup == backups[b]
<1>1. backup.beginTimeline \in Nat
  BY DEF BackupMetadata
<1>2. CASE p = Own(b)
  <2>1. <<>> \in Seq(HistoryEdge)
    OBVIOUS
  <2>2. p.backup = b /\ p.target = backup.beginTimeline
    <3>1. \A t : evaluatePath(b, t, <<>>).backup = b /\ evaluatePath(b, t, <<>>).target = t
      BY <2>1, PathFields
    <3> QED
      BY <1>2, <3>1, Zenon DEF Own
  <2> QED
    BY <1>1, <1>2, <2>2
<1>3. CASE p \in Followed(b)
  <2>1. PICK f \in FirstMet(backup) : p = evaluatePath(b, f.timeline, f.edges)
    BY <1>3 DEF Followed
  <2>2. f.edges \in Seq(HistoryEdge) /\ f.timeline \in Nat /\ f.timeline > backup.beginTimeline
    BY <1>1, FirstMetFacts
  <2>3. p.backup = b /\ p.target = f.timeline
    BY <2>1, <2>2, PathFields
  <2> QED
    BY <1>1, <2>2, <2>3
<1>4. CASE p \in Lost(b)
  <2>1. PICK t \in Unconnected(backup) : p = unknownPath(b, t)
    BY <1>4 DEF Lost
  <2>2. t \in Nat /\ t > backup.beginTimeline
    BY FiniteTimelines DEF Unconnected, Timelines
  <2>3. p.backup = b /\ p.target = t
    BY <2>1 DEF unknownPath
  <2> QED
    BY <1>1, <2>2, <2>3
<1> QED
  BY <1>2, <1>3, <1>4 DEF PathSet

(* Unless the limit was reached, the paths to a target that a backup which *)
(* can be anchored has are exactly those there should be.                  *)
LEMMA FoundPaths ==
  ASSUME CoverageInv, NEW b \in 1 .. next - 1, Anchored(b)
  PROVE  /\ backups[b] \in BackupMetadata
         /\ backups[b].begin <= backups[b].end
         /\ backups[b].beginTimeline > 0
         /\ \A t \in Nat : t # 0 => \A i \in PathsTo(b, t) : paths[i] \in PathSet(b)
         /\ ~LimitReached => \A p \in PathSet(b) : \E i \in PathsTo(b, p.target) : paths[i] = p
<1>1. ShapeInv /\ AncestryInv /\ PathInv
  BY DEF CoverageInv
<1>2. /\ b \in DOMAIN backups /\ backups[b] \in BackupMetadata
      /\ paths \in Seq(RecoveryPath) /\ DOMAIN paths = 1 .. Len(paths)
  BY <1>1 DEF PathInv, PathTypeOK
<1>3. backups[b].begin <= backups[b].end /\ backups[b].beginTimeline > 0
  BY DEF Anchored, CannotAnchor, AnchorsAreValid
<1>4. ASSUME NEW t \in Nat, t # 0, NEW i \in PathsTo(b, t) PROVE paths[i] \in PathSet(b)
  <2>1. i \in 1 .. Len(paths) /\ paths[i].backup = b /\ paths[i].target = t
    BY <1>2 DEF PathsTo
  <2>2. PathFor(b, paths[i])
    BY <1>1, <2>1 DEF PathInv, PathsAreExplained
  <2>3. paths[i] # unknownPath(b, 0)
    BY <1>4, <2>1 DEF unknownPath
  <2> QED
    BY <2>2, <2>3 DEF PathFor
<1>5. ASSUME ~LimitReached, NEW p \in PathSet(b)
      PROVE  \E i \in PathsTo(b, p.target) : paths[i] = p
  <2>1. AccountedIn(b, paths) /\ IsUsable(b)
    BY <1>1, <1>5 DEF PathInv, BackupsAreAccounted, Anchored
  <2>2. PICK i \in 1 .. Len(paths) : paths[i] = p
    BY <1>5, <2>1 DEF AccountedIn
  <2>3. p.backup = b
    BY <1>1, <1>2, PathSetFacts
  <2> QED
    BY <1>2, <2>2, <2>3 DEF PathsTo
<1> QED
  BY <1>2, <1>3, <1>4, <1>5

(* The archive holds every segment that a recovery over a healthy path     *)
(* needs, along one valid history.                                         *)
LEMMA HealthyPathIsExact ==
  ASSUME CoverageInv, NEW i \in DOMAIN paths, paths[i].state = Healthy
  PROVE  /\ Anchored(paths[i].backup)
         /\ Replayable(backups[paths[i].backup], paths[i].target)
         /\ paths[i].stop = Frontier
         /\ paths[i].timeline = paths[i].target
         /\ paths[i].frontier \in Archived(paths[i].target)
         /\ \A position \in Archived(paths[i].target) : position <= paths[i].frontier
<1> DEFINE path == paths[i]
           b == path.backup
           backup == backups[b]
<1>1. ShapeInv /\ AncestryInv /\ PathInv
  BY DEF CoverageInv
<1>2. PathFor(b, path) /\ backup \in BackupMetadata
  BY <1>1 DEF PathInv, PathTypeOK, PathsAreExplained
<1>3. Anchored(b) /\ path \in PathSet(b)
  BY <1>2, UnknownStopsAtNothing DEF PathFor
<1>4. backup.begin <= backup.end
  BY <1>3 DEF Anchored, CannotAnchor, AnchorsAreValid
<1>5. PICK edges : /\ Route(edges, backup.beginTimeline, path.target)
                   /\ path = evaluatePath(b, path.target, edges)
                   /\ edges # <<>> => ~branchBeforeBackup(edges[1], backup)
  BY <1>1, <1>2, <1>3, PathRoute, UnknownStopsAtNothing
<1>6. wal.state # Unknown
  BY <1>5, UnknownStopsAtNothing DEF evaluatePath
<1> QED
  BY <1>1, <1>2, <1>3, <1>4, <1>5, <1>6, HealthyIsReplayable

(* evaluatePath, recoveryPaths: a healthy path can be replayed to the      *)
(* newest segment of its target, and unless the analysis was cut short     *)
(* every backup has one to each timeline to which it can be replayed.      *)
THEOREM ExactCoverage == Spec => []CoverageIsExact
<1>1. CoverageInv => CoverageIsExact
  <2> SUFFICES ASSUME CoverageInv PROVE CoverageIsExact
    OBVIOUS
  <2>1. ASSUME ~LimitReached, NEW b \in 1 .. next - 1, NEW t, Anchored(b), Replayable(backups[b], t)
        PROVE  \E i \in PathsTo(b, t) : paths[i].state = Healthy
    <3>1. backups[b] \in BackupMetadata /\ backups[b].begin <= backups[b].end
      BY <2>1, FoundPaths
    <3>2. PICK p \in PathSet(b) : p.target = t /\ p.state = Healthy
      BY <2>1, <3>1, ReplayableIsHealthy DEF CoverageInv
    <3>3. PICK i \in PathsTo(b, p.target) : paths[i] = p
      BY <2>1, FoundPaths
    <3> QED
      BY <3>2, <3>3
  <2> QED
    BY <2>1, HealthyPathIsExact DEF CoverageIsExact
<1> QED
  BY <1>1, CoverageInvariance, PTL

(* The paths of a backup to a later timeline in the archive. *)
LEMMA LaterTimeline ==
  ASSUME CoverageInv, ~LimitReached, NEW b \in 1 .. next - 1, Anchored(b),
         NEW t \in observedTimelines, t > backups[b].beginTimeline
  PROVE  /\ TooEarlyFor(backups[b], t) => PathsTo(b, t) = {}
         /\ ~TooEarlyFor(backups[b], t) => \E i : PathsTo(b, t) = {i}
<1> DEFINE backup == backups[b]
<1>1. ShapeInv /\ AncestryInv /\ PathInv
  BY DEF CoverageInv
<1>2. /\ backup \in BackupMetadata /\ backup.beginTimeline > 0
      /\ \A u \in Nat : u # 0 => \A i \in PathsTo(b, u) : paths[i] \in PathSet(b)
      /\ \A p \in PathSet(b) : \E i \in PathsTo(b, p.target) : paths[i] = p
  BY FoundPaths
<1>3. t \in Nat /\ t # 0 /\ t # backup.beginTimeline
  BY <1>1, <1>2, FiniteTimelines DEF Timelines, BackupMetadata
<1>4. t \in NotApplicable(backup) <=> TooEarlyFor(backup, t)
  BY <1>1, <1>2, NotApplicableIsTooEarly
<1>5. ASSUME NEW i \in PathsTo(b, t) PROVE t \notin NotApplicable(backup)
  <2>1. paths[i] \in PathSet(b) /\ paths[i].target = t
    BY <1>2, <1>3 DEF PathsTo
  <2>2. (\E f \in FirstMet(backup) : f.timeline = t) \/ t \in Unconnected(backup)
    BY <1>1, <1>2, <1>3, <2>1, PathSetFacts
  <2>3. ASSUME NEW f \in FirstMet(backup), f.timeline = t PROVE t \notin NotApplicable(backup)
    <3>1. f \in Met(backup)
      BY DEF FirstMet
    <3> QED
      BY <1>1, <2>3, <3>1, MetIsApplicable
  <2> QED
    BY <2>2, <2>3 DEF Unconnected
<1>6. ASSUME t \notin NotApplicable(backup) PROVE \E i : PathsTo(b, t) = {i}
  <2>1. \E p \in PathSet(b) : p.target = t
    <3>1. CASE \E f \in FirstMet(backup) : f.timeline = t
      <4>1. PICK f \in FirstMet(backup) : f.timeline = t
        BY <3>1
      <4>2. f.edges \in Seq(HistoryEdge)
        BY <1>1, <1>2, FirstMetFacts DEF BackupMetadata
      <4>3. evaluatePath(b, f.timeline, f.edges).target = t
        BY <4>1, <4>2, PathFields
      <4>4. evaluatePath(b, f.timeline, f.edges) \in PathSet(b)
        BY DEF PathSet, Followed
      <4> QED
        BY <4>3, <4>4
    <3>2. CASE \A f \in FirstMet(backup) : f.timeline # t
      <4>1. t \in Unconnected(backup)
        BY <1>6, <3>2 DEF Unconnected
      <4>2. unknownPath(b, t) \in PathSet(b) /\ unknownPath(b, t).target = t
        BY <4>1 DEF PathSet, Lost, unknownPath
      <4> QED
        BY <4>2
    <3> QED
      BY <3>1, <3>2
  <2>2. PICK i \in PathsTo(b, t) : TRUE
    BY <1>2, <2>1
  <2>3. \A j \in PathsTo(b, t) : j = i
    BY <1>1, <2>2, SMTT(20) DEF PathsTo, PathInv, PathTypeOK, PathsAreDistinct
  <2> QED
    BY <2>2, <2>3
<1> QED
  BY <1>4, <1>5, <1>6

(* recoveryPaths: each later timeline in the archive is accounted for once *)
(* with each backup, whichever histories mention it.                       *)
THEOREM AccountedTimelines == Spec => []TimelinesAreAccountedFor
<1>1. CoverageInv => TimelinesAreAccountedFor
  <2> SUFFICES ASSUME CoverageInv, ~LimitReached, NEW b \in 1 .. next - 1, Anchored(b),
                      NEW t \in observedTimelines, t > backups[b].beginTimeline
               PROVE  Cardinality(PathsTo(b, t)) = IF TooEarlyFor(backups[b], t) THEN 0 ELSE 1
    BY DEF TimelinesAreAccountedFor, TooEarlyFor
  <2> QED
    BY LaterTimeline, FS_EmptySet, FS_Singleton
<1> QED
  BY <1>1, CoverageInvariance, PTL

(* coverageRollup: healthy coverage means that every usable backup can be  *)
(* replayed to the newest segment of its timeline and of each later one    *)
(* that did not branch off too early.                                      *)
THEOREM WholeCoverage == Spec => []HealthyCoverageIsWhole
<1>1. CoverageInv => HealthyCoverageIsWhole
  <2> SUFFICES ASSUME CoverageInv, coverageState = Healthy
               PROVE  /\ \E b \in DOMAIN backups : IsUsable(b)
                      /\ \A b \in DOMAIN backups : IsUsable(b) =>
                           /\ Anchored(b)
                           /\ \A t \in observedTimelines : t >= backups[b].beginTimeline =>
                                Replayable(backups[b], t) \/ TooEarlyFor(backups[b], t)
    BY DEF HealthyCoverageIsWhole, TooEarlyFor
  <2>1. ShapeInv /\ AncestryInv /\ PathInv
    BY DEF CoverageInv
  <2>2. /\ next = Len(backups) + 1 /\ paths # <<>> /\ Len(paths) \in Nat /\ DOMAIN paths = 1 .. Len(paths)
        /\ Len(backups) \in Nat /\ DOMAIN backups = 1 .. Len(backups)
        /\ \A i \in 1 .. Len(paths) : paths[i].state = Healthy
    BY <2>1 DEF PathInv, PathTypeOK, PhasesInOrder, HealthyVerdict
  <2>3. next - 1 = Len(backups)
    BY <2>2
  <2>4. \A i \in DOMAIN paths :
          /\ Anchored(paths[i].backup)
          /\ Replayable(backups[paths[i].backup], paths[i].target)
          /\ paths[i].backup \in DOMAIN backups /\ PathFor(paths[i].backup, paths[i])
    BY <2>1, <2>2, <2>3, HealthyPathIsExact DEF PathInv, PathsAreExplained
  <2>5. 1 \in DOMAIN paths
    BY <2>1, <2>2 DEF PathInv, PathTypeOK
  <2>6. \E b \in DOMAIN backups : IsUsable(b)
    BY <2>4, <2>5 DEF Anchored
  <2>7. ~LimitReached
    <3> SUFFICES ASSUME NEW i \in DOMAIN paths, paths[i].target = 0 PROVE FALSE
      BY DEF LimitReached
    <3> DEFINE b == paths[i].backup
    <3>1. b \in 1 .. next - 1 /\ Anchored(b) /\ paths[i].state = Healthy
      BY <2>2, <2>3, <2>4
    <3>2. paths[i] \in PathSet(b)
      BY <2>4, <3>1, UnknownStopsAtNothing DEF PathFor
    <3>3. backups[b] \in BackupMetadata /\ backups[b].beginTimeline > 0
      BY <3>1, FoundPaths
    <3>4. paths[i].target >= backups[b].beginTimeline
      BY <2>1, <3>2, <3>3, PathSetFacts
    <3> QED
      BY <3>3, <3>4 DEF BackupMetadata
  <2>8. ASSUME NEW b \in DOMAIN backups, IsUsable(b)
        PROVE  /\ Anchored(b)
               /\ \A t \in observedTimelines : t >= backups[b].beginTimeline =>
                    Replayable(backups[b], t) \/ TooEarlyFor(backups[b], t)
    <3>1. b \in 1 .. next - 1 /\ AccountedIn(b, paths)
      BY <2>1, <2>2, <2>3, <2>7 DEF PathInv, BackupsAreAccounted
    <3>2. Anchored(b)
      <4>1. \A i \in 1 .. Len(paths) : paths[i].state # Unknown
        BY <2>2 DEF Unknown, Healthy
      <4> QED
        BY <2>8, <3>1, <4>1 DEF AccountedIn
    <3>3. backups[b] \in BackupMetadata
      BY <3>1, <3>2, FoundPaths
    <3>4. \A t, i : i \in PathsTo(b, t) => Replayable(backups[b], t)
      BY <2>4 DEF PathsTo
    <3>5. Replayable(backups[b], backups[b].beginTimeline)
      <4>1. Own(b) \in PathSet(b)
        BY DEF PathSet
      <4>2. PICK i \in PathsTo(b, Own(b).target) : TRUE
        BY <2>7, <3>1, <3>2, <4>1, FoundPaths
      <4>3. Own(b).target = backups[b].beginTimeline
        <5>1. <<>> \in Seq(HistoryEdge)
          OBVIOUS
        <5>2. \A t : evaluatePath(b, t, <<>>).target = t
          BY <5>1, PathFields
        <5> QED
          BY <5>2, Zenon DEF Own
      <4> QED
        BY <3>4, <4>2, <4>3, Zenon
    <3>6. ASSUME NEW t \in observedTimelines, t > backups[b].beginTimeline
          PROVE  Replayable(backups[b], t) \/ TooEarlyFor(backups[b], t)
      BY <2>7, <3>1, <3>2, <3>4, <3>6, LaterTimeline
    <3>7. \A t \in observedTimelines : t >= backups[b].beginTimeline =>
            t = backups[b].beginTimeline \/ t > backups[b].beginTimeline
      BY <2>1, <3>3, FiniteTimelines DEF Timelines, BackupMetadata
    <3> QED
      BY <3>2, <3>5, <3>6, <3>7
  <2> QED
    BY <2>6, <2>8
<1> QED
  BY <1>1, CoverageInvariance, PTL

=============================================================================
