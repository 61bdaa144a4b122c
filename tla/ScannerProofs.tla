--------------------------- MODULE ScannerProofs ---------------------------
(***************************************************************************)
(* Proofs about the refresh cycle, for every page size, object limit,      *)
(* cursor set, provider and analysis.                                      *)
(***************************************************************************)
EXTENDS Scanner, TLAPS

(* conservativeState stays in the vocabulary, and so does its fold.        *)
LEMMA StatesClosed ==
  /\ \A l, r \in State : conservativeState(l, r) \in State
  /\ \A S \in SUBSET State : Rollup(S) \in State
BY DEF conservativeState, Rollup, State, Healthy, Warning, Unhealthy, Unknown

(* Setting capabilities keeps the capability table well formed.            *)
LEMMA WithCapabilitiesType ==
  ASSUME NEW caps \in [CapabilityID -> Capability],
         NEW ids \in SUBSET CapabilityID,
         NEW state \in State
  PROVE  WithCapabilities(caps, ids, state) \in [CapabilityID -> Capability]
BY DEF WithCapabilities, Capability, Support, Supported

LEMMA UnscannedCapabilitiesType ==
  UnscannedCapabilities \in [CapabilityID -> Capability]
BY DEF UnscannedCapabilities, Capability, Support, SupportUnknown, State, Unknown

(* Before any scan the snapshot is well formed and claims nothing.         *)
LEMMA InitialType == Initial \in Snapshot
<1>1. {"inventory"} \in SUBSET CapabilityID
  BY DEF CapabilityID
<1>2. Unknown \in State
  BY DEF State
<1>3. WithCapabilities(UnscannedCapabilities, {"inventory"}, Unknown)
        \in [CapabilityID -> Capability]
  BY <1>1, <1>2, WithCapabilitiesType, UnscannedCapabilitiesType
<1> QED
  BY <1>2, <1>3 DEF Initial, Snapshot, Zero, NoTime, Completeness, Unscanned,
     CatalogFacts, RecoveryFacts

(* builder.complete yields a well-formed snapshot.                         *)
LEMMA CompleteListingType ==
  ASSUME NEW g \in Nat, NEW st \in Zero, NEW now \in Zero, NEW n \in Nat
  PROVE  CompleteListing(g, st, now, n) \in Snapshot
<1>1. {"inventory"} \in SUBSET CapabilityID
  BY DEF CapabilityID
<1>2. Unknown \in State /\ Healthy \in State
  BY DEF State
<1>3. WithCapabilities(UnscannedCapabilities, {"inventory"}, Healthy)
        \in [CapabilityID -> Capability]
  BY <1>1, <1>2, WithCapabilitiesType, UnscannedCapabilitiesType
<1> QED
  BY <1>2, <1>3 DEF CompleteListing, Snapshot, Completeness, Complete,
     CatalogFacts, RecoveryFacts

(* The catalog and WAL verdicts change only the state, the capabilities    *)
(* and the catalog of a snapshot.                                          *)
LEMMA ApplyCatalogType ==
  ASSUME NEW s \in Snapshot, NEW facts \in CatalogOutcomes
  PROVE  /\ ApplyCatalog(s, facts) \in Snapshot
         /\ \E state \in State, caps \in [CapabilityID -> Capability] :
              ApplyCatalog(s, facts) =
                [s EXCEPT !.catalog = facts, !.state = state, !.capabilities = caps]
<1> DEFINE backups == Rollup(facts.backups)
           wal     == Rollup(facts.wal)
           state   == conservativeState(backups, wal)
           inner   == WithCapabilities(s.capabilities, {"catalog", "structural"}, backups)
           caps    == WithCapabilities(inner, {"wal"}, wal)
<1>1. facts.backups \in SUBSET State /\ facts.wal \in SUBSET State
  BY OutcomeAssumption
<1>2. backups \in State /\ wal \in State
  BY <1>1, StatesClosed
<1>3. state \in State
  BY <1>2, StatesClosed
<1>4. {"catalog", "structural"} \in SUBSET CapabilityID /\ {"wal"} \in SUBSET CapabilityID
  BY DEF CapabilityID
<1>5. s.capabilities \in [CapabilityID -> Capability]
  BY DEF Snapshot
<1>6. inner \in [CapabilityID -> Capability]
  BY <1>2, <1>4, <1>5, WithCapabilitiesType
<1>7. caps \in [CapabilityID -> Capability]
  BY <1>2, <1>4, <1>6, WithCapabilitiesType
<1>8. ApplyCatalog(s, facts) =
        [s EXCEPT !.catalog = facts, !.state = state, !.capabilities = caps]
  BY DEF ApplyCatalog
<1> HIDE DEF state, caps
<1>9. [s EXCEPT !.catalog = facts, !.state = state, !.capabilities = caps] \in Snapshot
  BY <1>3, <1>7 DEF Snapshot, CatalogFacts
<1> QED
  BY <1>3, <1>7, <1>8, <1>9

(* The recovery verdicts change only the state, the capabilities and the   *)
(* recovery facts of a snapshot.                                           *)
LEMMA ApplyRecoveryType ==
  ASSUME NEW s \in Snapshot, NEW facts \in RecoveryOutcomes
  PROVE  /\ ApplyRecovery(s, facts) \in Snapshot
         /\ \E state \in State, caps \in [CapabilityID -> Capability] :
              ApplyRecovery(s, facts) =
                [s EXCEPT !.recovery = facts, !.state = state, !.capabilities = caps]
<1> DEFINE timeline  == Rollup(facts.timeline)
           coverage  == Rollup(facts.coverage)
           retention == Rollup(facts.retention)
           state == conservativeState(s.state,
                      conservativeState(timeline, conservativeState(coverage, retention)))
           caps1 == WithCapabilities(s.capabilities, {"timeline"}, timeline)
           caps2 == WithCapabilities(caps1, {"coverage"}, coverage)
           caps  == WithCapabilities(caps2, {"retention"}, retention)
<1>1. /\ facts.timeline \in SUBSET State
      /\ facts.coverage \in SUBSET State
      /\ facts.retention \in SUBSET State
  BY OutcomeAssumption
<1>2. timeline \in State /\ coverage \in State /\ retention \in State
  BY <1>1, StatesClosed
<1>3. s.state \in State /\ s.capabilities \in [CapabilityID -> Capability]
  BY DEF Snapshot
<1>4. state \in State
  <2>1. conservativeState(coverage, retention) \in State
    BY <1>2, StatesClosed
  <2>2. conservativeState(timeline, conservativeState(coverage, retention)) \in State
    BY <1>2, <2>1, StatesClosed
  <2> QED
    BY <1>3, <2>2, StatesClosed
<1>5. /\ {"timeline"} \in SUBSET CapabilityID
      /\ {"coverage"} \in SUBSET CapabilityID
      /\ {"retention"} \in SUBSET CapabilityID
  BY DEF CapabilityID
<1>6. caps1 \in [CapabilityID -> Capability]
  BY <1>2, <1>3, <1>5, WithCapabilitiesType
<1>7. caps2 \in [CapabilityID -> Capability]
  BY <1>2, <1>5, <1>6, WithCapabilitiesType
<1>8. caps \in [CapabilityID -> Capability]
  BY <1>2, <1>5, <1>7, WithCapabilitiesType
<1>9. ApplyRecovery(s, facts) =
        [s EXCEPT !.recovery = facts, !.state = state, !.capabilities = caps]
  BY DEF ApplyRecovery
<1> HIDE DEF state, caps
<1>10. [s EXCEPT !.recovery = facts, !.state = state, !.capabilities = caps] \in Snapshot
  BY <1>4, <1>8 DEF Snapshot, RecoveryFacts
<1> QED
  BY <1>4, <1>8, <1>9, <1>10

(* A snapshot after a failed refresh says so, and claims nothing.          *)
Claimless(s) ==
  /\ s.stale <=> s.refreshFailure # NoFailure
  /\ s.stale =>
       /\ s.state = Unknown
       /\ \A id \in Known(s.capabilities) : s.capabilities[id].state = Unknown

(* Without known totals there is nothing to show. *)
Blank(s) ==
  ~s.totalsKnown => s.objectCount = 0 /\ s.catalog = NoFacts /\ s.recovery = NoFacts

LEMMA InitialFacts ==
  /\ Claimless(Initial)
  /\ ~Initial.stale
  /\ Initial.refreshGeneration = 0
  /\ Initial.generation = 0
  /\ ~Initial.totalsKnown
  /\ Initial.objectCount = 0
  /\ Blank(Initial)
BY DEF Initial, Claimless, Blank

(* publishFailure: the failure snapshot is stale and claimless, carries    *)
(* the new attempt, and carries over known evidence unchanged.             *)
LEMMA FailureSnapshotFacts ==
  ASSUME NEW previous \in Snapshot, NEW g \in Nat, NEW st \in Zero,
         NEW now \in Zero, NEW category \in Failures
  PROVE  LET s == FailureSnapshot(previous, g, st, now, category)
         IN  /\ s \in Snapshot
             /\ Claimless(s) /\ s.stale
             /\ s.refreshGeneration = g
             /\ s.totalsKnown = previous.totalsKnown
             /\ previous.totalsKnown => EvidenceOf(s) = EvidenceOf(previous)
<1>0. category # NoFailure
  BY DEF Failures, PublishableFailures, NoFailure, FaultUnknown, SafetyLimit
<1>1. CASE previous.totalsKnown
  <2> DEFINE caps == [id \in CapabilityID |->
                        IF previous.capabilities[id].support = Supported
                        THEN [previous.capabilities[id] EXCEPT !.state = Unknown]
                        ELSE previous.capabilities[id]]
             s == [previous EXCEPT
                     !.refreshGeneration = g,
                     !.lastRefreshAt     = now,
                     !.lastAttemptAt     = st,
                     !.refreshFailure    = category,
                     !.stale             = TRUE,
                     !.state             = Unknown,
                     !.capabilities      = caps]
  <2>1. FailureSnapshot(previous, g, st, now, category) = s
    BY <1>1 DEF FailureSnapshot, RetainedAsStale
  <2>2. previous.capabilities \in [CapabilityID -> Capability]
    BY DEF Snapshot
  <2>3. Unknown \in State
    BY DEF State
  <2>4. caps \in [CapabilityID -> Capability]
    BY <2>2, <2>3 DEF Capability
  <2>5. \A id \in Known(caps) : caps[id].state = Unknown
    BY <2>2 DEF Known, Capability
  <2> HIDE DEF caps
  <2>6. s \in Snapshot
    BY <2>3, <2>4 DEF Snapshot
  <2>7. /\ s.stale = TRUE
        /\ s.refreshFailure = category
        /\ s.state = Unknown
        /\ s.capabilities = caps
        /\ s.refreshGeneration = g
        /\ s.totalsKnown = previous.totalsKnown
    BY DEF Snapshot
  <2>8. Claimless(s)
    BY <1>0, <2>5, <2>7 DEF Claimless
  <2>9. EvidenceOf(s) = EvidenceOf(previous)
    BY DEF EvidenceOf, Snapshot
  <2> QED
    BY <2>1, <2>6, <2>7, <2>8, <2>9
<1>2. CASE ~previous.totalsKnown
  <2> DEFINE s == FirstFailure(g, st, now, category)
  <2>1. FailureSnapshot(previous, g, st, now, category) = s
    BY <1>2 DEF FailureSnapshot
  <2>2. Initial \in Snapshot
    BY InitialType
  <2>3. s \in Snapshot
    BY <2>2 DEF FirstFailure, Snapshot, Completeness
  <2>4. /\ s.stale = TRUE
        /\ s.refreshFailure = category
        /\ s.state = Initial.state
        /\ s.capabilities = Initial.capabilities
        /\ s.refreshGeneration = g
        /\ s.totalsKnown = Initial.totalsKnown
    BY <2>2 DEF FirstFailure, Snapshot
  <2>5. /\ Initial.state = Unknown
        /\ \A id \in CapabilityID : Initial.capabilities[id].state = Unknown
    BY DEF Initial, WithCapabilities, UnscannedCapabilities
  <2>6. Claimless(s)
    BY <1>0, <2>4, <2>5 DEF Claimless, Known
  <2>7. previous.totalsKnown = FALSE
    BY <1>2 DEF Snapshot
  <2> QED
    BY <2>1, <2>3, <2>4, <2>6, <2>7, InitialFacts DEF Initial
<1> QED
  BY <1>1, <1>2

(* The projection of a well-formed snapshot is a well-formed publication.  *)
LEMMA ProjectType ==
  ASSUME NEW s \in Snapshot
  PROVE  Project(s) \in Publication
BY DEF Project, Snapshot, Publication, Zero

LEMMA EvidenceOfType ==
  ASSUME NEW s \in Snapshot
  PROVE  EvidenceOf(s) \in Evidence
BY DEF EvidenceOf, Snapshot, Evidence

-----------------------------------------------------------------------------
(* Type correctness *)

LEMMA DropScanType ==
  ASSUME DropScan
  PROVE  /\ cursor' \in Cursors \cup {NoCursor}
         /\ page' \in Nat
         /\ objectCount' \in Nat
         /\ draft' \in Snapshot
BY InitialType DEF DropScan

(* Every way a scan fails leaves a category behind.                        *)
LEMMA FailType ==
  ASSUME NEW category \in ListFailures \cup AddFailures \cup {SafetyLimit}, Fail(category), TypeOK
  PROVE  /\ pc' = "failed"
         /\ failure' \in Failures /\ failure' # NoFailure
         /\ cursor' \in Cursors \cup {NoCursor}
         /\ page' \in Nat
         /\ objectCount' \in Nat
         /\ draft' \in Snapshot
         /\ UNCHANGED <<started, outcome>>
<1>1. category \in Failures /\ category # NoFailure
  BY CategoryAssumption
     DEF ListFailures, AddFailures, Failures, PublishableFailures, SafetyLimit,
         FaultUnknown, NoFailure
<1> QED
  BY <1>1, DropScanType DEF Fail

(* Every variable keeps its type at every step of the scanner and of its   *)
(* environment.                                                            *)
LEMMA TypeStep ==
  ASSUME TypeOK, [Next]_vars
  PROVE  TypeOK'
<1> USE DEF TypeOK
<1>1. CASE Probe
  <2>1. readiness' \in Failures \cup {Reachable}
    BY <1>1, CategoryAssumption
      DEF Probe, ListFailures, Failures, PublishableFailures, SafetyLimit
  <2> QED
    BY <1>1, <2>1 DEF Probe, PC, scan, history
<1>2. CASE Stop
  BY <1>2 DEF Stop, PC, scan, history
<1>3. CASE BeginRefresh
  BY <1>3 DEF BeginRefresh, PC, Zero, history
<1>4. CASE RequestPage
  <2>1. CASE canceled /\ Abandon
    BY <1>4, <2>1, DropScanType DEF RequestPage, Abandon, PC, Zero
  <2>2. CASE Fail(SafetyLimit)
    BY <1>4, <2>2, FailType DEF RequestPage, PC
  <2>3. CASE pc' = "await" /\ UNCHANGED <<started, scan, failure, draft, outcome>>
    BY <1>4, <2>3 DEF RequestPage, PC, scan
  <2> QED
    BY <1>4, <2>1, <2>2, <2>3 DEF RequestPage
<1>5. CASE ListCanceled
  BY <1>5, DropScanType DEF ListCanceled, Abandon, PC, Zero
<1>6. CASE ListFailed
  BY <1>6, FailType DEF ListFailed, PC
<1>7. CASE ReceivePage
  <2>1. PICK n \in 0..Limit, next \in Cursors :
          \/ Fail(SafetyLimit)
          \/ /\ pc' = "list"
             /\ cursor' = next
             /\ page' = page + 1
             /\ objectCount' = objectCount + n
             /\ UNCHANGED <<started, failure, draft, outcome>>
    BY <1>7 DEF ReceivePage
  <2>2. CASE Fail(SafetyLimit)
    BY <1>7, <2>2, FailType DEF ReceivePage, PC
  <2>3. CASE ~Fail(SafetyLimit)
    BY <1>7, <2>1, <2>3 DEF ReceivePage, PC
  <2> QED
    BY <2>2, <2>3
<1>8. CASE ReceiveLastPage
  <2>1. PICK n \in 0..Limit :
          /\ objectCount' = objectCount + n
          /\ draft' = CompleteListing(generation, started, clock, objectCount + n)
    BY <1>8 DEF ReceiveLastPage
  <2>2. clock \in Zero /\ n \in Nat
    BY DEF Zero
  <2>3. draft' \in Snapshot
    BY <2>1, <2>2, CompleteListingType
  <2>4. EvidenceOf(draft') \in Evidence
    BY <2>3, EvidenceOfType
  <2> QED
    BY <1>8, <2>1, <2>2, <2>3, <2>4 DEF ReceiveLastPage, PC
<1>9. CASE AnalyzeCatalog
  <2>1. CASE canceled /\ Abandon
    BY <1>9, <2>1, DropScanType DEF AnalyzeCatalog, Abandon, PC, Zero
  <2>2. CASE /\ ~canceled
             /\ \E facts \in CatalogOutcomes : draft' = ApplyCatalog(draft, facts)
             /\ pc' = "recovery"
             /\ UNCHANGED <<started, scan, failure, outcome>>
    <3>1. PICK facts \in CatalogOutcomes : draft' = ApplyCatalog(draft, facts)
      BY <2>2
    <3>2. ApplyCatalog(draft, facts) \in Snapshot
      BY ApplyCatalogType, Zenon DEF TypeOK
    <3> QED
      BY <1>9, <2>2, <3>1, <3>2 DEF AnalyzeCatalog, PC, Zero, scan
  <2> QED
    BY <1>9, <2>1, <2>2 DEF AnalyzeCatalog
<1>10. CASE AnalyzeRecovery
  <2>1. CASE canceled /\ Abandon
    BY <1>10, <2>1, DropScanType DEF AnalyzeRecovery, Abandon, PC, Zero
  <2>2. CASE /\ ~canceled
             /\ \E facts \in RecoveryOutcomes : draft' = ApplyRecovery(draft, facts)
             /\ pc' = "publish"
             /\ UNCHANGED <<started, scan, failure, outcome>>
    <3>0. PICK facts \in RecoveryOutcomes : draft' = ApplyRecovery(draft, facts)
      BY <2>2
    <3>1. draft' \in Snapshot
      BY <3>0, ApplyRecoveryType, Zenon DEF TypeOK
    <3>2. EvidenceOf(draft') \in Evidence
      BY <3>1, EvidenceOfType
    <3> QED
      BY <1>10, <2>2, <3>1, <3>2 DEF AnalyzeRecovery, PC, scan
  <2> QED
    BY <1>10, <2>1, <2>2 DEF AnalyzeRecovery
<1>11. CASE PrepareFailure
  <2>1. failure \in Failures /\ clock \in Zero
    BY <1>11 DEF PrepareFailure, Zero
  <2>2. draft' \in Snapshot
    BY <1>11, <2>1, FailureSnapshotFacts DEF PrepareFailure
  <2> QED
    BY <1>11, <2>2 DEF PrepareFailure, PC, scan, history
<1>12. CASE PublishToEngine
  <2>1. Project(draft) \in Publication
    BY ProjectType
  <2> QED
    BY <1>12, <2>1, DropScanType DEF PublishToEngine, Return, PC, Zero, scan
<1>13. CASE PublishToCache
  BY <1>13, DropScanType DEF PublishToCache, Return, PC, Zero
<1>14. CASE Cancel
  BY <1>14 DEF Cancel, scan, history
<1>15. CASE ClockStep
  BY <1>15 DEF ClockStep, scan, history
<1>16. CASE Restart
  BY <1>16, InitialType, ProjectType
     DEF Restart, PC, Zero, NoTime, Failures, PublishableFailures
<1>17. CASE UNCHANGED vars
  BY <1>17 DEF vars
<1> QED
  BY <1>1, <1>2, <1>3, <1>4, <1>5, <1>6, <1>7, <1>8, <1>9, <1>10, <1>11,
     <1>12, <1>13, <1>14, <1>15, <1>16, <1>17 DEF Next, RefreshStep

LEMMA TypeInit ==
  ASSUME Init
  PROVE  TypeOK
<1>1. Initial \in Snapshot /\ Project(Initial) \in Publication
  BY InitialType, ProjectType
<1>2. draft = Initial /\ cache = Initial /\ engine = Project(Initial)
  BY DEF Init
<1>3. draft \in Snapshot /\ cache \in Snapshot /\ engine \in Publication
  BY <1>1, <1>2
<1>4. readiness \in Failures \cup {Reachable} /\ failure \in Failures \cup {NoFailure}
  BY DEF Init, Failures, PublishableFailures
<1>5. started \in Zero /\ clock \in Times
  BY DEF Init, Zero
<1>6. pc \in PC /\ pc # "failed"
  BY DEF Init, PC
<1> QED
  BY <1>3, <1>4, <1>5, <1>6 DEF Init, TypeOK

(* The scanner's state is well formed in every reachable state.            *)
THEOREM TypeCorrect == Spec => []TypeOK
<1>1. Init => TypeOK
  BY TypeInit
<1>2. TypeOK /\ [Next]_vars => TypeOK'
  BY TypeStep
<1> QED
  BY <1>1, <1>2, PTL DEF Spec

-----------------------------------------------------------------------------
(* The inductive invariant.  An attempt owns its generation: from the      *)
(* moment it starts until it publishes, everything visible is older.  Its  *)
(* draft is either fresh evidence of the attempt itself or the cached      *)
(* evidence marked as failed, and nothing else.                            *)

Attempting == {"list", "await", "catalog", "recovery", "failed", "publish", "store"}

Fresh(s) ==
  /\ ~s.stale
  /\ s.refreshFailure = NoFailure
  /\ s.totalsKnown
  /\ s.refreshGeneration = generation
  /\ s.generation = generation

CountersInv ==
  /\ cache.totalsKnown => cache.generation <= cache.refreshGeneration
  /\ cache.refreshGeneration <= generation
  /\ pc \in Attempting => cache.refreshGeneration < generation
  /\ generation = 0 => cache = Initial
  /\ generation <= MaxGeneration
  /\ pc = "refresh" => generation < MaxGeneration

DraftInv ==
  /\ failure # NoFailure => pc \in {"failed", "publish", "store"}
  /\ pc \in {"catalog", "recovery"} => Fresh(draft)
  /\ pc \in {"publish", "store"} =>
       /\ Claimless(draft)
       /\ draft.refreshGeneration = generation
       /\ failure = NoFailure => Fresh(draft) /\ EvidenceOf(draft) = scanned
       /\ failure # NoFailure =>
            /\ draft.stale
            /\ draft.totalsKnown = cache.totalsKnown
            /\ cache.totalsKnown => EvidenceOf(draft) = EvidenceOf(cache)

EngineInv ==
  /\ pc = "store" => Sidecar /\ Projectable(draft)
  /\ Sidecar => Blank(cache)
  /\ EngineAgreesWithCache
  /\ ~Sidecar => engine = Project(Initial)

BudgetInv ==
  /\ WithinObjectBudget
  /\ draft.objectCount <= MaxObjects

IInv ==
  /\ TypeOK
  /\ Claimless(cache)
  /\ CountersInv
  /\ DraftInv
  /\ EngineInv
  /\ SuccessIsVisible
  /\ BudgetInv

LEMMA IInvInit ==
  ASSUME Init
  PROVE  IInv
<1>1. TypeOK
  BY TypeInit
<1>2. /\ pc = "idle" /\ generation = 0 /\ failure = NoFailure /\ objectCount = 0
      /\ draft = Initial /\ cache = Initial /\ engine = Project(Initial)
      /\ outcome = "none"
  BY DEF Init
<1> QED
  BY <1>1, <1>2, InitialFacts, BoundsAssumption
     DEF IInv, CountersInv, DraftInv, EngineInv, EngineAgreesWithCache,
         SuccessIsVisible, BudgetInv, WithinObjectBudget, Attempting

(* A step that neither scans nor publishes.                                *)
LEMMA QuietStep ==
  ASSUME IInv, TypeOK',
         UNCHANGED <<generation, failure, draft, cache, engine, scanned, outcome,
                     objectCount>>,
         \/ pc' = pc
         \/ pc = "idle" /\ pc' = "refresh" /\ generation < MaxGeneration
         \/ pc = "idle" /\ pc' = "stopped"
         \/ pc = "list" /\ pc' = "await"
  PROVE  IInv'
<1> USE DEF IInv
<1>1. Claimless(cache)'
  BY DEF Claimless, Known
<1>2. CountersInv'
  BY DEF CountersInv, Attempting
<1>3. DraftInv'
  BY DEF DraftInv, Fresh
<1>4. EngineInv'
  BY DEF EngineInv, Blank, EngineAgreesWithCache
<1>5. SuccessIsVisible'
  BY DEF SuccessIsVisible
<1>6. BudgetInv'
  BY DEF BudgetInv, WithinObjectBudget
<1> QED
  BY <1>1, <1>2, <1>3, <1>4, <1>5, <1>6

(* The scan ends without a snapshot.                                       *)
LEMMA DropStep ==
  ASSUME IInv, TypeOK',
         UNCHANGED <<generation, cache, engine>>,
         pc \in Attempting \ {"store"},
         DropScan,
         \/ pc' = "failed"
         \/ pc' = "idle" /\ outcome' # "published" /\ failure' = NoFailure
  PROVE  IInv'
<1> USE DEF IInv
<1>1. Claimless(cache)'
  BY DEF Claimless, Known
<1>2. CountersInv'
  BY DEF CountersInv, Attempting
<1>3. DraftInv'
  BY DEF DraftInv
<1>4. EngineInv'
  BY DEF EngineInv, Blank, EngineAgreesWithCache, Attempting
<1>5. SuccessIsVisible'
  BY DEF SuccessIsVisible
<1>6. BudgetInv'
  BY InitialFacts, BoundsAssumption DEF BudgetInv, WithinObjectBudget, DropScan
<1> QED
  BY <1>1, <1>2, <1>3, <1>4, <1>5, <1>6

(* builder.complete: the snapshot of a drained listing is fresh.           *)
LEMMA CompleteListingFacts ==
  ASSUME NEW st, NEW now, NEW n
  PROVE  LET s == CompleteListing(generation, st, now, n)
         IN  /\ Fresh(s)
             /\ Claimless(s)
             /\ s.objectCount = n
BY DEF CompleteListing, Fresh, Claimless

(* Analysis changes what a fresh draft says, not that it is fresh.         *)
LEMMA AnalysisFacts ==
  ASSUME TypeOK, Fresh(draft), draft.objectCount <= MaxObjects,
         \/ \E facts \in CatalogOutcomes : draft' = ApplyCatalog(draft, facts)
         \/ \E facts \in RecoveryOutcomes : draft' = ApplyRecovery(draft, facts),
         UNCHANGED generation
  PROVE  /\ Fresh(draft)'
         /\ Claimless(draft')
         /\ draft'.objectCount <= MaxObjects
<1>1. draft \in Snapshot
  BY DEF TypeOK
<1> DEFINE Kept ==
             /\ draft'.stale = draft.stale
             /\ draft'.refreshFailure = draft.refreshFailure
             /\ draft'.totalsKnown = draft.totalsKnown
             /\ draft'.refreshGeneration = draft.refreshGeneration
             /\ draft'.generation = draft.generation
             /\ draft'.objectCount = draft.objectCount
<1>2. ASSUME NEW facts \in CatalogOutcomes, draft' = ApplyCatalog(draft, facts)
      PROVE  Kept
  <2>1. PICK state \in State, caps \in [CapabilityID -> Capability] :
          ApplyCatalog(draft, facts) =
            [draft EXCEPT !.catalog = facts, !.state = state, !.capabilities = caps]
    BY <1>1, ApplyCatalogType, Zenon
  <2>2. draft' = [draft EXCEPT !.catalog = facts, !.state = state, !.capabilities = caps]
    BY <1>2, <2>1
  <2> QED
    BY ONLY <1>1, <2>2 DEF Snapshot
<1>3. ASSUME NEW facts \in RecoveryOutcomes, draft' = ApplyRecovery(draft, facts)
      PROVE  Kept
  <2>1. PICK state \in State, caps \in [CapabilityID -> Capability] :
          ApplyRecovery(draft, facts) =
            [draft EXCEPT !.recovery = facts, !.state = state, !.capabilities = caps]
    BY <1>1, ApplyRecoveryType, Zenon
  <2> QED
    BY <1>1, <1>3, <2>1 DEF Snapshot
<1>4. Kept
  BY <1>2, <1>3
<1> QED
  BY <1>4 DEF Fresh, Claimless

LEMMA BeginStep ==
  ASSUME IInv, TypeOK', BeginRefresh
  PROVE  IInv'
<1> USE DEF IInv, BeginRefresh
<1>0. cache.refreshGeneration \in Nat /\ generation \in Nat
  BY DEF TypeOK, Snapshot
<1>1. Claimless(cache)'
  BY DEF Claimless, Known
<1>2. CountersInv'
  BY <1>0, BoundsAssumption DEF CountersInv, Attempting
<1>3. DraftInv'
  BY DEF DraftInv
<1>4. EngineInv'
  BY DEF EngineInv, Blank, EngineAgreesWithCache
<1>5. SuccessIsVisible'
  BY DEF SuccessIsVisible
<1>6. BudgetInv'
  BY BoundsAssumption DEF BudgetInv, WithinObjectBudget
<1> QED
  BY <1>1, <1>2, <1>3, <1>4, <1>5, <1>6

(* A page never takes the count past the object limit.                     *)
LEMMA PageWithinBudget ==
  ASSUME TypeOK, WithinObjectBudget, NEW n \in 0..Limit
  PROVE  n \in Nat /\ objectCount + n <= MaxObjects
BY BoundsAssumption DEF TypeOK, WithinObjectBudget, Limit, Remaining

(* The scan goes on with the same empty draft, or becomes a fresh one.     *)
LEMMA ScanStep ==
  ASSUME IInv, TypeOK',
         UNCHANGED <<generation, failure, cache, engine, outcome>>,
         pc \in Attempting \ {"failed", "publish", "store"},
         failure = NoFailure,
         pc' \in {"list", "catalog", "recovery", "publish"},
         pc' # "list" => Fresh(draft)' /\ Claimless(draft'),
         pc' = "publish" => scanned' = EvidenceOf(draft'),
         objectCount' <= MaxObjects,
         draft'.objectCount <= MaxObjects
  PROVE  IInv'
<1> USE DEF IInv
<1>1. Claimless(cache)'
  BY DEF Claimless, Known
<1>2. CountersInv'
  BY DEF CountersInv, Attempting
<1>3. DraftInv'
  <2>1. /\ Claimless(draft)' <=> Claimless(draft')
        /\ EvidenceOf(draft)' = EvidenceOf(draft')
    BY DEF Claimless, Known, EvidenceOf
  <2> QED
    BY <2>1 DEF DraftInv, Fresh
<1>4. EngineInv'
  BY DEF EngineInv, Blank, EngineAgreesWithCache, Attempting
<1>5. SuccessIsVisible'
  BY DEF SuccessIsVisible
<1>6. BudgetInv'
  BY DEF BudgetInv, WithinObjectBudget
<1> QED
  BY <1>1, <1>2, <1>3, <1>4, <1>5, <1>6

LEMMA PrepareFailureStep ==
  ASSUME IInv, TypeOK', PrepareFailure
  PROVE  IInv'
<1> USE DEF IInv
<1>1. /\ pc = "failed" /\ pc' = "publish"
      /\ draft' = FailureSnapshot(cache, generation, started, clock, failure)
      /\ UNCHANGED <<generation, objectCount, failure, cache, engine, outcome>>
  BY DEF PrepareFailure, scan, history
<1>2. /\ cache \in Snapshot /\ generation \in Nat /\ started \in Zero /\ clock \in Zero
      /\ failure \in Failures /\ failure # NoFailure
  BY <1>1 DEF TypeOK, Zero
<1>3. /\ Claimless(draft') /\ draft'.stale
      /\ draft'.refreshGeneration = generation
      /\ draft'.totalsKnown = cache.totalsKnown
      /\ cache.totalsKnown => EvidenceOf(draft') = EvidenceOf(cache)
  BY <1>1, <1>2, FailureSnapshotFacts
<1>4. draft'.objectCount <= MaxObjects
  <2>1. CASE cache.totalsKnown
    <3>1. draft'.objectCount = cache.objectCount
      BY <1>3, <2>1 DEF EvidenceOf
    <3> QED
      BY <3>1 DEF BudgetInv, WithinObjectBudget
  <2>2. CASE ~cache.totalsKnown
    <3>1. draft'.objectCount = Initial.objectCount
      BY <1>1, <2>2, InitialType DEF FailureSnapshot, FirstFailure, Snapshot
    <3> QED
      BY <3>1, InitialFacts, BoundsAssumption
  <2> QED
    BY <2>1, <2>2
<1>5. Claimless(cache)'
  BY <1>1 DEF Claimless, Known
<1>6. CountersInv'
  BY <1>1 DEF CountersInv, Attempting
<1>7. DraftInv'
  <2>1. /\ Claimless(draft)' <=> Claimless(draft')
        /\ EvidenceOf(draft)' = EvidenceOf(draft')
        /\ EvidenceOf(cache)' = EvidenceOf(cache)
    BY <1>1 DEF Claimless, Known, EvidenceOf
  <2> QED
    BY <1>1, <1>2, <1>3, <2>1 DEF DraftInv
<1>8. EngineInv'
  BY <1>1 DEF EngineInv, Blank, EngineAgreesWithCache
<1>9. SuccessIsVisible'
  BY <1>1 DEF SuccessIsVisible
<1>10. BudgetInv'
  BY <1>1, <1>4 DEF BudgetInv, WithinObjectBudget
<1> QED
  BY <1>5, <1>6, <1>7, <1>8, <1>9, <1>10

(* A refused snapshot leaves everything published as it was.               *)
LEMMA RefusedStep ==
  ASSUME IInv, TypeOK',
         UNCHANGED <<generation, cache, engine>>,
         pc = "publish",
         Return(FALSE)
  PROVE  IInv'
<1>1. /\ DropScan /\ pc' = "idle" /\ failure' = NoFailure
      /\ outcome' # "published"
  BY DEF Return
<1> QED
  BY <1>1, DropStep DEF Attempting

LEMMA EngineStep ==
  ASSUME IInv, TypeOK', PublishToEngine
  PROVE  IInv'
<1> USE DEF IInv
<1>1. /\ Sidecar /\ pc = "publish"
      /\ UNCHANGED <<generation, cache>>
  BY DEF PublishToEngine
<1>2. CASE ~EngineAccepts(draft)
  BY <1>1, <1>2, RefusedStep DEF PublishToEngine
<1>3. CASE EngineAccepts(draft)
  <2>1. /\ engine' = Project(draft)
        /\ pc' = "store"
        /\ UNCHANGED <<failure, draft, outcome, scanned, objectCount>>
    BY <1>3 DEF PublishToEngine, scan
  <2>2. Projectable(draft)
    BY <1>3 DEF EngineAccepts
  <2>3. Claimless(cache)'
    BY <1>1 DEF Claimless, Known
  <2>4. CountersInv'
    BY <1>1, <2>1 DEF CountersInv, Attempting
  <2>5. DraftInv'
    <3>1. /\ Claimless(draft)' <=> Claimless(draft)
          /\ EvidenceOf(draft)' = EvidenceOf(draft)
          /\ EvidenceOf(cache)' = EvidenceOf(cache)
      BY <1>1, <2>1 DEF Claimless, Known, EvidenceOf
    <3> QED
      BY <1>1, <2>1, <3>1 DEF DraftInv, Fresh
  <2>6. EngineInv'
    <3>1. Project(draft)' = Project(draft)
      BY <2>1
    <3>2. Projectable(draft)' <=> Projectable(draft)
      BY <2>1
    <3> QED
      BY <1>1, <2>1, <2>2, <3>1, <3>2 DEF EngineInv, Blank, EngineAgreesWithCache
  <2>7. SuccessIsVisible'
    BY <2>1 DEF SuccessIsVisible
  <2>8. BudgetInv'
    BY <1>1, <2>1 DEF BudgetInv, WithinObjectBudget
  <2> QED
    BY <2>3, <2>4, <2>5, <2>6, <2>7, <2>8
<1> QED
  BY <1>2, <1>3

LEMMA CacheStep ==
  ASSUME IInv, TypeOK', PublishToCache
  PROVE  IInv'
<1> USE DEF IInv
<1>1. /\ pc = IF Sidecar THEN "store" ELSE "publish"
      /\ UNCHANGED <<generation, engine, scanned>>
      /\ pc' = "idle" /\ failure' = NoFailure /\ DropScan
      /\ draft' = Initial /\ objectCount' = 0
  BY DEF PublishToCache, Return, DropScan
<1>2. CASE ~ValidSnapshot(draft)
  <2>1. ~Sidecar /\ cache' = cache /\ Return(FALSE)
    BY <1>1, <1>2 DEF PublishToCache, EngineInv, Return, Projectable
  <2> QED
    BY <1>1, <2>1, RefusedStep
<1>3. CASE ValidSnapshot(draft)
  <2>1. /\ cache' = draft
        /\ outcome' = IF failure = NoFailure THEN "published" ELSE "failed"
    BY <1>3 DEF PublishToCache, Return
  <2>2. /\ Claimless(draft)
        /\ draft.refreshGeneration = generation
        /\ failure = NoFailure => Fresh(draft)
        /\ failure # NoFailure =>
             /\ draft.totalsKnown = cache.totalsKnown
             /\ cache.totalsKnown => EvidenceOf(draft) = EvidenceOf(cache)
    BY <1>1 DEF DraftInv
  <2>3. /\ generation \in Nat /\ generation # 0
        /\ cache.generation \in Nat /\ cache.refreshGeneration \in Nat
        /\ cache.refreshGeneration < generation
    BY <1>1 DEF TypeOK, Snapshot, CountersInv, Attempting
  <2>4. Claimless(cache)'
    BY <2>1, <2>2 DEF Claimless, Known
  <2>5. CountersInv'
    <3>1. draft.totalsKnown => draft.generation <= generation
      <4>1. CASE failure = NoFailure
        BY <2>2, <2>3, <4>1 DEF Fresh
      <4>2. CASE failure # NoFailure
        <5>1. draft.totalsKnown => draft.generation = cache.generation /\ cache.totalsKnown
          BY <2>2, <4>2 DEF EvidenceOf
        <5> QED
          BY <2>3, <5>1 DEF CountersInv
      <4> QED
        BY <4>1, <4>2
    <3> QED
      BY <1>1, <2>1, <2>2, <2>3, <3>1 DEF CountersInv, Attempting
  <2>6. DraftInv'
    BY <1>1 DEF DraftInv
  <2>7. EngineInv'
    <3>1. Sidecar => Blank(draft)
      BY <1>1 DEF EngineInv, Projectable, ValidSnapshot, Blank
    <3>2. Blank(cache)' <=> Blank(draft)
      BY <2>1 DEF Blank
    <3> QED
      BY <1>1, <2>1, <3>1, <3>2 DEF EngineInv, EngineAgreesWithCache
  <2>8. SuccessIsVisible'
    BY <1>1, <2>1, <2>2 DEF SuccessIsVisible, Fresh
  <2>9. BudgetInv'
    BY <1>1, <2>1, InitialFacts, BoundsAssumption DEF BudgetInv, WithinObjectBudget
  <2> QED
    BY <2>4, <2>5, <2>6, <2>7, <2>8, <2>9
<1> QED
  BY <1>2, <1>3

LEMMA RestartStep ==
  ASSUME TypeOK', Restart
  PROVE  IInv'
<1> USE DEF IInv
<1>1. /\ pc' = "idle" /\ generation' = 0 /\ failure' = NoFailure /\ objectCount' = 0
      /\ draft' = Initial /\ cache' = Initial /\ engine' = Project(Initial)
      /\ outcome' = "none"
  BY DEF Restart
<1>2. Claimless(cache)'
  BY <1>1, InitialFacts DEF Claimless, Known
<1>3. CountersInv' /\ DraftInv' /\ SuccessIsVisible'
  BY <1>1, InitialFacts, BoundsAssumption
     DEF CountersInv, DraftInv, SuccessIsVisible, Attempting
<1>4. EngineInv'
  BY <1>1, InitialFacts DEF EngineInv, Blank, EngineAgreesWithCache
<1>5. BudgetInv'
  BY <1>1, InitialFacts, BoundsAssumption DEF BudgetInv, WithinObjectBudget
<1> QED
  BY <1>2, <1>3, <1>4, <1>5

LEMMA IInvStep ==
  ASSUME IInv, [Next]_vars
  PROVE  IInv'
<1>0. TypeOK /\ TypeOK'
  BY TypeStep DEF IInv
<1>1. CASE Probe
  BY <1>0, <1>1, QuietStep DEF Probe, scan, history
<1>2. CASE Stop
  BY <1>0, <1>2, QuietStep DEF Stop, scan, history
<1>3. CASE BeginRefresh
  BY <1>0, <1>3, BeginStep
<1>4. CASE RequestPage
  <2>1. CASE Abandon
    BY <1>0, <1>4, <2>1, DropStep DEF RequestPage, Abandon, Attempting, IInv, DraftInv
  <2>2. CASE Fail(SafetyLimit)
    BY <1>0, <1>4, <2>2, DropStep DEF RequestPage, Fail, Attempting
  <2>3. CASE pc' = "await" /\ UNCHANGED <<started, scan, failure, draft, outcome>>
    BY <1>0, <1>4, <2>3, QuietStep DEF RequestPage, scan
  <2> QED
    BY <1>4, <2>1, <2>2, <2>3 DEF RequestPage
<1>5. CASE ListCanceled
  BY <1>0, <1>5, DropStep DEF ListCanceled, Abandon, Attempting, IInv, DraftInv
<1>6. CASE ListFailed
  BY <1>0, <1>6, DropStep DEF ListFailed, Fail, Attempting
<1>7. CASE ReceivePage
  <2>1. PICK n \in 0..Limit, next \in Cursors :
          \/ Fail(SafetyLimit)
          \/ /\ pc' = "list"
             /\ objectCount' = objectCount + n
             /\ UNCHANGED <<started, failure, draft, outcome>>
    BY <1>7 DEF ReceivePage
  <2>2. CASE Fail(SafetyLimit)
    BY <1>0, <1>7, <2>2, DropStep DEF ReceivePage, Fail, Attempting
  <2>3. CASE ~Fail(SafetyLimit)
    <3>1. objectCount' <= MaxObjects
      BY <1>0, <2>1, <2>3, PageWithinBudget DEF IInv, BudgetInv
    <3> QED
      BY <1>0, <1>7, <2>1, <2>3, <3>1, ScanStep
         DEF ReceivePage, Attempting, IInv, DraftInv, BudgetInv
  <2> QED
    BY <2>2, <2>3
<1>8. CASE ReceiveLastPage
  <2>1. PICK n \in 0..Limit :
          /\ objectCount' = objectCount + n
          /\ draft' = CompleteListing(generation, started, clock, objectCount + n)
    BY <1>8 DEF ReceiveLastPage
  <2>2. objectCount' <= MaxObjects
    BY <1>0, <2>1, PageWithinBudget DEF IInv, BudgetInv
  <2>3. /\ Fresh(draft') /\ Claimless(draft')
        /\ draft'.objectCount = objectCount'
    BY <2>1, CompleteListingFacts
  <2>4. /\ pc = "await" /\ pc' \in {"catalog", "publish"}
        /\ pc' = "publish" => scanned' = EvidenceOf(draft')
        /\ UNCHANGED <<generation, failure, cache, engine, outcome>>
    BY <1>8 DEF ReceiveLastPage
  <2>5. Fresh(draft)'
    BY <2>3, <2>4 DEF Fresh
  <2>6. failure = NoFailure
    BY <2>4 DEF IInv, DraftInv
  <2> QED
    BY <1>0, <2>2, <2>3, <2>4, <2>5, <2>6, ScanStep DEF Attempting
<1>9. CASE AnalyzeCatalog
  <2>1. CASE Abandon
    BY <1>0, <1>9, <2>1, DropStep DEF AnalyzeCatalog, Abandon, Attempting, IInv, DraftInv
  <2>2. CASE ~Abandon
    <3>1. /\ pc = "catalog" /\ pc' = "recovery"
          /\ \E facts \in CatalogOutcomes : draft' = ApplyCatalog(draft, facts)
          /\ UNCHANGED <<generation, failure, cache, engine, outcome, objectCount>>
      BY <1>9, <2>2 DEF AnalyzeCatalog, scan
    <3>2. /\ Fresh(draft) /\ draft.objectCount <= MaxObjects /\ objectCount <= MaxObjects
          /\ failure = NoFailure
      BY <3>1 DEF IInv, DraftInv, BudgetInv, WithinObjectBudget
    <3>3. /\ Fresh(draft)' /\ Claimless(draft')
          /\ draft'.objectCount <= MaxObjects
      BY <1>0, <3>1, <3>2, AnalysisFacts
    <3> QED
      BY <1>0, <3>1, <3>2, <3>3, ScanStep DEF Attempting
  <2> QED
    BY <2>1, <2>2
<1>10. CASE AnalyzeRecovery
  <2>1. CASE Abandon
    BY <1>0, <1>10, <2>1, DropStep DEF AnalyzeRecovery, Abandon, Attempting, IInv, DraftInv
  <2>2. CASE ~Abandon
    <3>1. /\ pc = "recovery" /\ pc' = "publish"
          /\ \E facts \in RecoveryOutcomes : draft' = ApplyRecovery(draft, facts)
          /\ scanned' = EvidenceOf(draft')
          /\ UNCHANGED <<generation, failure, cache, engine, outcome, objectCount>>
      BY <1>10, <2>2 DEF AnalyzeRecovery, scan
    <3>2. /\ Fresh(draft) /\ draft.objectCount <= MaxObjects /\ objectCount <= MaxObjects
          /\ failure = NoFailure
      BY <3>1 DEF IInv, DraftInv, BudgetInv, WithinObjectBudget
    <3>3. /\ Fresh(draft)' /\ Claimless(draft')
          /\ draft'.objectCount <= MaxObjects
      BY <1>0, <3>1, <3>2, AnalysisFacts
    <3> QED
      BY <1>0, <3>1, <3>2, <3>3, ScanStep DEF Attempting
  <2> QED
    BY <2>1, <2>2
<1>11. CASE PrepareFailure
  BY <1>0, <1>11, PrepareFailureStep
<1>12. CASE PublishToEngine
  BY <1>0, <1>12, EngineStep
<1>13. CASE PublishToCache
  BY <1>0, <1>13, CacheStep
<1>14. CASE Cancel
  BY <1>0, <1>14, QuietStep DEF Cancel, scan, history
<1>15. CASE ClockStep
  BY <1>0, <1>15, QuietStep DEF ClockStep, scan, history
<1>16. CASE Restart
  BY <1>0, <1>16, RestartStep
<1>17. CASE UNCHANGED vars
  BY <1>0, <1>17, QuietStep DEF vars
<1> QED
  BY <1>1, <1>2, <1>3, <1>4, <1>5, <1>6, <1>7, <1>8, <1>9, <1>10, <1>11,
     <1>12, <1>13, <1>14, <1>15, <1>16, <1>17 DEF Next, RefreshStep

LEMMA Invariance == Spec => []IInv
<1>1. Init => IInv
  BY IInvInit
<1>2. IInv /\ [Next]_vars => IInv'
  BY IInvStep
<1> QED
  BY <1>1, <1>2, PTL DEF Spec

-----------------------------------------------------------------------------
(* What follows from the invariant *)

(* After a failed refresh neither the cache nor the evidence API claims    *)
(* anything (publishFailure).                                              *)
THEOREM FailureIsClaimless == Spec => []FailureClaimsNothing
<1>1. IInv => FailureClaimsNothing
  <2> SUFFICES ASSUME IInv
               PROVE  FailureClaimsNothing
    OBVIOUS
  <2>1. Claimless(cache)
    BY DEF IInv
  <2>2. PICK s : engine = Project(s) /\ Claimless(s)
    <3>1. CASE Sidecar /\ pc = "store"
      BY <3>1 DEF IInv, EngineInv, EngineAgreesWithCache, DraftInv
    <3>2. CASE Sidecar /\ pc # "store"
      BY <2>1, <3>2 DEF IInv, EngineInv, EngineAgreesWithCache
    <3>3. CASE ~Sidecar
      BY <3>3, InitialFacts DEF IInv, EngineInv
    <3> QED
      BY <3>1, <3>2, <3>3
  <2>3. /\ engine.lastFailure = s.refreshFailure
        /\ engine.state = s.state
        /\ engine.capabilities = s.capabilities
    BY <2>2 DEF Project
  <2> QED
    BY <2>1, <2>2, <2>3 DEF FailureClaimsNothing, Claimless
<1> QED
  BY <1>1, Invariance, PTL

(* The engine and the cache show the same snapshot, except between their   *)
(* two publications (evidencePublishingCache.Publish).                     *)
THEOREM EngineAgreement == Spec => []EngineAgreesWithCache
<1>1. IInv => EngineAgreesWithCache
  BY DEF IInv, EngineInv
<1> QED
  BY <1>1, Invariance, PTL

(* An attempt reported as successful is what readers see (Refresh).        *)
THEOREM SuccessVisibility == Spec => []SuccessIsVisible
<1>1. IInv => SuccessIsVisible
  BY DEF IInv
<1> QED
  BY <1>1, Invariance, PTL

(* No scan counts, and no snapshot reports, more objects than configured   *)
(* (scan).                                                                 *)
THEOREM ObjectBudget == Spec => []WithinObjectBudget
<1>1. IInv => WithinObjectBudget
  BY DEF IInv, BudgetInv
<1> QED
  BY <1>1, Invariance, PTL

-----------------------------------------------------------------------------
(* The overall state.  Each analysis adds verdicts to those of the draft   *)
(* and folds the same verdicts into its state, so that the two stay in     *)
(* step: the state is always the worst of the verdicts there are.          *)

Verdicts(caps) == {caps[id].state : id \in Known(caps) \ {"inventory"}}

Worst(s) == s.state = Rollup(Verdicts(s.capabilities))

CatalogIDs == {"inventory", "catalog", "structural", "wal"}

VerdictInv ==
  /\ cache.totalsKnown /\ ~cache.stale => Worst(cache)
  /\ pc = "catalog" => Known(draft.capabilities) = {"inventory"}
  /\ pc = "recovery" => Worst(draft) /\ Known(draft.capabilities) = CatalogIDs
  /\ pc \in {"publish", "store"} /\ failure = NoFailure => Worst(draft)

(* conservativeState joins two folds. *)
LEMMA RollupJoin ==
  /\ \A A, B \in SUBSET State : A # {} /\ B # {} =>
       conservativeState(Rollup(A), Rollup(B)) = Rollup(A \cup B)
  /\ \A state \in State : Rollup({state}) = state
<1>1. \A A, B \in SUBSET State : A # {} /\ B # {} =>
        conservativeState(Rollup(A), Rollup(B)) = Rollup(A \cup B)
  <2> SUFFICES ASSUME NEW A \in SUBSET State, NEW B \in SUBSET State, A # {}, B # {}
               PROVE  conservativeState(Rollup(A), Rollup(B)) = Rollup(A \cup B)
    OBVIOUS
  <2> QED
    BY DEF conservativeState, Rollup, State, Healthy, Warning, Unhealthy, Unknown
<1>2. \A state \in State : Rollup({state}) = state
  BY DEF Rollup, State, Healthy, Warning, Unhealthy, Unknown
<1> QED
  BY <1>1, <1>2

(* A capability set for the first time adds its verdict to the others. *)
LEMMA VerdictsExtend ==
  ASSUME NEW caps \in [CapabilityID -> Capability], NEW ids \in SUBSET CapabilityID,
         ids # {}, "inventory" \notin ids, ids \cap Known(caps) = {}, NEW state \in State
  PROVE  LET new == WithCapabilities(caps, ids, state)
         IN  /\ new \in [CapabilityID -> Capability]
             /\ Known(new) = Known(caps) \cup ids
             /\ Verdicts(new) = Verdicts(caps) \cup {state}
<1> DEFINE new == WithCapabilities(caps, ids, state)
<1>1. new \in [CapabilityID -> Capability]
  BY WithCapabilitiesType
<1>2. \A id \in ids : new[id].support = Supported /\ new[id].state = state
  BY DEF WithCapabilities
<1>3. \A id \in CapabilityID \ ids : new[id] = caps[id]
  BY DEF WithCapabilities
<1> HIDE DEF new
<1>4. Known(new) = Known(caps) \cup ids
  BY <1>2, <1>3 DEF Known
<1>5. Verdicts(new) = Verdicts(caps) \cup {state}
  <2>1. \A id \in Known(caps) : new[id] = caps[id]
    BY <1>3 DEF Known
  <2> HIDE <1>3
  <2>2. ASSUME NEW x \in Verdicts(new) PROVE x \in Verdicts(caps) \cup {state}
    BY <1>2, <1>4, <2>1 DEF Verdicts
  <2>3. ASSUME NEW x \in Verdicts(caps) PROVE x \in Verdicts(new)
    BY <1>4, <2>1 DEF Verdicts
  <2>4. state \in Verdicts(new)
    BY <1>2, <1>4 DEF Verdicts
  <2> QED
    BY <2>2, <2>3, <2>4
<1> QED
  BY <1>1, <1>4, <1>5 DEF new

LEMMA VerdictsType ==
  ASSUME NEW caps \in [CapabilityID -> Capability]
  PROVE  Verdicts(caps) \in SUBSET State
BY DEF Verdicts, Known, Capability

LEMMA CatalogVerdict ==
  ASSUME NEW s \in Snapshot, NEW facts \in CatalogOutcomes,
         Known(s.capabilities) = {"inventory"}
  PROVE  LET t == ApplyCatalog(s, facts)
         IN  Worst(t) /\ Known(t.capabilities) = CatalogIDs
<1> DEFINE backups  == Rollup(facts.backups)
           walState == Rollup(facts.wal)
           inner    == WithCapabilities(s.capabilities, {"catalog", "structural"}, backups)
           caps     == WithCapabilities(inner, {"wal"}, walState)
           state    == conservativeState(backups, walState)
           t        == ApplyCatalog(s, facts)
<1>1. backups \in State /\ walState \in State
  BY OutcomeAssumption, StatesClosed
<1>2. s.capabilities \in [CapabilityID -> Capability] /\ Verdicts(s.capabilities) = {}
  BY DEF Snapshot, Verdicts
<1>3. /\ {"catalog", "structural"} \in SUBSET CapabilityID
      /\ {"catalog", "structural"} \cap Known(s.capabilities) = {}
  BY DEF CapabilityID
<1>4. /\ inner \in [CapabilityID -> Capability]
      /\ Known(inner) = {"inventory"} \cup {"catalog", "structural"}
      /\ Verdicts(inner) = {} \cup {backups}
  <2>1. {"catalog", "structural"} # {} /\ "inventory" \notin {"catalog", "structural"}
    OBVIOUS
  <2> HIDE DEF backups
  <2>2. /\ inner \in [CapabilityID -> Capability]
        /\ Known(inner) = Known(s.capabilities) \cup {"catalog", "structural"}
        /\ Verdicts(inner) = Verdicts(s.capabilities) \cup {backups}
    BY ONLY <1>1, <1>2, <1>3, <2>1, VerdictsExtend
  <2> HIDE DEF inner
  <2> QED
    BY <1>2, <2>2
<1>5. {"wal"} \in SUBSET CapabilityID /\ {"wal"} \cap Known(inner) = {}
  BY <1>4 DEF CapabilityID
<1> HIDE DEF inner, backups, walState
<1>6. /\ caps \in [CapabilityID -> Capability]
      /\ Known(caps) = Known(inner) \cup {"wal"}
      /\ Verdicts(caps) = Verdicts(inner) \cup {walState}
  <2>1. {"wal"} # {} /\ "inventory" \notin {"wal"}
    OBVIOUS
  <2> QED
    BY ONLY <1>1, <1>4, <1>5, <2>1, VerdictsExtend
<1> HIDE DEF caps
<1>7. state = Rollup({backups} \cup {walState})
  BY <1>1, RollupJoin
<1> HIDE DEF state
<1>8. t = [s EXCEPT !.catalog = facts, !.state = state, !.capabilities = caps]
  BY Zenon DEF ApplyCatalog, state, caps, inner, backups, walState
<1> HIDE DEF t
<1>9. t.state = state /\ t.capabilities = caps
  BY <1>8 DEF Snapshot
<1>10. Verdicts(caps) = {backups} \cup {walState} /\ Known(caps) = CatalogIDs
  BY <1>4, <1>6 DEF CatalogIDs
<1> QED
  BY <1>7, <1>9, <1>10 DEF Worst, t

LEMMA RecoveryVerdict ==
  ASSUME NEW s \in Snapshot, NEW facts \in RecoveryOutcomes,
         Known(s.capabilities) = CatalogIDs, Worst(s)
  PROVE  Worst(ApplyRecovery(s, facts))
<1> DEFINE timeline  == Rollup(facts.timeline)
           coverage  == Rollup(facts.coverage)
           retention == Rollup(facts.retention)
           old   == Verdicts(s.capabilities)
           caps1 == WithCapabilities(s.capabilities, {"timeline"}, timeline)
           caps2 == WithCapabilities(caps1, {"coverage"}, coverage)
           caps  == WithCapabilities(caps2, {"retention"}, retention)
           state == conservativeState(s.state,
                      conservativeState(timeline, conservativeState(coverage, retention)))
           t     == ApplyRecovery(s, facts)
<1>1. timeline \in State /\ coverage \in State /\ retention \in State
  BY OutcomeAssumption, StatesClosed
<1>2. s.capabilities \in [CapabilityID -> Capability]
  BY DEF Snapshot
<1>3. old \in SUBSET State /\ old # {}
  BY <1>2, VerdictsType DEF Verdicts, CatalogIDs
<1>4. s.state = Rollup(old)
  BY DEF Worst
<1>5. {"timeline"} \in SUBSET CapabilityID /\ {"timeline"} \cap Known(s.capabilities) = {}
  BY DEF CapabilityID, CatalogIDs
<1> HIDE DEF timeline, coverage, retention
<1>6. /\ caps1 \in [CapabilityID -> Capability]
      /\ Known(caps1) = CatalogIDs \cup {"timeline"}
      /\ Verdicts(caps1) = old \cup {timeline}
  BY <1>1, <1>2, <1>5, VerdictsExtend
<1>7. {"coverage"} \in SUBSET CapabilityID /\ {"coverage"} \cap Known(caps1) = {}
  BY <1>6 DEF CapabilityID, CatalogIDs
<1> HIDE DEF old, caps1
<1>8. /\ caps2 \in [CapabilityID -> Capability]
      /\ Known(caps2) = Known(caps1) \cup {"coverage"}
      /\ Verdicts(caps2) = Verdicts(caps1) \cup {coverage}
  BY <1>1, <1>6, <1>7, VerdictsExtend
<1>9. {"retention"} \in SUBSET CapabilityID /\ {"retention"} \cap Known(caps2) = {}
  BY <1>6, <1>8 DEF CapabilityID, CatalogIDs
<1> HIDE DEF caps2
<1>10. /\ caps \in [CapabilityID -> Capability]
       /\ Verdicts(caps) = Verdicts(caps2) \cup {retention}
  BY <1>1, <1>8, <1>9, VerdictsExtend
<1> HIDE DEF caps
<1>11. state = Rollup(Verdicts(caps))
  <2>1. conservativeState(coverage, retention) = Rollup({coverage} \cup {retention})
    BY <1>1, RollupJoin
  <2>2. conservativeState(timeline, conservativeState(coverage, retention))
          = Rollup({timeline} \cup ({coverage} \cup {retention}))
    <3>1. {coverage} \cup {retention} \in SUBSET State /\ {coverage} \cup {retention} # {}
      BY <1>1
    <3> QED
      BY <1>1, <2>1, <3>1, RollupJoin
  <2>3. state = Rollup(old \cup ({timeline} \cup ({coverage} \cup {retention})))
    <3>1. /\ {timeline} \cup ({coverage} \cup {retention}) \in SUBSET State
          /\ {timeline} \cup ({coverage} \cup {retention}) # {}
      BY <1>1
    <3> QED
      BY <1>3, <1>4, <2>2, <3>1, RollupJoin
  <2>4. old \cup ({timeline} \cup ({coverage} \cup {retention})) = Verdicts(caps)
    BY <1>6, <1>8, <1>10
  <2> QED
    BY <2>3, <2>4
<1> HIDE DEF state
<1>12. t = [s EXCEPT !.recovery = facts, !.state = state, !.capabilities = caps]
  BY Zenon DEF ApplyRecovery, state, caps, caps2, caps1, timeline, coverage, retention
<1> HIDE DEF t
<1>13. t.state = state /\ t.capabilities = caps
  BY <1>12 DEF Snapshot
<1> QED
  BY <1>11, <1>13 DEF Worst, t

LEMMA VerdictInit == Init /\ AnalyzeBarman => VerdictInv
BY InitialFacts DEF Init, VerdictInv

LEMMA VerdictStep ==
  ASSUME AnalyzeBarman, IInv, VerdictInv, [Next]_vars
  PROVE  VerdictInv'
<1> USE DEF VerdictInv
<1>0. TypeOK /\ DraftInv
  BY DEF IInv
<1>1. CASE ReceiveLastPage
  <2>1. PICK n \in 0..Limit :
          draft' = CompleteListing(generation, started, clock, objectCount + n)
    BY <1>1 DEF ReceiveLastPage
  <2>2. Known(draft'.capabilities) = {"inventory"}
    <3>1. draft'.capabilities
            = WithCapabilities(UnscannedCapabilities, {"inventory"}, Healthy)
      BY <2>1 DEF CompleteListing
    <3> QED
      BY <3>1 DEF Known, WithCapabilities, UnscannedCapabilities, CapabilityID,
                  Supported, SupportUnknown
  <2>3. pc' = "catalog" /\ cache' = cache
    BY <1>1 DEF ReceiveLastPage
  <2> QED
    BY <2>2, <2>3 DEF Worst, Verdicts, Known
<1>2. CASE AnalyzeCatalog /\ ~Abandon
  <2>1. PICK facts \in CatalogOutcomes : draft' = ApplyCatalog(draft, facts)
    BY <1>2 DEF AnalyzeCatalog
  <2>2. pc = "catalog" /\ pc' = "recovery" /\ cache' = cache
    BY <1>2 DEF AnalyzeCatalog
  <2>3. Worst(draft') /\ Known(draft'.capabilities) = CatalogIDs
    BY <1>0, <2>1, <2>2, CatalogVerdict DEF TypeOK
  <2> QED
    BY <2>2, <2>3 DEF Worst, Verdicts, Known
<1>3. CASE AnalyzeRecovery /\ ~Abandon
  <2>1. PICK facts \in RecoveryOutcomes : draft' = ApplyRecovery(draft, facts)
    BY <1>3 DEF AnalyzeRecovery
  <2>2. pc = "recovery" /\ pc' = "publish" /\ cache' = cache
    BY <1>3 DEF AnalyzeRecovery
  <2>3. Worst(draft')
    BY <1>0, <2>1, <2>2, RecoveryVerdict DEF TypeOK
  <2> QED
    BY <2>2, <2>3 DEF Worst, Verdicts, Known
<1>4. CASE PrepareFailure
  BY <1>0, <1>4 DEF PrepareFailure, TypeOK, Worst, Verdicts, Known
<1>5. CASE PublishToEngine
  BY <1>5 DEF PublishToEngine, Return, Worst, Verdicts, Known
<1>6. CASE PublishToCache
  <2>1. pc' = "idle" /\ pc \in {"publish", "store"}
    BY <1>6 DEF PublishToCache, Return
  <2>2. CASE cache' = cache
    BY <2>1, <2>2 DEF Worst, Verdicts, Known
  <2>3. CASE cache' = draft
    <3>1. ~draft.stale => failure = NoFailure
      BY <1>0, <2>1 DEF DraftInv
    <3> QED
      BY <2>1, <2>3, <3>1 DEF Worst, Verdicts, Known
  <2> QED
    BY <1>6, <2>2, <2>3 DEF PublishToCache
<1>7. CASE Restart
  BY <1>7, InitialFacts DEF Restart
<1>8. CASE Fail(SafetyLimit) /\ UNCHANGED cache
  BY <1>8 DEF Fail, Worst, Verdicts, Known
<1>9. CASE Abandon /\ UNCHANGED cache
  BY <1>9 DEF Abandon, Worst, Verdicts, Known
<1>10. CASE ListFailed
  BY <1>10 DEF ListFailed, Fail, Worst, Verdicts, Known
<1>11. CASE pc' \in {"refresh", "stopped", "list", "await"} /\ UNCHANGED cache
  BY <1>11 DEF Worst, Verdicts, Known
<1>12. CASE UNCHANGED <<pc, cache, draft, failure>>
  BY <1>12 DEF Worst, Verdicts, Known
<1>13. CASE Probe \/ Stop \/ BeginRefresh
  BY <1>11, <1>13 DEF Probe, Stop, BeginRefresh
<1>14. CASE RequestPage \/ ListCanceled
  BY <1>8, <1>9, <1>11, <1>14 DEF RequestPage, ListCanceled
<1>15. CASE ReceivePage
  BY <1>8, <1>11, <1>15 DEF ReceivePage
<1>16. CASE (AnalyzeCatalog \/ AnalyzeRecovery) /\ Abandon
  BY <1>9, <1>16 DEF AnalyzeCatalog, AnalyzeRecovery
<1>17. CASE Cancel \/ ClockStep \/ UNCHANGED vars
  BY <1>12, <1>17 DEF Cancel, ClockStep, vars
<1> QED
  BY <1>1, <1>2, <1>3, <1>4, <1>5, <1>6, <1>7, <1>10, <1>13, <1>14, <1>15,
     <1>16, <1>17 DEF Next, RefreshStep

(* For fresh barman evidence the overall state is the worst of the         *)
(* capabilities that were evaluated (applyBarmanEvidence).                 *)
THEOREM StateIsWorst == Spec => []StateIsWorstCapability
<1>1. VerdictInv => StateIsWorstCapability
  BY DEF VerdictInv, StateIsWorstCapability, Worst, Verdicts
<1>2. ~AnalyzeBarman => StateIsWorstCapability
  BY DEF StateIsWorstCapability
<1>3. Init /\ AnalyzeBarman => VerdictInv
  BY VerdictInit
<1>4. AnalyzeBarman /\ IInv /\ VerdictInv /\ [Next]_vars => VerdictInv'
  BY VerdictStep
<1>5. CASE AnalyzeBarman
  BY <1>1, <1>3, <1>4, <1>5, Invariance, PTL DEF Spec
<1>6. CASE ~AnalyzeBarman
  BY <1>2, <1>6, PTL
<1> QED
  BY <1>5, <1>6

-----------------------------------------------------------------------------
(* Only the two publications and a restart change what is visible.         *)
LEMMA OnlyPublicationWrites ==
  ASSUME [Next]_vars
  PROVE  /\ UNCHANGED cache \/ PublishToCache \/ Restart
         /\ UNCHANGED engine \/ PublishToEngine \/ Restart
BY DEF Next, RefreshStep, Probe, Stop, BeginRefresh, RequestPage, ListCanceled,
       ListFailed, ReceivePage, ReceiveLastPage, AnalyzeCatalog, AnalyzeRecovery,
       PrepareFailure, PublishToEngine, PublishToCache, Cancel, ClockStep, vars

(* A restart that looks like the same process loses nothing: no attempt    *)
(* had begun.                                                              *)
LEMMA EarlyRestart ==
  ASSUME IInv, Restart, SameProcess
  PROVE  cache = Initial /\ cache' = Initial /\ engine' = engine
<1>1. generation = 0
  BY DEF Restart, SameProcess, IInv, TypeOK
<1>2. cache = Initial /\ pc # "store"
  BY <1>1 DEF IInv, CountersInv, Attempting, TypeOK, Snapshot
<1>3. engine = Project(Initial)
  BY <1>2 DEF IInv, EngineInv, EngineAgreesWithCache
<1> QED
  BY <1>2, <1>3 DEF Restart

(* Known evidence is replaced only whole, by one complete scan (Refresh,   *)
(* publishFailure).                                                        *)
THEOREM EvidenceIntegrity == Spec => EvidenceIsOneCompleteScan
<1>1. ASSUME IInv, [Next]_vars, SameProcess
      PROVE  /\ cache.totalsKnown => cache'.totalsKnown
             /\ cache'.totalsKnown =>
                  \/ cache.totalsKnown /\ EvidenceOf(cache') = EvidenceOf(cache)
                  \/ EvidenceOf(cache') = scanned
  <2>1. CASE UNCHANGED cache
    BY <2>1
  <2>2. CASE PublishToCache /\ cache' # cache
    <3>1. cache' = draft /\ pc \in {"publish", "store"}
      BY <2>2 DEF PublishToCache
    <3>2. failure = NoFailure => draft.totalsKnown /\ EvidenceOf(draft) = scanned
      BY <1>1, <3>1 DEF IInv, DraftInv, Fresh
    <3>3. failure # NoFailure =>
            /\ draft.totalsKnown = cache.totalsKnown
            /\ cache.totalsKnown => EvidenceOf(draft) = EvidenceOf(cache)
      BY <1>1, <3>1 DEF IInv, DraftInv
    <3> QED
      BY <3>1, <3>2, <3>3
  <2>3. CASE Restart
    BY <1>1, <2>3, EarlyRestart, InitialFacts
  <2> QED
    BY <1>1, <2>1, <2>2, <2>3, OnlyPublicationWrites
<1>2. IInv /\ [Next]_vars =>
        [SameProcess =>
           /\ cache.totalsKnown => cache'.totalsKnown
           /\ cache'.totalsKnown =>
                \/ cache.totalsKnown /\ EvidenceOf(cache') = EvidenceOf(cache)
                \/ EvidenceOf(cache') = scanned]_vars
  BY <1>1
<1> QED
  BY <1>2, Invariance, PTL DEF Spec, EvidenceIsOneCompleteScan

(* Within one process every new publication advances the revision, and     *)
(* evidence generations never go back (Engine.Publish).                    *)
THEOREM RevisionOrder == Spec => RevisionsAdvance
<1>1. ASSUME IInv, [Next]_vars, SameProcess
      PROVE  /\ engine' # engine => engine'.revision > engine.revision
             /\ engine'.evidenceGeneration >= engine.evidenceGeneration
  <2>0. engine.evidenceGeneration \in Nat
    BY <1>1 DEF IInv, TypeOK, Publication
  <2>1. CASE UNCHANGED engine
    BY <2>0, <2>1
  <2>2. CASE PublishToEngine /\ engine' # engine
    <3>1. /\ Sidecar /\ pc = "publish" /\ EngineAccepts(draft)
          /\ engine' = Project(draft)
      BY <2>2 DEF PublishToEngine
    <3>2. engine'.revision > engine.revision
      BY <2>2, <3>1 DEF EngineAccepts
    <3>3. engine = Project(cache)
      BY <1>1, <3>1 DEF IInv, EngineInv, EngineAgreesWithCache
    <3>4. /\ cache.totalsKnown => cache.generation < generation
          /\ cache.generation \in Nat /\ generation \in Nat
      BY <1>1, <3>1 DEF IInv, CountersInv, Attempting, TypeOK, Snapshot
    <3>5. /\ engine.evidenceGeneration = IF cache.totalsKnown THEN cache.generation ELSE 0
          /\ engine'.evidenceGeneration = IF draft.totalsKnown THEN draft.generation ELSE 0
      BY <3>1, <3>3 DEF Project
    <3>6. CASE failure = NoFailure
      <4>1. draft.totalsKnown /\ draft.generation = generation
        BY <1>1, <3>1, <3>6 DEF IInv, DraftInv, Fresh
      <4> QED
        BY <3>2, <3>4, <3>5, <4>1
    <3>7. CASE failure # NoFailure
      <4>1. /\ draft.totalsKnown = cache.totalsKnown
            /\ cache.totalsKnown => draft.generation = cache.generation
        BY <1>1, <3>1, <3>7 DEF IInv, DraftInv, EvidenceOf
      <4> QED
        BY <3>2, <3>4, <3>5, <4>1
    <3> QED
      BY <3>6, <3>7
  <2>3. CASE Restart
    BY <1>1, <2>0, <2>3, EarlyRestart
  <2> QED
    BY <1>1, <2>1, <2>2, <2>3, OnlyPublicationWrites
<1>2. IInv /\ [Next]_vars =>
        [SameProcess =>
           /\ engine' # engine => engine'.revision > engine.revision
           /\ engine'.evidenceGeneration >= engine.evidenceGeneration]_vars
  BY <1>1
<1> QED
  BY <1>2, Invariance, PTL DEF Spec, RevisionsAdvance

-----------------------------------------------------------------------------
(* The scanner implements Publications *)

(* The part of Publications' state that engine stands for. *)
Shown ==
  [revision   |-> engine.revision,
   generation |-> engine.evidenceGeneration,
   stale      |-> engine.stale,
   evidence   |-> FindingsOf(engine)]

LEMMA FindingsType ==
  ASSUME NEW s \in Snapshot, s.objectCount <= MaxObjects
  PROVE  FindingsOf(Project(s)) \in Findings
<1>1. /\ s.startedAt \in Zero /\ s.completedAt \in Zero
      /\ s.objectCount \in 0..MaxObjects
      /\ s.catalog \in CatalogFacts /\ s.recovery \in RecoveryFacts
  BY BoundsAssumption DEF Snapshot
<1> QED
  BY <1>1 DEF FindingsOf, Project, Findings, Zero

(* A fresh draft is shown as new evidence under its own generation.        *)
LEMMA ShowsComplete ==
  ASSUME IInv, PublishToEngine, EngineAccepts(draft), engine' # engine,
         failure = NoFailure
  PROVE  Published!PublishComplete
<1>1. /\ pc = "publish" /\ engine' = Project(draft)
      /\ Project(draft).revision > engine.revision
  BY DEF PublishToEngine, EngineAccepts
<1>2. /\ Fresh(draft) /\ draft \in Snapshot /\ draft.objectCount <= MaxObjects
      /\ generation \in 0..MaxGeneration
  BY <1>1, BoundsAssumption
     DEF IInv, DraftInv, BudgetInv, TypeOK, CountersInv
<1>3. FindingsOf(Project(draft)) \in Findings
  BY <1>2, FindingsType
<1>4. /\ engine'.revision = generation
      /\ engine'.evidenceGeneration = generation
      /\ engine'.stale = FALSE
  BY <1>1, <1>2 DEF Fresh, Project
<1>5. generation > engine.revision
  BY <1>1, <1>2 DEF Fresh, Project
<1> QED
  BY <1>1, <1>2, <1>3, <1>4, <1>5 DEF Published!PublishComplete

(* A failure is shown as the same evidence, marked stale.                  *)
LEMMA ShowsFailure ==
  ASSUME IInv, PublishToEngine, EngineAccepts(draft), engine' # engine,
         failure # NoFailure
  PROVE  Published!PublishFailure
<1>1. /\ Sidecar /\ pc = "publish" /\ engine' = Project(draft)
      /\ Project(draft).revision > engine.revision
      /\ Projectable(draft)
  BY DEF PublishToEngine, EngineAccepts
<1>2. /\ engine = Project(cache) /\ Blank(cache)
  BY <1>1 DEF IInv, EngineInv, EngineAgreesWithCache
<1>3. /\ draft.refreshGeneration = generation
      /\ draft.stale
      /\ draft.totalsKnown = cache.totalsKnown
      /\ cache.totalsKnown => EvidenceOf(draft) = EvidenceOf(cache)
      /\ generation \in 0..MaxGeneration
  BY <1>1, BoundsAssumption DEF IInv, DraftInv, TypeOK, CountersInv
<1>4. Blank(draft)
  BY <1>1 DEF Projectable, ValidSnapshot, Blank
<1>5. /\ engine'.evidenceGeneration = engine.evidenceGeneration
      /\ FindingsOf(engine') = FindingsOf(engine)
  <2>1. CASE cache.totalsKnown
    <3>1. /\ draft.generation = cache.generation
          /\ draft.startedAt = cache.startedAt
          /\ draft.completedAt = cache.completedAt
          /\ draft.objectCount = cache.objectCount
          /\ draft.catalog = cache.catalog
          /\ draft.recovery = cache.recovery
      BY <1>3, <2>1 DEF EvidenceOf
    <3> QED
      BY <1>1, <1>2, <1>3, <2>1, <3>1 DEF Project, FindingsOf
  <2>2. CASE ~cache.totalsKnown
    BY <1>1, <1>2, <1>3, <1>4, <2>2 DEF Project, FindingsOf, Blank
  <2> QED
    BY <2>1, <2>2
<1>6. engine'.revision = generation /\ engine'.stale = TRUE
  <2>1. draft.stale = TRUE
    BY <1>3 DEF IInv, TypeOK, Snapshot
  <2> QED
    BY <1>1, <1>3, <2>1 DEF Project
<1>7. generation > engine.revision
  BY <1>1, <1>3 DEF Project
<1> QED
  BY <1>3, <1>5, <1>6, <1>7 DEF Published!PublishFailure

(* What the scanner does with its engine is what Publications allows.      *)
THEOREM ScannerImplementsPublications == Spec => ImplementsPublications
<1>0. /\ Project(Initial).revision = 0
      /\ Project(Initial).evidenceGeneration = 0
      /\ Project(Initial).stale = FALSE
  BY DEF Project, Initial
<1>1. Init => Published!Init
  BY <1>0 DEF Init, Published!Init, Published!Unpublished
<1>2. IInv /\ [Next]_vars => [Published!Next]_Shown
  <2> SUFFICES ASSUME IInv, [Next]_vars
               PROVE  Published!Next \/ UNCHANGED Shown
    BY DEF Shown
  <2>1. CASE UNCHANGED engine
    BY <2>1 DEF Shown
  <2>2. CASE PublishToEngine /\ engine' # engine
    <3>1. EngineAccepts(draft)
      BY <2>2 DEF PublishToEngine
    <3> QED
      BY <2>2, <3>1, ShowsComplete, ShowsFailure DEF Published!Next
  <2>3. CASE Restart
    <3>1. engine' = Project(Initial)
      BY <2>3 DEF Restart
    <3>2. Published!Restart
      BY <1>0, <3>1 DEF Published!Restart, Published!Unpublished
    <3> QED
      BY <3>2 DEF Published!Next
  <2> QED
    BY <2>1, <2>2, <2>3, OnlyPublicationWrites
<1> QED
  BY <1>1, <1>2, Invariance, PTL DEF Spec, ImplementsPublications, Published!Spec, Shown

=============================================================================
