------------------------------ MODULE Scanner ------------------------------
(***************************************************************************)
(* The refresh cycle of internal/inventory: one goroutine probes the       *)
(* store, lists it page by page, analyses what it listed, and publishes    *)
(* one snapshot -- or publishes that the attempt failed.                   *)
(*                                                                         *)
(* Publication goes to the snapshot cache.  In the sidecar runtime it goes *)
(* first to the evidence engine, which projects the snapshot and refuses a *)
(* revision that does not advance, and then to the cache; a reader of the  *)
(* engine may run between the two.                                         *)
(*                                                                         *)
(* The object store is the environment: every List returns an error of     *)
(* some category, or a page with any number of objects and any next        *)
(* cursor.  What the listed objects mean is computed by other modules; in  *)
(* this one an analysis is the set of states it found.  The wall clock may *)
(* step in either direction (timestamps are compared after .UTC(), which   *)
(* drops Go's monotonic reading), the runtime context may be canceled, and *)
(* the process may be killed and restarted, at any moment.                 *)
(***************************************************************************)
EXTENDS Naturals, EvidenceStates

CONSTANTS
  MaxObjects,        \* MAX_OBJECTS_PER_SCAN
  PageSize,          \* objects asked for per List
  PageSlack,         \* pages allowed beyond the number that MaxObjects needs (100)
  Cursors,           \* continuation cursors a provider may return
  NoCursor,          \* the empty cursor: no further page
  Categories,        \* failure categories a provider may report
  CatalogOutcomes,   \* what backup and WAL analysis may find
  RecoveryOutcomes,  \* what timeline and recovery analysis may find
  NoFacts,           \* analysis not run
  Times,             \* wall-clock readings
  Sidecar,           \* TRUE: publish to the evidence engine and to the cache
  AnalyzeBarman,     \* TRUE: the repository format is barman-cloud
  MaxGeneration      \* bound on the refresh attempts of one process

ASSUME BoundsAssumption ==
  /\ MaxObjects \in Nat \ {0}
  /\ PageSize \in Nat \ {0}
  /\ PageSlack \in Nat
  /\ MaxGeneration \in Nat

ASSUME CursorAssumption == NoCursor \notin Cursors

(* The published failure vocabulary leaves fault.Unknown out. *)
FaultUnknown == "unknown"
SafetyLimit  == "safety_limit"
NoFailure    == ""
PublishableFailures ==
  {"canceled", "timeout", "invalid_configuration", "authentication",
   "authorization", "throttled", "unavailable", "not_found",
   "incompatible_format", SafetyLimit}
Failures == PublishableFailures \cup {FaultUnknown}

ASSUME CategoryAssumption == Categories \subseteq Failures

(* What a List may report.  The sidecar's store is confined to one scope:  *)
(* a page that holds a key outside it is refused.                          *)
ListFailures == IF Sidecar THEN Categories \cup {SafetyLimit} ELSE Categories

(* What builder.add refuses an object with: an unusable key or size, a     *)
(* counter that would overflow, too many scopes.  (The name of a matched   *)
(* scope is always valid.)                                                 *)
AddFailures == {SafetyLimit}

(* Whether the rest of a snapshot passes validation.  "invalid": some      *)
(* detail fails inventory.Snapshot.Validate, such as a history file for    *)
(* timeline 1 or a control character in a diagnostic key.  "unprojectable":*)
(* the snapshot is valid but the evidence API cannot represent it.         *)
Forms == {"ok", "invalid", "unprojectable"}

ASSUME OutcomeAssumption ==
  /\ CatalogOutcomes \subseteq [backups : SUBSET State, wal : SUBSET State]
  /\ RecoveryOutcomes \subseteq [timeline  : SUBSET State,
                                 coverage  : SUBSET State,
                                 retention : SUBSET State,
                                 form      : Forms]
  /\ NoFacts \notin CatalogOutcomes \cup RecoveryOutcomes

NoTime == 0

ASSUME TimeAssumption == Times \subseteq Nat \ {NoTime}

Zero == Times \cup {NoTime}

CatalogFacts  == CatalogOutcomes \cup {NoFacts}
RecoveryFacts == RecoveryOutcomes \cup {NoFacts}

-----------------------------------------------------------------------------
(* Snapshots *)

Snapshot ==
  [generation        : Nat,
   startedAt         : Zero,
   completedAt       : Zero,
   completeness      : Completeness,
   stale             : BOOLEAN,
   state             : State,
   capabilities      : [CapabilityID -> Capability],
   refreshGeneration : Nat,
   lastRefreshAt     : Zero,
   lastAttemptAt     : Zero,
   refreshFailure    : Failures \cup {NoFailure},
   totalsKnown       : BOOLEAN,
   objectCount       : Nat,
   catalog           : CatalogFacts,
   recovery          : RecoveryFacts]

(* Set the listed capabilities to supported, in one state. *)
WithCapabilities(capabilities, ids, state) ==
  [id \in CapabilityID |->
     IF id \in ids THEN [support |-> Supported, state |-> state]
                   ELSE capabilities[id]]

UnscannedCapabilities ==
  [id \in CapabilityID |-> [support |-> SupportUnknown, state |-> Unknown]]

(* Before any scan: the listing capability is implemented, nothing is known. *)
Initial ==
  [generation        |-> 0,
   startedAt         |-> NoTime,
   completedAt       |-> NoTime,
   completeness      |-> Unscanned,
   stale             |-> FALSE,
   state             |-> Unknown,
   capabilities      |-> WithCapabilities(UnscannedCapabilities, {"inventory"}, Unknown),
   refreshGeneration |-> 0,
   lastRefreshAt     |-> NoTime,
   lastAttemptAt     |-> NoTime,
   refreshFailure    |-> NoFailure,
   totalsKnown       |-> FALSE,
   objectCount       |-> 0,
   catalog           |-> NoFacts,
   recovery          |-> NoFacts]

(* builder.complete: a drained listing, its meaning not evaluated yet. *)
CompleteListing(generation, started, completed, objects) ==
  [generation        |-> generation,
   startedAt         |-> started,
   completedAt       |-> completed,
   completeness      |-> Complete,
   stale             |-> FALSE,
   state             |-> Unknown,
   capabilities      |-> WithCapabilities(UnscannedCapabilities, {"inventory"}, Healthy),
   refreshGeneration |-> generation,
   lastRefreshAt     |-> completed,
   lastAttemptAt     |-> started,
   refreshFailure    |-> NoFailure,
   totalsKnown       |-> TRUE,
   objectCount       |-> objects,
   catalog           |-> NoFacts,
   recovery          |-> NoFacts]

(* The catalog verdict replaces the listing's "not evaluated"; the WAL     *)
(* verdict can only make it worse.                                         *)
ApplyCatalog(snapshot, facts) ==
  LET backups == Rollup(facts.backups)
      wal     == Rollup(facts.wal)
  IN  [snapshot EXCEPT
         !.catalog = facts,
         !.state = conservativeState(backups, wal),
         !.capabilities =
            WithCapabilities(
              WithCapabilities(@, {"catalog", "structural"}, backups),
              {"wal"}, wal)]

(* Mutant: the recovery verdict replaces the overall state.                *)
ApplyRecoveryReplaces(snapshot, facts) ==
  LET timeline  == Rollup(facts.timeline)
      coverage  == Rollup(facts.coverage)
      retention == Rollup(facts.retention)
  IN  [snapshot EXCEPT
         !.recovery = facts,
         !.state = conservativeState(timeline, conservativeState(coverage, retention)),
         !.capabilities =
            WithCapabilities(
              WithCapabilities(
                WithCapabilities(@, {"timeline"}, timeline),
                {"coverage"}, coverage),
              {"retention"}, retention)]

ApplyRecovery(snapshot, facts) ==
  LET timeline  == Rollup(facts.timeline)
      coverage  == Rollup(facts.coverage)
      retention == Rollup(facts.retention)
  IN  [snapshot EXCEPT
         !.recovery = facts,
         !.state = conservativeState(@,
                     conservativeState(timeline,
                       conservativeState(coverage, retention))),
         !.capabilities =
            WithCapabilities(
              WithCapabilities(
                WithCapabilities(@, {"timeline"}, timeline),
                {"coverage"}, coverage),
              {"retention"}, retention)]

(* Mutant: the reason for the failure is not recorded.                     *)
RetainedWithoutReason(previous, generation, started, now, category) ==
  [previous EXCEPT
     !.refreshGeneration = generation,
     !.lastRefreshAt     = now,
     !.lastAttemptAt     = started,
     !.stale             = TRUE,
     !.state             = Unknown,
     !.capabilities      =
        [id \in CapabilityID |-> [@[id] EXCEPT !.state = Unknown]]]

(* Mutant: the retained evidence takes the failed attempt's generation.    *)
RetainedAsNew(previous, generation, started, now, category) ==
  [previous EXCEPT
     !.generation        = generation,
     !.refreshGeneration = generation,
     !.lastRefreshAt     = now,
     !.lastAttemptAt     = started,
     !.refreshFailure    = category,
     !.stale             = TRUE,
     !.state             = Unknown,
     !.capabilities      =
        [id \in CapabilityID |-> [@[id] EXCEPT !.state = Unknown]]]

(* publishFailure: keep the last complete evidence and mark it stale, or,  *)
(* with none to keep, publish an incomplete snapshot without totals.       *)
RetainedAsStale(previous, generation, started, now, category) ==
  [previous EXCEPT
     !.refreshGeneration = generation,
     !.lastRefreshAt     = now,
     !.lastAttemptAt     = started,
     !.refreshFailure    = category,
     !.stale             = TRUE,
     !.state             = Unknown,
     !.capabilities      =
        [id \in CapabilityID |->
           IF @[id].support = Supported THEN [@[id] EXCEPT !.state = Unknown]
                                        ELSE @[id]]]

FirstFailure(generation, started, now, category) ==
  [Initial EXCEPT
     !.generation        = generation,
     !.startedAt         = started,
     !.completeness      = Incomplete,
     !.stale             = TRUE,
     !.refreshGeneration = generation,
     !.lastRefreshAt     = now,
     !.lastAttemptAt     = started,
     !.refreshFailure    = category]

FailureSnapshot(previous, generation, started, now, category) ==
  IF previous.totalsKnown
  THEN RetainedAsStale(previous, generation, started, now, category)
  ELSE FirstFailure(generation, started, now, category)

-----------------------------------------------------------------------------
(* Validation *)

(* evidence.Snapshot.Validate. *)
ValidEnvelope(s) ==
  /\ s.completeness # Complete => s.state # Healthy
  /\ s.completeness = Unscanned => s.state = Unknown
  /\ \A id \in CapabilityID :
       s.capabilities[id].support # Supported => s.capabilities[id].state = Unknown

Form(s) == IF s.recovery \in RecoveryOutcomes THEN s.recovery.form ELSE "ok"

(* inventory.Snapshot.Validate. *)
ValidSnapshot(s) ==
  /\ ValidEnvelope(s)
  /\ Form(s) # "invalid"
  /\ s.refreshFailure \in PublishableFailures \cup {NoFailure}
  /\ \/ s.lastAttemptAt = NoTime
     \/ s.lastRefreshAt = NoTime
     \/ s.lastRefreshAt >= s.lastAttemptAt
  /\ s.totalsKnown => s.completeness = Complete
  /\ ~s.totalsKnown => s.objectCount = 0

(* evidenceapi.Project: the published form of a snapshot. *)
Project(s) ==
  [revision           |-> s.refreshGeneration,
   evidenceGeneration |-> IF s.totalsKnown THEN s.generation ELSE 0,
   startedAt          |-> IF s.totalsKnown THEN s.startedAt ELSE NoTime,
   completedAt        |-> IF s.totalsKnown THEN s.completedAt ELSE NoTime,
   lastAttemptAt      |-> s.lastAttemptAt,
   completeness       |-> s.completeness,
   stale              |-> s.stale \/ s.refreshFailure # NoFailure,
   state              |-> s.state,
   capabilities       |-> s.capabilities,
   lastFailure        |-> s.refreshFailure,
   objectCount        |-> s.objectCount,
   catalog            |-> s.catalog,
   recovery           |-> s.recovery]

(* RepositoryEvidenceSnapshot.Validate. *)
ValidPublication(p) ==
  /\ p.evidenceGeneration <= p.revision
  /\ p.completeness # Complete => p.state # Healthy
  /\ p.stale =>
       /\ p.state = Unknown
       /\ \A id \in CapabilityID :
            p.capabilities[id].support = Supported
              => p.capabilities[id].state = Unknown
  /\ p.evidenceGeneration = 0 =>
       /\ p.completeness \in {Unscanned, Incomplete}
       /\ p.state = Unknown
  /\ p.evidenceGeneration # 0 =>
       /\ p.completeness = Complete
       /\ p.startedAt # NoTime
       /\ p.completedAt >= p.startedAt
  /\ p.lastFailure # NoFailure => p.stale /\ p.state = Unknown

Publication ==
  [revision           : Nat,
   evidenceGeneration : Nat,
   startedAt          : Zero,
   completedAt        : Zero,
   lastAttemptAt      : Zero,
   completeness       : Completeness,
   stale              : BOOLEAN,
   state              : State,
   capabilities       : [CapabilityID -> Capability],
   lastFailure        : Failures \cup {NoFailure},
   objectCount        : Nat,
   catalog            : CatalogFacts,
   recovery           : RecoveryFacts]

Projectable(s) ==
  /\ ValidSnapshot(s)
  /\ Form(s) # "unprojectable"
  /\ ~s.totalsKnown => s.catalog = NoFacts /\ s.recovery = NoFacts
  /\ ValidPublication(Project(s))

-----------------------------------------------------------------------------
(* State *)

VARIABLES
  pc,           \* where the scanner goroutine is
  canceled,     \* the runtime context is canceled
  generation,   \* refresh attempts begun by this process
  started,      \* clock reading at the start of the attempt
  cursor, page, objectCount,   \* the scan loop
  failure,      \* category of the scan's error
  draft,        \* the snapshot being built or published
  cache,        \* the published inventory snapshot
  engine,       \* the published projection (sidecar)
  readiness,    \* the last probe: reachable, or its failure category
  clock         \* wall clock

(* What earlier steps did, kept for the properties only. *)
VARIABLES
  scanned,      \* what this attempt's scan found, once complete under a live context
  outcome       \* how the last attempt ended

scan    == <<cursor, page, objectCount>>
history == <<scanned, outcome>>
vars    == <<pc, canceled, generation, started, cursor, page, objectCount, failure,
             draft, cache, engine, readiness, clock, scanned, outcome>>

Reachable == "reachable"

(* The part of a snapshot that a failed refresh must carry over unchanged. *)
Evidence ==
  [generation  : Nat,
   startedAt   : Zero,
   completedAt : Zero,
   objectCount : Nat,
   catalog     : CatalogFacts,
   recovery    : RecoveryFacts]

EvidenceOf(s) ==
  [generation  |-> s.generation,
   startedAt   |-> s.startedAt,
   completedAt |-> s.completedAt,
   objectCount |-> s.objectCount,
   catalog     |-> s.catalog,
   recovery    |-> s.recovery]

MaxPages == (MaxObjects + PageSize - 1) \div PageSize + PageSlack
Remaining == MaxObjects - objectCount
(* Mutant: every List asks for a full page.                                *)
FullPage == PageSize
Limit == IF PageSize <= Remaining THEN PageSize ELSE Remaining

PC == {"idle", "refresh", "list", "await", "catalog", "recovery",
       "failed", "publish", "store", "stopped"}

TypeOK ==
  /\ pc \in PC
  /\ canceled \in BOOLEAN
  /\ generation \in Nat
  /\ started \in Zero
  /\ cursor \in Cursors \cup {NoCursor}
  /\ page \in Nat
  /\ objectCount \in Nat
  /\ failure \in Failures \cup {NoFailure}
  /\ pc = "failed" => failure # NoFailure
  /\ draft \in Snapshot
  /\ cache \in Snapshot
  /\ engine \in Publication
  /\ readiness \in Failures \cup {Reachable}
  /\ clock \in Times
  /\ scanned \in Evidence \cup {NoFacts}
  /\ outcome \in {"none", "published", "failed", "canceled"}

Init ==
  /\ pc = "idle"
  /\ canceled = FALSE
  /\ generation = 0
  /\ started = NoTime
  /\ cursor = NoCursor
  /\ page = 0
  /\ objectCount = 0
  /\ failure = NoFailure
  /\ draft = Initial
  /\ cache = Initial
  /\ engine = Project(Initial)
  /\ readiness = "unavailable"
  /\ clock \in Times
  /\ scanned = NoFacts
  /\ outcome = "none"

-----------------------------------------------------------------------------
(* Steps of the scanner goroutine *)

(* runCycle begins with a one-object List.  Under a canceled context the   *)
(* ticker may still win the select, and the probe then reports canceled.   *)
Probe ==
  /\ pc = "idle"
  /\ generation < MaxGeneration
  /\ pc' = "refresh"
  /\ readiness' \in (IF canceled THEN {"canceled"} ELSE {Reachable} \cup ListFailures)
  /\ UNCHANGED <<canceled, generation, started, scan, failure, draft, cache,
                 engine, clock, history>>

(* Mutant: Run looks at the context only after a refresh that published.   *)
StopAfterSuccess ==
  /\ pc = "idle"
  /\ canceled
  /\ outcome = "published"
  /\ pc' = "stopped"
  /\ UNCHANGED <<canceled, generation, started, scan, failure, draft, cache,
                 engine, readiness, clock, history>>

(* Run returns when the context is done, but not before its first cycle. *)
Stop ==
  /\ pc = "idle"
  /\ generation > 0
  /\ canceled
  /\ pc' = "stopped"
  /\ UNCHANGED <<canceled, generation, started, scan, failure, draft, cache,
                 engine, readiness, clock, history>>

(* Refresh takes the next generation, even if the attempt then fails.  The *)
(* errors of NewScopeMatcher and newBuilder (scanner.go:162-170) are left  *)
(* out: parseNames (config.go:676) lets through only valid, distinct names *)
(* and no more than MaxScopes, so that neither can occur.                  *)
BeginRefresh ==
  /\ pc = "refresh"
  /\ pc' = "list"
  /\ generation' = generation + 1
  /\ started' = clock
  /\ cursor' = NoCursor
  /\ page' = 0
  /\ objectCount' = 0
  /\ scanned' = NoFacts
  /\ UNCHANGED <<canceled, failure, draft, cache, engine, readiness, clock, outcome>>

(* The locals of scan and Refresh end with the call. *)
DropScan ==
  /\ cursor' = NoCursor
  /\ page' = 0
  /\ objectCount' = 0
  /\ draft' = Initial

(* Mutant: the category is lost.                                           *)
FailSilently(category) ==
  /\ pc' = "failed"
  /\ DropScan
  /\ UNCHANGED <<failure, started, outcome>>

(* The scan returns an error of this category. *)
Fail(category) ==
  /\ pc' = "failed"
  /\ failure' = category
  /\ DropScan
  /\ UNCHANGED <<started, outcome>>

(* The scan returns context.Canceled: Refresh publishes nothing. *)
Abandon ==
  /\ pc' = "idle"
  /\ outcome' = "canceled"
  /\ started' = NoTime
  /\ DropScan
  /\ UNCHANGED failure

(* Top of the page loop: the checks made before a List. *)
RequestPage ==
  /\ pc = "list"
  /\ \/ canceled /\ Abandon
     \/ ~canceled /\ (page >= MaxPages \/ Remaining <= 0) /\ Fail(SafetyLimit)
     \/ /\ ~canceled /\ page < MaxPages /\ Remaining > 0
        /\ pc' = "await"
        /\ UNCHANGED <<started, scan, failure, draft, outcome>>
  /\ UNCHANGED <<canceled, generation, cache, engine, readiness, clock, scanned>>

ListCanceled ==
  /\ pc = "await"
  /\ canceled
  /\ Abandon
  /\ UNCHANGED <<canceled, generation, cache, engine, readiness, clock, scanned>>

(* The List fails, or the page is oversized, or builder.add refuses one of *)
(* its objects.                                                            *)
ListFailed ==
  /\ pc = "await"
  /\ \E category \in ListFailures \cup AddFailures : Fail(category)
  /\ UNCHANGED <<canceled, generation, cache, engine, readiness, clock, scanned>>

(* Mutant: pages are not counted.                                          *)
ReceivePageUncounted ==
  /\ pc = "await"
  /\ \E n \in 0..Limit, next \in Cursors :
       \/ /\ objectCount + n >= MaxObjects \/ next = cursor
          /\ Fail(SafetyLimit)
       \/ /\ objectCount + n < MaxObjects /\ next # cursor
          /\ pc' = "list"
          /\ cursor' = next
          /\ objectCount' = objectCount + n
          /\ UNCHANGED <<page, started, failure, draft, outcome>>
  /\ UNCHANGED <<canceled, generation, cache, engine, readiness, clock, scanned>>

(* A page of n objects that does not end the listing. *)
ReceivePage ==
  /\ pc = "await"
  /\ \E n \in 0..Limit, next \in Cursors :
       \/ /\ objectCount + n >= MaxObjects \/ next = cursor
          /\ Fail(SafetyLimit)
       \/ /\ objectCount + n < MaxObjects /\ next # cursor
          /\ pc' = "list"
          /\ cursor' = next
          /\ page' = page + 1
          /\ objectCount' = objectCount + n
          /\ UNCHANGED <<started, failure, draft, outcome>>
  /\ UNCHANGED <<canceled, generation, cache, engine, readiness, clock, scanned>>

(* The last page: the listing is complete.  Only barman-cloud evidence is  *)
(* analysed further.                                                       *)
ReceiveLastPage ==
  /\ pc = "await"
  /\ \E n \in 0..Limit :
       /\ objectCount' = objectCount + n
       /\ draft' = CompleteListing(generation, started, clock, objectCount + n)
  /\ page' = page + 1
  /\ pc' = IF AnalyzeBarman THEN "catalog" ELSE "publish"
  /\ scanned' = IF AnalyzeBarman THEN NoFacts ELSE EvidenceOf(draft')
  /\ UNCHANGED <<canceled, generation, started, cursor, failure, cache, engine,
                 readiness, clock, outcome>>

(* Reading the backup metadata, then WAL continuity.  Reads made under a   *)
(* canceled context fail, and the check after them abandons the attempt.   *)
AnalyzeCatalog ==
  /\ pc = "catalog"
  /\ \/ canceled /\ Abandon
     \/ /\ ~canceled
        /\ \E facts \in CatalogOutcomes : draft' = ApplyCatalog(draft, facts)
        /\ pc' = "recovery"
        /\ UNCHANGED <<started, scan, failure, outcome>>
  /\ UNCHANGED <<canceled, generation, cache, engine, readiness, clock, scanned>>

(* Mutant: no look at the context after the recovery analysis.             *)
AnalyzeRecoveryUnchecked ==
  /\ pc = "recovery"
  /\ \E facts \in RecoveryOutcomes : draft' = ApplyRecovery(draft, facts)
  /\ pc' = "publish"
  /\ scanned' = IF canceled THEN scanned ELSE EvidenceOf(draft')
  /\ UNCHANGED <<canceled, generation, started, scan, failure, outcome, cache,
                 engine, readiness, clock>>

(* Reading the timeline histories, then recovery coverage. *)
AnalyzeRecovery ==
  /\ pc = "recovery"
  /\ \/ canceled /\ Abandon
     \/ /\ ~canceled
        /\ \E facts \in RecoveryOutcomes : draft' = ApplyRecovery(draft, facts)
        /\ pc' = "publish"
        /\ UNCHANGED <<started, scan, failure, outcome>>
  /\ scanned' = IF canceled THEN scanned ELSE EvidenceOf(draft')
  /\ UNCHANGED <<canceled, generation, cache, engine, readiness, clock>>

(* publishFailure builds its snapshot from the cached one. *)
PrepareFailure ==
  /\ pc = "failed"
  /\ draft' = FailureSnapshot(cache, generation, started, clock, failure)
  /\ pc' = "publish"
  /\ UNCHANGED <<canceled, generation, started, scan, failure, cache, engine,
                 readiness, clock, history>>

(* Mutant: a refusal is not reported.                                      *)
ReturnSuccess(ok) ==
  /\ pc' = "idle"
  /\ failure' = NoFailure
  /\ started' = NoTime
  /\ DropScan
  /\ outcome' = IF failure = NoFailure THEN "published" ELSE "failed"

(* Refresh returns: an attempt that failed to scan or whose snapshot was   *)
(* refused has failed.                                                     *)
Return(ok) ==
  /\ pc' = "idle"
  /\ failure' = NoFailure
  /\ started' = NoTime
  /\ DropScan
  /\ outcome' = IF ok /\ failure = NoFailure THEN "published" ELSE "failed"

(* Mutant: the engine takes any revision that advances.                    *)
EngineAcceptsUnchecked(s) ==
  \/ Project(s).revision > engine.revision
  \/ Project(s) = engine

(* Engine.Publish: refuse what cannot be projected, and any revision that  *)
(* does not advance unless it repeats the current publication.             *)
EngineAccepts(s) ==
  /\ Projectable(s)
  /\ \/ Project(s).revision > engine.revision
     \/ Project(s) = engine

PublishToEngine ==
  /\ Sidecar
  /\ pc = "publish"
  /\ IF EngineAccepts(draft)
     THEN /\ engine' = Project(draft)
          /\ pc' = "store"
          /\ UNCHANGED <<started, scan, failure, draft, outcome>>
     ELSE /\ Return(FALSE)
          /\ UNCHANGED engine
  /\ UNCHANGED <<canceled, generation, cache, readiness, clock, scanned>>

(* Cache.Publish. *)
PublishToCache ==
  /\ pc = IF Sidecar THEN "store" ELSE "publish"
  /\ cache' = IF ValidSnapshot(draft) THEN draft ELSE cache
  /\ Return(ValidSnapshot(draft))
  /\ UNCHANGED <<canceled, generation, engine, readiness, clock, scanned>>

-----------------------------------------------------------------------------
(* The environment *)

(* SIGTERM, or the server returning: the runtime context is canceled. *)
Cancel ==
  /\ ~canceled
  /\ canceled' = TRUE
  /\ UNCHANGED <<pc, generation, started, scan, failure, draft, cache, engine,
                 readiness, clock, history>>

ClockStep ==
  /\ \E now \in Times \ {clock} : clock' = now
  /\ UNCHANGED <<pc, canceled, generation, started, scan, failure, draft, cache,
                 engine, readiness, history>>

(* The process dies and a new one starts: nothing is persisted. *)
Restart ==
  /\ pc' = "idle"
  /\ canceled' = FALSE
  /\ generation' = 0
  /\ started' = NoTime
  /\ cursor' = NoCursor
  /\ page' = 0
  /\ objectCount' = 0
  /\ failure' = NoFailure
  /\ draft' = Initial
  /\ cache' = Initial
  /\ engine' = Project(Initial)
  /\ readiness' = "unavailable"
  /\ scanned' = NoFacts
  /\ outcome' = "none"
  /\ UNCHANGED clock

RefreshStep ==
  \/ BeginRefresh
  \/ RequestPage
  \/ ListCanceled
  \/ ListFailed
  \/ ReceivePage
  \/ ReceiveLastPage
  \/ AnalyzeCatalog
  \/ AnalyzeRecovery
  \/ PrepareFailure
  \/ PublishToEngine
  \/ PublishToCache

Next ==
  \/ Probe
  \/ Stop
  \/ RefreshStep
  \/ Cancel
  \/ ClockStep
  \/ Restart

Spec == Init /\ [][Next]_vars

(* The goroutine keeps running, its ticker keeps ticking, and every        *)
(* provider call returns, because each is made under a request timeout.    *)
(* Run's select chooses between a done context and a tick at random, so it *)
(* cannot prefer the tick forever.                                         *)
FairSpec == Spec /\ WF_vars(Probe \/ RefreshStep) /\ SF_vars(Stop)

-----------------------------------------------------------------------------
(* Properties *)

Known(capabilities) == {id \in CapabilityID : capabilities[id].support = Supported}

(* publishFailure: whatever a failed refresh leaves visible, in the cache  *)
(* or in the evidence API, is stale and claims nothing; and evidence is    *)
(* stale for no other reason.                                              *)
FailureClaimsNothing ==
  /\ cache.stale <=> cache.refreshFailure # NoFailure
  /\ cache.stale =>
       /\ cache.state = Unknown
       /\ \A id \in Known(cache.capabilities) : cache.capabilities[id].state = Unknown
  /\ engine.lastFailure # NoFailure =>
       /\ engine.state = Unknown
       /\ \A id \in Known(engine.capabilities) : engine.capabilities[id].state = Unknown

(* evidencePublishingCache: the engine is ahead of the cache only between  *)
(* the two publications, and what the engine accepted the cache accepts.   *)
EngineAgreesWithCache ==
  Sidecar => engine = Project(IF pc = "store" THEN draft ELSE cache)

(* Refresh: an attempt reported as successful is what readers now see.     *)
SuccessIsVisible ==
  pc = "idle" /\ outcome = "published" =>
    /\ cache.refreshGeneration = generation
    /\ cache.generation = generation
    /\ ~cache.stale

(* applyBarmanEvidence and its companions: for fresh barman evidence the   *)
(* overall state is the worst of the capabilities evaluated, never better. *)
StateIsWorstCapability ==
  AnalyzeBarman /\ cache.totalsKnown /\ ~cache.stale =>
    cache.state = Rollup({cache.capabilities[id].state :
                            id \in Known(cache.capabilities) \ {"inventory"}})

(* scan: the limit of each List leaves room for no object beyond the       *)
(* configured maximum, so neither a running count nor a published total    *)
(* passes it.                                                              *)
WithinObjectBudget ==
  /\ objectCount <= MaxObjects
  /\ cache.objectCount <= MaxObjects

SameProcess == generation' >= generation

(* Refresh: known evidence is never lost and never edited.  It is replaced *)
(* only whole, by what one complete scan of the current attempt found; no  *)
(* partial, abandoned or failed scan leaks into it.                        *)
EvidenceIsOneCompleteScan ==
  [][SameProcess =>
       /\ cache.totalsKnown => cache'.totalsKnown
       /\ cache'.totalsKnown =>
            \/ cache.totalsKnown /\ EvidenceOf(cache') = EvidenceOf(cache)
            \/ EvidenceOf(cache') = scanned]_vars

(* Engine.Publish: every new publication advances the revision, so that    *)
(* within one process a revision names one publication; and the evidence   *)
(* generation never goes back.                                             *)
RevisionsAdvance ==
  [][SameProcess =>
       /\ engine' # engine => engine'.revision > engine.revision
       /\ engine'.evidenceGeneration >= engine.evidenceGeneration]_vars

(* What the publications carry, as readers of the evidence API see it. *)
Findings ==
  [startedAt   : Zero,
   completedAt : Zero,
   objectCount : 0..MaxObjects,
   catalog     : CatalogFacts,
   recovery    : RecoveryFacts]

FindingsOf(publication) ==
  [startedAt   |-> publication.startedAt,
   completedAt |-> publication.completedAt,
   objectCount |-> publication.objectCount,
   catalog     |-> publication.catalog,
   recovery    |-> publication.recovery]

Published == INSTANCE Publications WITH
  Revisions  <- 0..MaxGeneration,
  Evidences  <- Findings,
  NoEvidence <- FindingsOf(Project(Initial)),
  current    <- [revision   |-> engine.revision,
                 generation |-> engine.evidenceGeneration,
                 stale      |-> engine.stale,
                 evidence   |-> FindingsOf(engine)]

(* The scanner, its clock, its failures and its provider together show a   *)
(* reader nothing but the three changes of Publications.                   *)
ImplementsPublications == Published!Spec

(* The page budget: whatever cursors the provider returns, every attempt   *)
(* ends.                                                                   *)
RefreshTerminates == pc = "list" ~> pc \in {"idle", "stopped"}

(* Run: after cancellation the scanner goroutine ends.                     *)
ShutdownEnds == canceled ~> (pc = "stopped" \/ ~canceled)

(* "A failed refresh never replaces good evidence. The last complete       *)
(* snapshot is retained and marked stale."                                 *)
(* web/docs/architecture/scanning.md:53-54                                 *)
FailedAttemptMarksStale ==
  pc = "idle" /\ outcome = "failed" /\ cache.totalsKnown => cache.stale

=============================================================================
