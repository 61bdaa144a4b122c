# ObjectStoreViewer in TLA+

ObjectStoreViewer scans an object-store repository of PostgreSQL backups and
publishes what the listing proves: an inventory, a backup catalog, WAL
continuity, timeline ancestry, recovery coverage. The program reads the store
and writes nothing. What can go wrong in it is *claiming too much*: calling
partial, stale or mixed-up evidence complete and healthy. These modules state
what it may claim, model how it comes to its claims, and check the two against
each other.

## 1. The system

### Components

| Component (source) | State it keeps | Operations | Hard part |
|---|---|---|---|
| Scanner (`internal/inventory/scanner.go`) | generation counter; the locals of one scan | `Run`, `probe`, `Refresh`, `scan`, `publishFailure`, verdict roll-up | failures, cancellation and refusals at any step |
| Snapshot cache (`internal/inventory/inventory.go`) | the published snapshot | `Load`, `Publish` with validation | refusing leaves the old snapshot |
| Two-step publication, runtime (`internal/application/application.go`) | the runtime context | engine first, then cache; cancel; wait for the worker | the two publications are not one step |
| Evidence engine (`internal/evidenceapi/engine.go`) | the current publication, the cursor key of the process | `Publish`, `Snapshot`, four paginated collections | readers paginate across refreshes and restarts |
| Projection and API types (`projection.go`, `api/evidence/v1alpha1/types.go`) | none | `Project`, `Validate` | cross-field rules that can refuse a snapshot |
| WAL continuity (`internal/formats/barmancloud/wal.go`) | the collector of a scan; the gaps of the last catalog | `Add`, `Finish`, `Validate` | pagination races, limits, position arithmetic, gap lifecycle |
| Timelines and recovery (`recovery.go`) | the edges known so far | `analyzeHistories`, `ParseHistory`, `AnalyzeRecovery` | contradictory histories, walks over gaps, limits |
| Backup catalog (`catalog.go`) | none | `Analyze` | listing, reading and looking up a directory that changes meanwhile |
| API handler (`handler.go`) | request slots | `ServeHTTP` | slots on every path, deadline against late result |
| Private socket (`unix.go`) | a path in the file system | `listenUnixAt`, serve, shutdown | what a killed process leaves behind |
| Object store adapters (`internal/provider/{s3,azure,gcs}`, `internal/store`) | none | `List`, `Open`, `Stat`, confinement to a prefix | a store that changes, and answers that are wrong, between two pages |
| Configuration and start (`internal/config`, `application.New`, `main`) | the environment, read once | `Load`, the constructors | two layers check the same values with bounds of their own |
| Readiness (`internal/readiness`) | last probe | `Mark*`, `Result` | expires by age while a long scan runs |
| WAL page (`internal/web/wal.go`) | none | `wals`, filters, page links | links outlive the snapshot they were made from |
| Other web pages, redaction, probe command, format registry, artifact generator | none that matters | rendering, matching, I/O | -- |

### How they interact

One goroutine runs the scanner. It probes the store, then lists it page by
page through a `store.Reader`; each matched object goes to the builder, and in
a barman-cloud repository to the WAL collector. When the listing is drained it
reads metadata objects and folds the verdicts of the catalog, the WAL archive,
the timelines, the coverage and the retention into one state. The snapshot is
then published: in the standalone runtime to the cache, which the web pages
read; in the sidecar runtime first to the evidence engine, whose readers are
HTTP clients on a private socket, and only then to the cache. When a scan
fails, the scanner loads the cached snapshot, marks it stale and publishes that.
The next scan reads the cached WAL catalog to decide which gaps are confirmed.
Nothing is persisted but the socket in the file system: a restart forgets the
cache, the generation counter and the cursor key.

### What makes them correct

* **Scanner and cache.** Evidence is replaced only whole, by one complete scan;
  a failed, partial or abandoned one may only mark it stale, and stale evidence
  claims no state. The overall state is the worst of the verdicts. An attempt
  reported as successful is visible. Every attempt ends; so does the goroutine.
* **Publication.** Engine and cache never disagree for longer than the gap
  between the two calls. Revisions only advance.
* **Engine.** A collection read page by page is all of one publication's
  collection or is not delivered; an orderly reader is never told that its
  request is invalid.
* **WAL continuity.** A verdict other than unknown is exact about what was
  listed. A gap is confirmed by the same hole in the next complete scan and by
  nothing else. A catalog that was built can be published, unless it tells of a key
  with a control character.
* **Timelines.** Histories that are called valid agree with each other and with
  the archive, in whatever order they were read; a healthy ancestry explains
  every timeline there is.
* **Recovery.** A path covers what is proven, and all of it: it stops at the
  first position that is not archived, and crosses a timeline only at a proven
  switchpoint.
* **Backup catalog.** A backup is healthy only if it was whole; when nothing
  disturbs the analysis its verdict is the documented classification, whatever
  an earlier race had it say.
* **Handler and socket.** Busy means that all slots are really taken. An answer
  is current, a failure has its reason, every request ends, so does the service
  when told to; a process takes over the socket a killed one left, and nothing
  else.
* **Object store.** A listing that ends without an error is whole, whatever was
  written meanwhile and whatever the service answered.
* **Configuration.** What `Load` accepts the constructors accept, but for named
  exceptions; a setting that is accepted takes effect, and one that is foreign to
  the provider, the format or the mode is refused, but for named exceptions.
* **Readiness.** A good probe lasts until the next one had its chance; an outage
  that lasts is noticed even when the scanner is stuck; readiness comes back.
* **WAL page.** The pages of one snapshot, followed from the first to the last,
  are the rows asked for; a link leads to the neighbouring page or is refused
  for a reason the reader can understand.

The hazards, each with its line and the properties that watch it, are listed in
`PROJECT.json`.

## 2. Modules

| Module | Models | State, actions and code |
|---|---|---|
| `EvidenceStates` | the four-state vocabulary and its roll-up | `conservativeState`; `Rollup` is its fold over servers |
| `ArchiveCatalog` | *abstract*: what the recovery analysis may rely on of a WAL catalog | no state; assumed in `TimelineAncestry`, shown of `WALContinuity` |
| `Publications` | *abstract*: what a reader of the API may rely on | the current publication; complete refresh, failed refresh, restart |
| `Scanner` | scanner, cache, two-step publication, validation | one action per point at which the goroutine can be overtaken |
| `EvidenceEngine` | the engine and its readers | composes `Publications` (as `Feed`) with the pagination code |
| `EvidenceService` | handler, private socket, server, runtime | one request per client, the slots, the path, the process |
| `WALContinuity` | collector, ranges, gaps, verdict of one Barman server | one action per listed object, one for `Finish` |
| `TimelineAncestry` | `analyzeHistories` of one server | one action per way a history object is judged |
| `RecoveryCoverage` | `AnalyzeRecovery` of one server; extends `TimelineAncestry` | one action per backup, then the limit, roll-up, retention; `Validate` |
| `BackupCatalog` | `Analyze` of one backup directory | list, read and look up, against a backup job and retention |
| `ObjectStore` | the three adapters, the confined reader, and a service that is external | one action per call; writes and deletes in between |
| `Configuration` | `config.Load` as a table of checks | no state; used by `Startup` |
| `Readiness` | probe state, its age limit, the scanner's ticker | the cycle of the worker, and time |
| `Startup` | `main`, `application.New`; composes the two above | load, build, listen, serve |
| `WALBrowser` | the WAL page and a reader who follows its links | submit, next, previous, against publications |
| `ScannerProofs`, `RecoveryProofs`, `ServiceProofs`, `EngineProofs`, `StoreProofs`, `BackupProofs`, `StartupProofs`, `WALProofs` | theorems about `Scanner`, `RecoveryCoverage` with `TimelineAncestry`, `EvidenceService`, `EvidenceEngine`, `ObjectStore`, `BackupCatalog`, `Startup` with `Readiness` and `Configuration`, `WALContinuity` and `WALBrowser` | section 4 |
| `MC*` | instances for TLC | |

**Scanner.** `pc` follows the goroutine: `idle` (in `Run`'s select), `refresh`
(probed), `list` (top of the page loop), `await` (in `List`), `catalog` and
`recovery` (reading metadata), `failed` (`publishFailure` entered), `publish`,
`store` (engine done, cache not yet), `stopped`. The probe, the engine's
publication and the cache's are steps of their own because a reader, a
cancellation or the clock can come between them. `draft` is the snapshot under
construction, `cache` and `engine` are what readers see, `canceled` is the
runtime context. `scanned` and `outcome` only remember earlier steps for the
properties. A provider's answer, the facts found by an analysis, and the clock
are chosen by the environment; a verdict is the set of states found, because
`conservativeState` folded over servers depends on nothing else. A listing can
fail as the provider may, or, in the sidecar, because an object lies outside
the configured scope (`ListFailures`); the analysis of what was listed fails
only at its limits (`AddFailures`). A snapshot `form` says whether details that
are not modelled pass validation: both "the cache refuses it" and "the engine
cannot represent it" occur in the code.

**EvidenceEngine** makes a request one step, because the code loads the
publication pointer once and answers from it. Cursors are records; the signing
key is the number of the process. A page holds items tagged with the process,
generation, collection and index they came from, so mixing is visible.

**EvidenceService** takes the request apart instead: it is authenticated, gets
a slot or is refused, is dispatched, reads the engine at one moment, and is
answered, each a step that a deadline, a client hanging up, a publication, the
shutdown or a kill can come before. The path of the socket is absent, live,
stale, something that is not a socket, or in a directory that is not accepted.
A page is only of the revision asked for or not; what it holds is the subject
of `EvidenceEngine`. That the scanner's goroutine stops (`StopWorker`) is
`Scanner`'s `ShutdownEnds`.

**WALContinuity** lists objects in key order, each up to `Lag` places late, and
any of them may be missing from a listing, since the archive changes while it
is paginated. An object is what its key says of it: where it lies, what form
its name has, timeline, log file and segment number, and whether the key has a
control character; `Classify` decides as the
code does what becomes of it. It keeps the code's sequence of compact ranges
and their placing, one after the other, at archive positions. The segment size is what the metadata of the
backups agrees on (`Context`), or none. A catalog that `Validate` refuses
(`RefuseScan`) leaves the one before it in place, as a failed scan does. Of a catalog whose
verdict is unknown the model forgets which objects were listed, as no property asks.

**TimelineAncestry** reads the history objects in timeline order, judges each
against the edges known so far and against the archive, and then looks for
timelines nobody explains. **RecoveryCoverage** goes on from there: it follows
each usable backup on its own timeline and on each that a valid history
connects, into paths, which carry the name of the backup's directory: a plain one,
or one the path's validation refuses. The archive of both is a catalog of the kind
`WALContinuity` publishes. What they rely on of it is `Continuous`
(`ArchiveCatalog`), their `ContinuityAssumption`; that every published catalog
is continuous is a theorem (`ContinuityAssured`).

**BackupCatalog** has one directory and three parties: the analyzer, a backup
job that uploads artifacts and says DONE last, and retention, which deletes.
The listing, the read of `backup.info` and each lookup see the directory at
different moments. `todo` are the places in the listing of the artifacts that
are still to be looked up, the first of which is next; `seen` are the keys looked
up, as in the code's map.

**ObjectStore.** Keys are numbers in listing order; an answer of the service
has keys, a size missing or not, a flag and a token. `HonestAnswers` are the
ways to cut a true listing into pages, `FaultyAnswers` those an adapter can
notice: too many keys, a key from elsewhere, no size, a truncated page without
a token. Each adapter's `List` is an operator of its own, since they differ in
what says that there is more and in the category of a refusal; `safeError` maps
what the SDK reports. A lie no adapter can notice (a page that silently leaves
out an object) is not among the answers.

**Configuration** has one value class for everything the code tells apart in a
variable, and one `Check` for every error `Load` can return: the variable it
names and the condition. **Startup** has what the constructors refuse on their
own (`NewRefuses`) and what each part of the program is built from (`Wiring`).
What an SDK looks up by itself on the host, in order or not, is the parameter
`host`, chosen by the environment.
**Readiness** remembers ages, not times, each capped where it stops to matter,
so behaviours of any length are finite-state and liveness can be checked. The
values of the interval and the timeout come from the accepted configuration.

**WALBrowser.** A query is what the form or a link sends; `parseWALFilter`,
`filterWALRows` and `walPageURL` are the code's. Sorting is said by what it
yields: a row has the place that as many come before it, which is one list as
long as no two rows are tied. That none are is what `IsCatalog` assumes of the catalogs,
since it is what the collector and `Validate` see to: ranges in order and
apart, so that gaps begin at different places too (for both, the theorem
`CatalogShown`), server names in order, and one diagnostic for each listed key. The reader keeps the rows of the
pages that belong together (`trail`), while refreshes, failed refreshes and
a restart replace the snapshot under it.

Modules whose properties TLC checks also hold, each before the definition it
distorts, variants of a definition marked *Mutant*: they show that a property
can fail, by the mistake they describe.

## 3. Runs

| Run | Question | Instance |
|---|---|---|
| `scanner_sidecar` | do refresh cycles in the sidecar keep every claim honest, and implement `Publications`? | 1 object, 1 cursor, 3 attempts, 2 catalogs, recovery verdicts of each form, 2 clock readings; 260 000 states |
| `scanner_standalone` | does multi-page listing stay in budget and publish only complete scans; do attempts and the goroutine end? | 3 objects, pages of 2, two pages of slack, 2 cursors that can alternate; 150 000 states |
| `scanner_rejected` | *violated*: is a failed attempt always marked? | standalone |
| `engine_pages` | can a reader be served a mixture, or be refused without cause? | 1 reader, 2 collections of 0, 2 or 3 items, limits default, 1 and 2, 2 revisions, 2 processes; 21 000 states |
| `service` | do slots, answers, shutdown and the socket survive every interleaving? | 2 clients for 1 slot, 5 forms of request, 2 revisions; 240 000 states |
| `wal_archive` | are verdicts exact and gaps confirmed rightly? | 8 objects, one of them with a control character in its key, one place late at most, sizes 4 and 8, 3 ranges, 1 diagnostic, 3 scans; 702 000 states |
| `backup_directory` | is the verdict right whatever job and retention do meanwhile? | 5 backups over 5 keys, 2 leftovers, listings that repeat an object; 640 000 states |
| `recovery` | is coverage what a recovery could use, and what is refused refused for a known reason? | 3 timelines and one unknown, 2 LSNs per segment, 3 histories, 4 paths; a backup under an odd name; 1.4 million states |
| `startup` | do accepted configurations start and take effect; is readiness honest, and does it return? | environments at most 2 variables away from seven working ones; interval 2, 4 or 5 and timeout 1, 1 or 4 ticks; 224 000 states |
| `store` | is a listing that ends without an error whole? | 5 keys, pages of 2, 2 writes or deletes, 3 adapters; 292 000 states |
| `store_oversize` | *violated*: is only an object within the bound parsed? | the same, 1 change |
| `web` | do the pages compose, and do links keep their meaning? | 2 servers, pages of 3, 3 pages, 2 publications, 2 processes; 7 600 states |

Why the bounds are enough.

* *Scanner.* Three attempts give every succession of complete, failed and
  refused attempts on retained evidence; a fourth meets a cache that is already
  reached. Two clock readings give forward, backward and equal. One object and
  one page exercise no pagination, hence the standalone run, whose budget is no
  multiple of its page so that the last limit is cut. One spare page is enough
  for an empty page, two for a cycle of cursors. Failure categories only
  differ in whether they may be published, so one is enough beside the ones the
  scanner itself gives.
* *Engine.* One reader suffices because readers share only the publication.
  Collections of 0, 2 and 3 items end on, and one past, a page boundary. The two
  collections are interchangeable and declared symmetric; no liveness is
  checked there.
* *Service.* Two clients and one slot are one more than there is room for.
  Refusals that the same step makes differ in nothing else, so one form stands
  for them.
* *WAL.* 0/3 and 1/0 are neighbours under one size and not under the other, 0/4
  is impossible under the first, so ranges join across log files, gaps open,
  ranges are dropped, and limits are reached. Three scans show a gap, confirm
  it, and lose it.
* *Recovery.* Two LSNs per segment tell a switch from the end of a backup
  within one. Three timelines are the least with a parent that has a parent.
  The histories are all those over a few LSNs, and impossible ones; one more
  timeline than there is room for makes the limits bite. Verdicts
  are compared with a definition of what a recovery needs that knows no ranges
  and no paths.
* *Backup catalog.* The five backups are: a split archive, one with a
  tablespace, an uncompressed one, one whose compression is unknown, one of an
  unsupported type. An object is listed at most twice (`MaxListings`).
* *Startup.* The seven working environments have each provider, each runtime,
  each family of credentials and each format. A check relates at most two
  variables to those a working environment has, so two changes reach it. The
  interval can be shorter than the timeout, as it can in the code.
* *Store.* Of the five keys one is outside of the root, one is its directory
  marker, one is under the root but outside of the server's prefix. Pages of two
  end within, at and after a change.
* *Web.* The largest page number is small enough to be reached; three rows per
  page end within a server and at its end.

Deadlock is checked for the engine, the backup directory, the service and the
WAL page. The scanner and WAL runs stop at their bound on attempts, and
`Scanner` also when the goroutine has ended; a recovery analysis returns, a
listing ends, and a process that refuses its configuration has exited.

Fairness. `scanner_standalone` assumes weak fairness of the goroutine: its
ticker keeps ticking, and every provider call returns because it is made under a
request timeout; and strong fairness of `Stop`, because Go's `select` picks at
random among ready cases and so cannot for ever prefer a tick over the done
context. `service` assumes weak fairness of each handler's steps, of the
goroutine that listens and waits for the cancellation, and of `StopWorker`.
`startup` assumes weak fairness of the worker's steps -- requests have
deadlines, so a probe is answered or cut off; a scan ends, which is
`RefreshTerminates` -- and of `Tick`, as time goes on. Outages and recoveries are
not fair: `ReadinessReturns` presupposes a store that stays up. The wall
clock, cancellation, deadlines, clients, kills and restarts are not fair.

### What the two violations show

* `scanner_rejected`. A complete scan whose snapshot fails validation publishes
  nothing, and neither does a failure recorded after the clock stepped back, as
  `Publish`'s error is dropped in `publishFailure`. The old evidence then stays
  published as fresh, although the documentation says that a failed refresh
  marks it stale.
* `store_oversize`. `Open` cuts the body at `MaxBytes`, and the callers ask for
  exactly the bound they then compare with, so the comparison never holds: of
  an object that is larger the first `MaxBytes` are parsed as if they were all,
  although the comment on the bound says that it is no evidence.

### Met while modelling

Behaviours a maintainer may want to know of. Where a property holds, it is
stated so that these are its only exceptions.

* *Publication identity.* The revision and the generation restart with the
  process. A reader that took a snapshot before a restart and asks for first
  pages after it may be served another publication under the same
  `(revision, evidence_generation)`. Continuation cursors are refused.
* *Gap confirmation.* When a range ends in a segment number that the segment
  size does not allow, the whole range is dropped and the verdict is unknown;
  a gap derived from what is left still counts as the first of the two
  observations that confirm it. `GapLifecycle` is exact between certain scans.
* *A backup that ends during the scan* may be called unhealthy although it is
  whole, since what the listing did not show is not looked up. The next
  undisturbed scan corrects it (`SettledVerdict`).
* *Snapshots that cannot be published.* A history object of timeline 1, more
  missing histories than `MaxHistoryFiles`, the path limit, and a usable backup
  under a directory name with a control character or of more than 256 bytes, which the
  catalog accepts (`catalog.go:254`) and the paths may not carry
  (`recovery.go:753`), make the catalog's own validation refuse the analysis;
  `RefusalsAreExplained` says that these are the only occasions. A listed key
  with a control character that the WAL collector keeps as a diagnostic does the same
  to the WAL catalog (`wal.go:596`), and nothing else does
  (`RefusedOnlyForKeys`). Either keeps the repository from
  being published for as long as the object is there. In the sidecar the API types refuse more than the parsers do
  (by reading: lower-case WAL names, a segment size that is no power of two, an
  end before its begin, LSNs of any text), so one such `backup.info` keeps every
  snapshot of the repository from being published.
* *Refused late.* Some values pass `Load` and are refused by a constructor, so
  that main reports `runtime` instead of `invalid_configuration` with the name of
  the variable: Azure without an account, a bucket or prefix beyond the
  adapter's length, and in a sidecar text that is not UTF-8, an encoded control
  character, an endpoint without a host, a file that holds no token, a
  web-identity path beyond 4096 bytes; and what an SDK refuses by itself: a
  credential it cannot use, default credentials or an AWS configuration of the
  host that are not in order (`LoadDefaultConfig`, `s3/store.go:108`), and
  with ambient credentials for S3 an `AWS_WEB_IDENTITY_TOKEN_FILE` without
  `AWS_ROLE_ARN` (`RefusedLate`).
* *Settings nothing reads.* `SCAN_CONCURRENCY`, `ALLOW_DOWNLOAD` and
  `PGBACKREST_CIPHER_PASS_FILE` always, although `web/docs/reference/limits.md:20`
  and `web/docs/architecture/scanning.md:80` present the first as a limit;
  `EXPECTED_*` with pgBackRest; `WAL_PAGE_SIZE` above 200 in a sidecar (`Unread`).
* *Foreign settings that are accepted.* `web/docs/operations/troubleshooting.md:44`
  says of variables of another provider or format that they are "rejected, not
  ignored", and `web/docs/operations/configuration.md:158-162` that setting any
  sidecar variable in standalone mode, web identity among them, "is an error". The
  code departs from both. `AWS_REGION` under Azure or GCS and
  `AZURE_STORAGE_ACCOUNT` under S3 or GCS are accepted and ignored, since the lists
  at `config.go:409-413` are without them. `AWS_WEB_IDENTITY_TOKEN_FILE` and
  `AWS_ROLE_ARN` are accepted in standalone mode under S3, since the list at
  `config.go:329` is without them: ignored beside static files, read by the AWS
  SDK itself when there are none. `SettingsTakeEffect` says that
  these are all (`PassedOver`), and that everything else that is foreign is refused.
* *A directory marker* whose key equals the root prefix makes every listing and
  every probe of a standalone reader fail with a safety limit.
* *Readiness* is lost by age when the first scan takes longer than one interval,
  or a later one longer than two, although the store answers
  (`ReachableStaysReady`).
* *Page links* past page 1,000,000 are offered and then refused.
* *LSNs* are compared only within one history, never between a parent's history
  and a child's (`recovery.go:157`).
* A deadline that passes in the engine is answered with 500
  `invalid-publication`, which `web/docs/reference/evidence-api.md` explains as
  "Internal snapshot failed validation", and at shutdown net/http sends an empty
  200 for a handler that returned without writing; `FailuresAreExplained` says
  that these are the only occasions.

## 4. Proofs

A theorem holds for every value of the constants that satisfies the named
assumptions of its module: any number of objects, clients, readers, revisions,
keys, backups, any page size and any limit. The assumptions say what the code's
own checks and constants say (budgets, page sizes and slots are positive, a
sentinel is none of the values it stands beside) and are evaluated by TLC on
the instances of section 3.

| Theorem | Property it establishes |
|---|---|
| `ScannerProofs`: `TypeCorrect` | `TypeOK` |
| `FailureIsClaimless` | `FailureClaimsNothing` |
| `EngineAgreement` | `EngineAgreesWithCache` |
| `SuccessVisibility` | `SuccessIsVisible` |
| `ObjectBudget` | `WithinObjectBudget` |
| `EvidenceIntegrity` | `EvidenceIsOneCompleteScan` |
| `RevisionOrder` | `RevisionsAdvance` |
| `ScannerImplementsPublications` | `ImplementsPublications` |
| `StateIsWorst` | `StateIsWorstCapability` |
| `RecoveryProofs`: `AncestryTypeCorrect` | `AncestryTypeOK` |
| `HistoryAgreement` | `ValidHistoriesAgree` |
| `AncestryCompleteness` | `HealthyAncestryIsComplete` |
| `CoverageTypeCorrect` | `TypeOK` |
| `ExactCoverage` | `CoverageIsExact` |
| `AccountedTimelines` | `TimelinesAreAccountedFor` |
| `WholeCoverage` | `HealthyCoverageIsWhole` |
| `RequiredGaps` | `GapsThatStopAreRequired` |
| `ExplainedRefusals` | `RefusalsAreExplained` |
| `ServiceProofs`: `ServiceIsConsistent` | the invariant `ServiceInv` |
| `BusyIsFull` | `BusyMeansFull` |
| `AnswersCurrent` | `AnswersAreCurrent` |
| `FailuresExplained` | `FailuresAreExplained` |
| `SocketTakenOver` | `SocketIsTakenOver` |
| `EngineProofs`: `EngineIsConsistent` | the invariant `EngineInv` |
| `CollectionsWhole` | `CollectionsAreWhole` |
| `AssemblyMatches` | `AssemblyMatchesSnapshot` |
| `OrderlyServed` | `OrderlyReaderIsServed` |
| `StoreProofs`: `ListingIsConsistent` | the invariant `StoreInv` |
| `ListingWhole` | `ListingIsWhole` |
| `BackupProofs`: `BackupIsConsistent` | the invariant `BackupInv` |
| `VerdictSettled` | `SettledVerdict` |
| `HealthyComplete` | `HealthyIsComplete` |
| `HealthyConfirmed` | `HealthyIsConfirmed` |
| `StartupProofs`: `ReadinessIsBounded` | the invariant `ReadyInv` |
| `ReachableStays` | `ReachableStaysReady` |
| `OutageNoticed` | `OutageIsNoticed` |
| `AcceptedStarts` | `AcceptedConfigurationStarts` |
| `SettingsAreUsed` | `SettingsTakeEffect` |
| `WALProofs`: `WALTypeCorrect` | `TypeOK` |
| `ContinuityExact` | `ContinuityIsExact` |
| `RefusedForKeys` | `RefusedOnlyForKeys` |
| `GapsLive` | `GapLifecycle` |
| `ContinuityAssured` | `CatalogIsContinuous`, what `TimelineAncestry` assumes |
| `CatalogShown` | `CatalogCanBeShown`, what `WALBrowser` assumes of ranges and gaps |
| `LinksLead` | `LinksAreAccepted` |
| `PagesAreWhole` | `PagesCompose` |

None of the properties is inductive alone. For each module, the invariant that
is, and why the property needs it:

**Scanner** (`IInv`). *Counters*: every revision and generation in the
cache or the engine is at most the counter, and strictly below it while an
attempt is running. *Draft*: at each program point it says what the draft is --
blank, a listing of this generation, or a failure snapshot built from the cache
as it still is -- so that publication needs no memory of how the draft arose.
*Engine*: the engine is the projection of the cache, or at `store` of a draft
the cache will accept. The last is what makes `EngineAgreesWithCache` hold: the
projection validates the snapshot first, so acceptance by the engine implies
acceptance by the cache. Each property's step is proved action by action from
`IInv`; the two action properties and the implementation of `Publications`
follow from the counters and the draft. For `StateIsWorst`, `VerdictInv` adds
that the draft's state is the worst of its verdicts from the catalog on, which
each later verdict preserves because `conservativeState` joins two folds
(`RollupJoin`) and no capability is set twice.

**Ancestry** (`AncestryInv`). The known edges agree with each other
(each child has one), the edges of every valid history are known and agree
with the archive, a listed timeline is to be read or has been judged, and
there is no verdict before the end. Agreement of two valid histories then
does not depend on which was read first: both are among edges that agree. The
theorems are about the specification of `RecoveryCoverage`, whose other actions
leave the ancestry alone but for the phase.

**Recovery coverage** (`CoverageInv`, which is `AncestryInv` with two more parts).
*Shape* (`ShapeInv`): the edges of a history are a chain from an older timeline
to its own, with children and switches that never decrease, and there is one
verdict for each timeline that is listed or missing. *Paths* (`PathInv`): every
path so far is what `pathsOf` gives for some usable backup; no two of one backup
have the same target; each backup done has all of its paths unless the limit was reached; and a
verdict other than unknown comes at the end and speaks for all paths.
That makes a property of all paths a property of one path of one backup, and
the rest is about operators, in four steps:

* Which targets a backup has. The code goes through the histories in order and
  keeps what it met first; the model says what that is (`FirstMet`) and what
  sorting yields, and `SetCanBeSorted` shows that there is such a list. One
  history leads to a target in one way (`MetIsUnique`), so that each is found once.
* What a leg reaches. Two ranges of a timeline do not touch
  (`ContinuityAssumption`), so that the range that holds a position holds all that
  is archived in a row from there (`OneRange`, `LastRange`). A leg is healthy
  exactly if every segment it needs is archived (`LegIsHealthy`).
* Which route the definition of a recovery means. It chooses any valid history
  that leads to the target; the code, the one it met first. Known edges
  agree, hence so do the switches between the two timelines (`LeadsAgree`),
  and the part of a history that leads there is the part that the code cuts
  out of it (`LineageIsPart`, `LineageIsDescent`).
* Together: `HealthyIsReplayable` and `ReplayableIsHealthy` are the two halves of
  `CoverageIsExact`; `GapIsRequired` shows that the walk stops at the first
  position that is needed and not archived. The other theorems count
  paths and targets against each other.

**WAL continuity** (`WALInv`). The invariant says what the collector holds of
the listing so far and what the catalog says of the last one, and the
argument goes with the data:

* From objects to raw ranges (`Collected`). The ranges are in order and do not
  touch; each number of a range is that of a listed segment, and, unless the
  ranges were truncated or an object came out of order, each listed segment is
  in a range. `Add` keeps the ranges, lengthens the last or appends one
  (`Grown`), and one lemma for each shows that the new listing is still stood for.
* From raw ranges to positions (`PlacedUpTo`). The placing is a recursive
  function over the raw ranges. Each of its values covers the positions of the
  ranges so far that fit the segment size; the first value that did not would
  have one before it that did (`LeastElement`), and the three cases of
  `PlaceRange` exclude it. Log files do not overlap because a segment number is
  below the segments of a log file (`PositionOrder`).
* From ranges to gaps. What lies between neighbouring ranges is what is missing
  between positions that are covered (`HolesAreBetween`), which does not
  mention ranges. This is where not touching is needed.
* From one scan to the next. The gaps of a catalog are dated by its scan and
  the catalog is older than the scan that runs, so that a gap reported again is
  confirmed with an earlier first observation (`ValidGap`). `GapLifecycle`
  follows since the previous catalog was exact for its own listing.

`RefusedForKeys` follows the data as well: the collector keeps the diagnostic of
each listed object that deserves one, up to the limit (`KeysKept`), and an
object whose key has a control character can be no segment. Everything else
that `Validate` asks is shown of whatever a scan builds (`ScanBuilds`), so that
such a key is the only reason for a refusal.

Ranges in order with the gaps between them are also all that the recovery
analysis assumes, whatever the verdict. `ContinuityAssured` joins the two models:
the archives for which the theorems about recovery coverage hold include, in
this respect, every archive that a scan can publish.

**Service** (`ServiceInv`). The slots taken are exactly as many as there are
requests between `Admit` and `Return`, so the counter cannot drift however a
request ends; this is an argument about cardinalities, each step adding or
removing one holder. What a handler has found out lies between what was current
when its request came and what is current now (`Sound`), which is what makes
an answer current when it is sent. A process that is bound or serving has its
own socket at the path.

**Engine** (`EngineInv`). What a reader holds of a collection are the items
1..n of one collection of one publication of one process, and its cursor, if
it has one, continues at exactly n and carries that process's key, that
generation and the reader's revision. Within one process a revision stands for one
generation, which ties the pages to the snapshot.

**Object store** (`StoreInv`). What has been accepted is ascending, was stored
at some time since the listing began, and has every key up to the token that
was stored all along. A page extends this from its token to the next; a fault
that an adapter notices ends the listing, and the lemmas about the three
adapters show that what they let through is an honest page.

**Backup catalog** (`BackupInv`). The job says DONE last, so that whoever has
read DONE came after the uploads; an analysis that has read DONE, or has called
the backup healthy, came after the end of the job; the archive of each root is
stored, or deleted since the read, or yet to be looked up; and while nothing
changes, fails or repeats, the listing is what is stored of the keys it has
passed. `MissingIsExact` is where names are taken apart and put together again:
no root is missing exactly if the directory holds an archive under one of the
expected names.

**Readiness** (`ReadyInv`). The age of the last outcome is bounded by what the
worker is doing: by the length of the scan, by the interval less what the ticker
still has to run, by that and the time the request has been out. That
2 * interval + timeout is enough then follows for every interval and timeout,
and also that an outage is no longer than the age of the good outcome before
it.

**Configuration.** `AcceptedStarts` needs no invariant of many steps but an
argument over all combinations of the values of the 38 variables, far more than a run can
enumerate: the first check of `Load` that refuses decides (`LeastNatural`
chooses it), so what is accepted passed every check; each refusal of a
constructor is then excluded by the check that repeats its condition, or is one
of `RefusedLate`, whatever state the host is in.
`SettingsAreUsed` is about pairs of environments, which differ in one variable. It first
turns the checks around: an environment is accepted exactly if it is `Sane`,
a conjunction with one part for each group of variables (`AcceptedIsSane`). Then, for
each variable on its own, what the environment without it is refused for, or
which part of `Wiring` it changes, is read off; `EffectExactly` says that this
leaves exactly the variables of `Idle`. That a foreign variable is refused unless it is in
`PassedOver` (`ForeignRefused`) is read off `Sane` directly.

**WAL page, its links** (`ViewInv`). The filter of a page that is shown has been through
`parseWALFilter`: its bounds parse under the segment size the server had then
and lie on its timeline, in order (`Sound`); and its links are made from it. A
link therefore carries the timeline that the form may have left to its bounds,
and reading it back under another snapshot gives the same filter, or fails
where that snapshot differs in the server or its segment size.

**WAL page, its rows** (`PagesInv`, which has `ViewInv` as a part). While the
snapshot on the page is the current one, its totals and its next link are those
of the rows of all servers one after the other (`AllRows`), and the trail is the
first pages of them (`FirstPages`). The steps:

* No two rows of a server are tied in the order of the page
  (`RowsOfServer`, `BeforeIsOrder`): two ranges, or two gaps, begin at different
  places, two classes have different ranks, and two diagnostics have different keys. So
  each place in the order is taken by one row, which is shown by
  counting those that come before it (`PlaceIsTaken`, `ArrangedFacts`).
* `filterWALRows` never has all rows at hand. It cuts from each server what
  falls on the page; this is the same as the cut from all of them
  (`Window`, `WindowOfConcat`, `CutNextServer`, `PageIsFound`).
* A filter read from a query lets through what the query asks for, also when
  it took the timeline from the bounds (`Agrees`, `Meets`, `ThroughIsAsked`).
* A page that is not the last is full and one more extends the first pages by
  itself (`PagesAnswered`); the last one ends where the rows end, and its number is
  the total divided by the page size, rounded up (`PageCount`).

`RevisionsAdvance`, `AncestryTypeOK`, `CatalogIsContinuous`, `CatalogCanBeShown`,
the `TypeOK` of `RecoveryCoverage` and of `WALContinuity`, and the five
invariants that the table names as such are proved and in no run's
configuration, as the properties that are follow from them or have them as a part.

Every invariant and every action property that a passing run checks is thus
stated by a theorem, as is the refinement. Only model-checked are the liveness properties
(`RefreshTerminates`, `ShutdownEnds`, `RequestsEnd`, `ServiceEnds`,
`ReadinessReturns`), since fairness and ENABLED are out of the prover's reach;
and that the code is wrong where the two violations say so.

## 5. Plan

Done: the core (`EvidenceStates`, `Publications`, `Scanner`, `EvidenceEngine`,
`WALContinuity`), timelines and recovery, the backup catalog, the service, the
object store, configuration and start, readiness, the WAL page, and the proofs
of section 4.

Next, in this order:

1. The item-by-item projection and the object counters of a scope, so that
   `Scanner`'s *forms* are derived rather than chosen.
2. Two processes that start at once on one socket path (`unix.go:64`).
3. Composition: the facts `Scanner` receives as the verdicts of `BackupCatalog`,
   `WALContinuity` and `RecoveryCoverage`, each through the facts it is shown to
   establish, as `RecoveryCoverage` and `WALBrowser` now get those of `WALContinuity`.

## 6. Not modelled

The web pages other than the WAL page, redaction, the probe command, the
artifact generator, the format registry and the provider test journeys: no state
that a property is about, or pure I/O. The SDKs and the services behind them are
external. Signing and encoding of cursors, cloning of Go
values, texts and reasons, byte totals, receipt times and per-scope counters are
abstracted away in the modules above. The refresh mutex guards nothing here, as
one goroutine refreshes. The scanner's errors before its first page are left
out because `Load` has excluded them (`BeginRefresh`).
