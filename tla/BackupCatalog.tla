--------------------------- MODULE BackupCatalog ---------------------------
(***************************************************************************)
(* The verdict on one Barman backup (internal/formats/barmancloud/         *)
(* catalog.go, structural validation): the objects of its directory are    *)
(* listed with the rest of the repository, and when the listing is         *)
(* complete its backup.info is read and each artifact is looked up.        *)
(*                                                                         *)
(* The directory is shared with a backup job, which uploads artifacts and  *)
(* says DONE when it has uploaded them all, and with retention, which      *)
(* deletes objects; both go on while the directory is analyzed.  Listing,  *)
(* read and lookups are separate requests and see the directory as it is   *)
(* when each is made.                                                      *)
(*                                                                         *)
(* Directories share nothing but the listing, so one is modelled.  A name  *)
(* is the record of what artifactName takes from it: <root>.tar<ext>, or   *)
(* <root>_000<part>.tar<ext>.  The other fields of backup.info are left    *)
(* out; a value of theirs that does not parse makes it malformed.          *)
(***************************************************************************)
EXTENDS Integers, Sequences, FiniteSets, Functions, EvidenceStates

CONSTANTS
  OIDs,       \* the tablespaces a backup may have
  MetadataKey,\* backup.info
  Keys,       \* the keys of the directory, in listing order
  Plans,      \* the backups the job may make: what backup.info says, and the artifacts
  Leftovers,  \* artifacts that may be there before the backup
  Malformed,  \* a backup.info that does not parse
  NoMetadata, \* no backup.info, or none read yet
  NoState     \* no backup in the catalog

Roots == {"data"} \cup OIDs

Compression == {"", "gzip", "bzip2", "snappy", "lz4", "unrecognized"}

Extensions == {"", ".gz", ".bz2", ".snappy", ".lz4"}

ArtifactName == [root : Roots, part : Nat, extension : Extensions]

(* How often a listing may show one object. *)
MaxListings == 2

ASSUME KeysAssumption ==
  /\ "data" \notin OIDs
  /\ Keys \in Seq(Range(Keys)) /\ IsInjective(Keys)
  /\ Range(Keys) \subseteq ArtifactName \cup {MetadataKey}
  /\ MetadataKey \in Range(Keys) \ ArtifactName
  /\ Leftovers \subseteq Range(Keys) \ {MetadataKey}

ASSUME PlansAssumption ==
  Plans \subseteq [tablespaces   : SUBSET OIDs,
                   compression   : Compression,
                   supportedType : BOOLEAN,
                   artifacts     : SUBSET (Range(Keys) \ {MetadataKey})]

Status == {"STARTED", "DONE", "FAILED", "unrecognized"}

(* ParseBackupInfo: what the catalog takes from a backup.info. *)
Metadata ==
  [status : Status, tablespaces : SUBSET OIDs, compression : Compression, supportedType : BOOLEAN]

ASSUME ValuesAssumption ==
  /\ NoState \notin State
  /\ Malformed # NoMetadata /\ {Malformed, NoMetadata} \cap Metadata = {}

-----------------------------------------------------------------------------
(* artifactName and what it rests on *)

(* A declared compression of "none" is read as no declaration.             *)
compressionExtensions(compression) ==
  CASE compression = "gzip"   -> {".gz"}
    [] compression = "bzip2"  -> {".bz2"}
    [] compression = "snappy" -> {".snappy"}
    [] compression = "lz4"    -> {".lz4"}
    [] OTHER                  -> Extensions

supportedCompression(compression) == compression # "unrecognized"

(* Mutant: the data directory is expected, tablespaces are not. *)
ExpectedData(metadata) == {"data"}

ExpectedRoots(metadata) == {"data"} \cup metadata.tablespaces

IsArtifact(key, metadata) ==
  /\ key # MetadataKey
  /\ key.root \in ExpectedRoots(metadata)
  /\ key.extension \in compressionExtensions(metadata.compression)

(* artifacts: where they are in a listing, which is sorted by key; one     *)
(* that was listed again is there twice.                                   *)
Artifacts(keys, metadata) == {i \in DOMAIN keys : IsArtifact(keys[i], metadata)}

(* Mutant: a continuation of the archive of a root stands for it. *)
ContainsAnyPart(keys, root) == \E key \in keys : key.root = root

containsArtifactRoot(keys, root) == \E key \in keys : key.root = root /\ key.part = 0

-----------------------------------------------------------------------------
(* The directory, and the analysis. *)

VARIABLES
  store,     \* the keys that are there
  info,      \* what backup.info says
  job,       \* the plan of the backup job from its start on
  jobState,  \* "none", "running", "ended"; then retention is "expiring" it
  pc,        \* "idle", "listing", "read", "stat"
  position,  \* how far the listing is into Keys
  listing,   \* the objects listed, in order
  copy,      \* the metadata read from backup.info
  todo,      \* the artifacts yet to be looked up, by their place in the listing
  seen,      \* the artifacts looked up
  verdict,   \* State of the Backup in the catalog published last
  changed,   \* whether the directory changed since the analysis began
  disturbed, \* whether a request failed or repeated an object in this analysis
  deleted    \* what was deleted since this analysis read backup.info

directory == <<store, info, job, jobState>>
analysis  == <<pc, position, listing, copy, todo, seen, verdict>>
observed  == <<changed, disturbed, deleted>>
vars      == <<directory, analysis, observed>>

TypeOK ==
  /\ store \subseteq Range(Keys)
  /\ info \in Metadata \cup {Malformed, NoMetadata}
  /\ info = NoMetadata <=> MetadataKey \notin store
  /\ job \in Plans \cup {NoMetadata}
  /\ jobState \in {"none", "running", "ended", "expiring"}
  /\ pc \in {"idle", "listing", "read", "stat"}
  /\ position \in 0..Len(Keys)
  /\ listing \in Seq(Range(Keys))
  /\ copy \in Metadata \cup {NoMetadata}
  /\ todo \subseteq DOMAIN listing
  /\ todo # {} <=> pc = "stat"
  /\ seen \subseteq Range(listing)
  /\ verdict \in State \cup {NoState}
  /\ changed \in BOOLEAN
  /\ disturbed \in BOOLEAN
  /\ deleted \subseteq Range(Keys)

Init ==
  /\ store \in SUBSET Leftovers
  /\ info = NoMetadata
  /\ job = NoMetadata
  /\ jobState = "none"
  /\ pc = "idle"
  /\ position = 0
  /\ listing = <<>>
  /\ copy = NoMetadata
  /\ todo = {}
  /\ seen = {}
  /\ verdict = NoState
  /\ changed = TRUE
  /\ disturbed = FALSE
  /\ deleted = {}

-----------------------------------------------------------------------------
(* The backup job and retention. *)

Change == changed' = TRUE /\ UNCHANGED <<analysis, disturbed>>

Says(status) ==
  [status        |-> status,
   tablespaces   |-> job.tablespaces,
   compression   |-> job.compression,
   supportedType |-> job.supportedType]

PutMetadata(content) ==
  /\ store' = store \cup {MetadataKey}
  /\ info' = content

StartBackup ==
  /\ jobState = "none"
  /\ job' \in Plans
  /\ jobState' = "running"
  /\ UNCHANGED <<store, info>>
  /\ UNCHANGED deleted
  /\ Change

(* Some versions of the job announce the backup, others do not. *)
AnnounceBackup ==
  /\ jobState = "running"
  /\ info = NoMetadata
  /\ PutMetadata(Says("STARTED"))
  /\ UNCHANGED <<job, jobState>>
  /\ UNCHANGED deleted
  /\ Change

Upload ==
  /\ jobState = "running"
  /\ \E key \in job.artifacts \ store : store' = store \cup {key}
  /\ UNCHANGED <<info, job, jobState>>
  /\ UNCHANGED deleted
  /\ Change

(* The job says DONE when it has uploaded everything.  It may fail before, *)
(* say something else, or leave a backup.info that does not parse.         *)
EndBackup ==
  /\ jobState = "running"
  /\ \/ job.artifacts \subseteq store /\ PutMetadata(Says("DONE"))
     \/ \E content \in {Says("FAILED"), Says("unrecognized"), Malformed} : PutMetadata(content)
  /\ jobState' = "ended"
  /\ UNCHANGED job
  /\ UNCHANGED deleted
  /\ Change

(* Retention deletes the objects of a backup one by one, in any order. *)
Expire ==
  /\ jobState \in {"ended", "expiring"}
  /\ \E key \in store :
       /\ store' = store \ {key}
       /\ deleted' = deleted \cup {key}
       /\ info' = IF key = MetadataKey THEN NoMetadata ELSE info
  /\ jobState' = "expiring"
  /\ UNCHANGED job
  /\ Change

-----------------------------------------------------------------------------
(* The analysis: the scanner's listing, then Analyze. *)

BeginScan ==
  /\ pc = "idle"
  /\ pc' = "listing"
  /\ position' = 0
  /\ listing' = <<>>
  /\ copy' = NoMetadata
  /\ seen' = {}
  /\ changed' = FALSE
  /\ disturbed' = FALSE
  /\ deleted' = {}
  /\ UNCHANGED <<directory, todo, verdict>>

(* The listing passes the next key, and shows it if it is there now. *)
ListKey ==
  /\ pc = "listing"
  /\ position < Len(Keys)
  /\ position' = position + 1
  /\ listing' = IF Keys[position'] \in store THEN Append(listing, Keys[position']) ELSE listing
  /\ UNCHANGED <<directory, pc, copy, todo, seen, verdict, observed>>

(* A page starts with the object the page before ended with. *)
ListAgain ==
  /\ pc = "listing"
  /\ listing # <<>>
  /\ LET final == listing[Len(listing)]
     IN  /\ final \in store
         /\ Cardinality({i \in DOMAIN listing : listing[i] = final}) < MaxListings
         /\ listing' = Append(listing, final)
  /\ disturbed' = TRUE
  /\ UNCHANGED <<directory, pc, position, copy, todo, seen, verdict, changed, deleted>>

Conclude(state) ==
  /\ pc' = "idle"
  /\ verdict' = state
  /\ todo' = {}

(* The listing is complete; only a directory with a backup.info is read. *)
CompleteListing ==
  /\ pc = "listing"
  /\ position = Len(Keys)
  /\ IF MetadataKey \in Range(listing)
     THEN pc' = "read" /\ UNCHANGED <<verdict, todo>>
     ELSE Conclude(IF listing = <<>> THEN NoState ELSE Unknown)
  /\ UNCHANGED <<directory, position, listing, copy, seen, observed>>

(* backup.info cannot be opened or read, or has been deleted. *)
ReadFails ==
  /\ pc = "read"
  /\ Conclude(Unknown)
  /\ disturbed' = TRUE
  /\ UNCHANGED <<directory, position, listing, copy, seen, changed, deleted>>

ReadMalformed ==
  /\ pc = "read"
  /\ info = Malformed
  /\ Conclude(Unknown)
  /\ UNCHANGED <<directory, position, listing, copy, seen, observed>>

(* Mutant: a backup in progress is validated like one that is done. *)
StatusOfRunning(metadata) ==
  CASE metadata.status \in {"DONE", "STARTED"} -> "awaiting"
    [] metadata.status = "FAILED"              -> Unhealthy
    [] OTHER                                   -> Unknown

(* The end of readBackup: a backup that is done awaits validation. *)
readBackup(metadata) ==
  CASE ~metadata.supportedType \/ ~supportedCompression(metadata.compression) -> Unknown
    [] OTHER -> CASE metadata.status = "DONE"    -> "awaiting"
                  [] metadata.status = "STARTED" -> Warning
                  [] metadata.status = "FAILED"  -> Unhealthy
                  [] OTHER                       -> Unknown

Missing(keys, metadata) ==
  \E root \in ExpectedRoots(metadata) : ~containsArtifactRoot(keys, root)

(* structuralState up to its first lookup. *)
ReadMetadata ==
  /\ pc = "read"
  /\ info \in Metadata
  /\ copy' = info
  /\ deleted' = {}
  /\ LET state     == readBackup(info)
         artifacts == Artifacts(listing, info)
     IN  IF state = "awaiting" /\ ~Missing({listing[i] : i \in artifacts}, info)
         THEN pc' = "stat" /\ todo' = artifacts /\ UNCHANGED verdict
         ELSE Conclude(IF state = "awaiting" THEN Unhealthy ELSE state)
  /\ UNCHANGED <<directory, position, listing, seen, changed, disturbed>>

(* Mutant: the last artifact is not looked up. *)
StatAllButLast ==
  /\ pc = "stat"
  /\ \E i \in todo :
       /\ \A j \in todo : i <= j
       /\ listing[i] \in store
       /\ seen' = seen \cup {listing[i]}
       /\ IF Cardinality(todo) <= 2 THEN Conclude(Healthy)
                                    ELSE todo' = todo \ {i} /\ UNCHANGED <<pc, verdict>>
  /\ UNCHANGED <<directory, position, listing, copy, observed>>

(* The first artifact that is left is where it was listed, and was not     *)
(* listed before.                                                          *)
StatArtifact ==
  /\ pc = "stat"
  /\ \E i \in todo :
       /\ \A j \in todo : i <= j
       /\ listing[i] \in store \ seen
       /\ seen' = seen \cup {listing[i]}
       /\ IF todo = {i} THEN Conclude(Healthy)
                        ELSE todo' = todo \ {i} /\ UNCHANGED <<pc, verdict>>
  /\ UNCHANGED <<directory, position, listing, copy, observed>>

(* An artifact was listed twice, or is not confirmed. *)
StatFails ==
  /\ pc = "stat"
  /\ Conclude(Unknown)
  /\ disturbed' = TRUE
  /\ UNCHANGED <<directory, position, listing, copy, seen, changed, deleted>>

Next ==
  \/ StartBackup \/ AnnounceBackup \/ Upload \/ EndBackup \/ Expire
  \/ BeginScan \/ ListKey \/ ListAgain \/ CompleteListing
  \/ ReadFails \/ ReadMalformed \/ ReadMetadata \/ StatArtifact \/ StatFails

Spec == Init /\ [][Next]_vars

-----------------------------------------------------------------------------
(* Properties *)

Analyzed == pc = "idle" /\ verdict # NoState

(* The documented classification (evidence-model.md, Backup                *)
(* classification), of a directory that holds still.                       *)
Classification ==
  IF store = {} THEN NoState
  ELSE IF info \in {NoMetadata, Malformed} THEN Unknown
  ELSE IF \/ info.status = "unrecognized"
          \/ ~info.supportedType
          \/ info.compression = "unrecognized" THEN Unknown
  ELSE CASE info.status = "FAILED"  -> Unhealthy
         [] info.status = "STARTED" -> Warning
         [] info.status = "DONE"    ->
              IF \A root \in {"data"} \cup info.tablespaces :
                   \E extension \in compressionExtensions(info.compression) :
                     [root |-> root, part |-> 0, extension |-> extension] \in store
              THEN Healthy
              ELSE Unhealthy

(* An analysis during which nothing changed, failed or was repeated gives  *)
(* the documented classification of the backup (Analyze, readBackup,       *)
(* structuralState): in particular it finds every artifact under its name  *)
(* and corrects whatever an earlier race had it say.                       *)
SettledVerdict == pc = "idle" /\ ~changed /\ ~disturbed => verdict = Classification

(* As long as retention has not touched it, a backup is healthy only when  *)
(* the job is done and everything it uploaded is there, whatever the       *)
(* listing passed by while it was uploading: the listing ends before       *)
(* backup.info is read, and the job says DONE last.                        *)
HealthyIsComplete ==
  Analyzed /\ verdict = Healthy /\ jobState # "expiring" =>
    /\ jobState = "ended"
    /\ info.status = "DONE"
    /\ job.artifacts \subseteq store

(* A backup that retention is deleting meanwhile is healthy only when the  *)
(* archive of each of its roots was still there after its backup.info had  *)
(* been read (structuralState looks every artifact up again).              *)
HealthyIsConfirmed ==
  Analyzed /\ verdict = Healthy =>
    /\ copy.status = "DONE"
    /\ \A root \in {"data"} \cup copy.tablespaces :
         \E key \in (store \cup deleted) \ {MetadataKey} :
           key.root = root /\ key.part = 0

=============================================================================
