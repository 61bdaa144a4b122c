---------------------------- MODULE BackupProofs ----------------------------
(***************************************************************************)
(* Proofs about the verdict on a backup, for any directory, backup plan,   *)
(* tablespaces and listing, while the job uploads and retention deletes.   *)
(***************************************************************************)
EXTENDS BackupCatalog, TLAPS

(* The job says DONE last, and nothing it uploaded is gone before          *)
(* retention begins.                                                       *)
JobInv ==
  /\ jobState # "none" => job \in Plans
  /\ info \in Metadata /\ info.status = "DONE" =>
       /\ jobState \in {"ended", "expiring"}
       /\ jobState = "ended" => job.artifacts \subseteq store

(* An analysis that has read DONE, and one that called the backup healthy, *)
(* came after the end of the job.                                          *)
VerdictInv ==
  pc = "stat" \/ verdict = Healthy =>
    /\ jobState \in {"ended", "expiring"}
    /\ jobState = "ended" => info \in Metadata /\ info.status = "DONE"

Found(root, keys) == \E key \in keys \ {MetadataKey} : key.root = root /\ key.part = 0

(* The archive of each root has been confirmed, or is still to be.         *)
ConfirmInv ==
  /\ pc = "stat" =>
       /\ copy \in Metadata /\ copy.status = "DONE"
       /\ \A root \in ExpectedRoots(copy) :
            Found(root, store \cup deleted \cup {listing[i] : i \in todo})
  /\ pc = "idle" /\ verdict = Healthy =>
       /\ copy \in Metadata /\ copy.status = "DONE"
       /\ \A root \in ExpectedRoots(copy) : Found(root, store \cup deleted)

Passed(n) == {Keys[i] : i \in 1..n}

(* While nothing changes, fails or is repeated, the listing is what the    *)
(* directory holds.                                                        *)
SettledInv ==
  ~changed /\ ~disturbed =>
    /\ pc = "listing" => Range(listing) = store \cap Passed(position)
    /\ pc \in {"read", "stat"} => Range(listing) = store
    /\ pc = "read" => MetadataKey \in store
    /\ pc = "stat" => Classification = Healthy
    /\ pc = "idle" => verdict = Classification

BackupInv ==
  /\ TypeOK
  /\ JobInv
  /\ VerdictInv
  /\ ConfirmInv
  /\ SettledInv

-----------------------------------------------------------------------------
LEMMA StatesDiffer ==
  /\ Healthy # Unknown /\ Healthy # Warning /\ Healthy # Unhealthy
  /\ Healthy \in State /\ Unknown \in State /\ Warning \in State /\ Unhealthy \in State
  /\ NoState \notin State
BY ValuesAssumption DEF State, Healthy, Warning, Unhealthy, Unknown

LEMMA AppendRange ==
  ASSUME NEW S, NEW s \in Seq(S), NEW x \in S
  PROVE  /\ Append(s, x) \in Seq(S)
         /\ Range(Append(s, x)) = Range(s) \cup {x}
<1> DEFINE t == Append(s, x)
<1>1. t \in Seq(S) /\ DOMAIN t = 1..(Len(s) + 1) /\ DOMAIN s = 1..Len(s) /\ Len(s) \in Nat
  OBVIOUS
<1>2. \A i \in 1..Len(s) : t[i] = s[i]
  OBVIOUS
<1>3. t[Len(s) + 1] = x
  OBVIOUS
<1>4. \A i \in 1..(Len(s) + 1) : i \in 1..Len(s) \/ i = Len(s) + 1
  BY <1>1
<1> HIDE DEF t
<1>5. Range(t) \subseteq Range(s) \cup {x}
  BY <1>1, <1>2, <1>3, <1>4 DEF Range
<1>6. Range(s) \subseteq Range(t)
  <2>1. 1..Len(s) \subseteq 1..(Len(s) + 1)
    BY <1>1
  <2> QED
    BY <1>1, <1>2, <2>1 DEF Range
<1>7. x \in Range(t)
  <2>1. Len(s) + 1 \in 1..(Len(s) + 1)
    BY <1>1
  <2> QED
    BY <1>1, <1>3, <2>1 DEF Range
<1> QED
  BY <1>1, <1>5, <1>6, <1>7 DEF t

(* The keys that stand for the artifacts of a backup in a listing. *)
LEMMA ArtifactFacts ==
  ASSUME NEW keys \in Seq(Range(Keys)), NEW metadata \in Metadata
  PROVE  LET found == {keys[i] : i \in Artifacts(keys, metadata)}
         IN  /\ Artifacts(keys, metadata) \subseteq DOMAIN keys
             /\ found = {k \in Range(keys) : IsArtifact(k, metadata)}
             /\ ~Missing(found, metadata) =>
                  /\ Artifacts(keys, metadata) # {}
                  /\ \A root \in ExpectedRoots(metadata) : Found(root, found)
<1> DEFINE found == {keys[i] : i \in Artifacts(keys, metadata)}
<1>1. found = {k \in Range(keys) : IsArtifact(k, metadata)}
  BY DEF Artifacts, Range
<1>2. MetadataKey \notin found
  BY <1>1 DEF IsArtifact
<1>3. ASSUME ~Missing(found, metadata)
      PROVE  \A root \in ExpectedRoots(metadata) : Found(root, found)
  BY <1>2, <1>3 DEF Missing, containsArtifactRoot, Found
<1>4. ASSUME ~Missing(found, metadata) PROVE Artifacts(keys, metadata) # {}
  <2>1. Found("data", found)
    BY <1>3, <1>4 DEF ExpectedRoots
  <2> QED
    BY <2>1 DEF Found
<1> QED
  BY <1>1, <1>3, <1>4 DEF Artifacts

(* Nothing is missing of what is stored exactly if each root has an        *)
(* archive under one of the expected names.                                *)
LEMMA MissingIsExact ==
  ASSUME NEW keys \in SUBSET Range(Keys), NEW metadata \in Metadata
  PROVE  ~Missing({k \in keys : IsArtifact(k, metadata)}, metadata)
           <=> \A root \in {"data"} \cup metadata.tablespaces :
                 \E extension \in compressionExtensions(metadata.compression) :
                   [root |-> root, part |-> 0, extension |-> extension] \in keys
<1> DEFINE exts == compressionExtensions(metadata.compression)
           name(root, ext) == [root |-> root, part |-> 0, extension |-> ext]
<1>1. ExpectedRoots(metadata) = {"data"} \cup metadata.tablespaces
  BY DEF ExpectedRoots
<1>2. ExpectedRoots(metadata) \subseteq Roots /\ exts \subseteq Extensions
  BY DEF ExpectedRoots, Metadata, Roots, compressionExtensions, Extensions
<1> HIDE DEF exts
<1>3. ASSUME NEW k \in keys, IsArtifact(k, metadata), k.part = 0
      PROVE  k = name(k.root, k.extension) /\ k.extension \in exts
  <2>1. k \in ArtifactName
    BY <1>3, KeysAssumption DEF IsArtifact
  <2> QED
    BY <1>3, <2>1 DEF ArtifactName, IsArtifact, exts
<1>4. ASSUME NEW root \in ExpectedRoots(metadata), NEW ext \in exts, name(root, ext) \in keys
      PROVE  /\ IsArtifact(name(root, ext), metadata)
             /\ name(root, ext).root = root /\ name(root, ext).part = 0
  <2>1. name(root, ext) \in ArtifactName
    BY <1>2 DEF ArtifactName
  <2>2. name(root, ext) # MetadataKey
    BY <2>1, KeysAssumption
  <2> QED
    BY <2>2 DEF IsArtifact, exts
<1>5. ASSUME NEW root \in ExpectedRoots(metadata)
      PROVE  containsArtifactRoot({k \in keys : IsArtifact(k, metadata)}, root)
               <=> \E ext \in exts : name(root, ext) \in keys
  <2>1. ASSUME containsArtifactRoot({k \in keys : IsArtifact(k, metadata)}, root)
        PROVE  \E ext \in exts : name(root, ext) \in keys
    <3>1. PICK k \in keys : IsArtifact(k, metadata) /\ k.root = root /\ k.part = 0
      BY <2>1 DEF containsArtifactRoot
    <3>2. k = name(root, k.extension) /\ k.extension \in exts
      BY <1>3, <3>1
    <3> QED
      BY <3>2
  <2>2. ASSUME NEW ext \in exts, name(root, ext) \in keys
        PROVE  containsArtifactRoot({k \in keys : IsArtifact(k, metadata)}, root)
    BY <1>4, <2>2 DEF containsArtifactRoot
  <2> QED
    BY <2>1, <2>2
<1> HIDE DEF name
<1>6. ~Missing({k \in keys : IsArtifact(k, metadata)}, metadata)
        <=> \A root \in ExpectedRoots(metadata) : \E ext \in exts : name(root, ext) \in keys
  BY <1>5 DEF Missing
<1> QED
  BY <1>1, <1>6 DEF exts, name

-----------------------------------------------------------------------------
LEMMA InitEstablishes == Init => BackupInv
<1> SUFFICES ASSUME Init PROVE BackupInv
  OBVIOUS
<1>1. TypeOK
  <2>1. Len(Keys) \in Nat /\ 0 \in 0..Len(Keys)
    BY KeysAssumption
  <2>2. store \subseteq Range(Keys) /\ MetadataKey \notin store
    BY KeysAssumption DEF Init
  <2>3. listing \in Seq(Range(Keys)) /\ todo \subseteq DOMAIN listing /\ seen \subseteq Range(listing)
    BY DEF Init
  <2> QED
    BY <2>1, <2>2, <2>3 DEF Init, TypeOK
<1>2. JobInv
  BY ValuesAssumption DEF Init, JobInv
<1>3. VerdictInv /\ ConfirmInv
  BY StatesDiffer DEF Init, VerdictInv, ConfirmInv
<1>4. SettledInv
  BY DEF Init, SettledInv
<1> QED
  BY <1>1, <1>2, <1>3, <1>4 DEF BackupInv

(* The job and retention do not disturb what an analysis has confirmed.    *)
LEMMA DirectoryStep ==
  ASSUME BackupInv, Change, TypeOK', JobInv', VerdictInv',
         store \cup deleted \subseteq store' \cup deleted'
  PROVE  BackupInv'
<1>1. /\ UNCHANGED <<pc, position, listing, copy, todo, seen, verdict, disturbed>>
      /\ changed' = TRUE
  BY DEF Change, analysis
<1>2. ConfirmInv'
  <2>1. \A root : Found(root, store \cup deleted) => Found(root, store' \cup deleted')
    BY DEF Found
  <2>2. \A root : Found(root, store \cup deleted \cup {listing[i] : i \in todo})
          => Found(root, store' \cup deleted' \cup {listing[i] : i \in todo})
    BY DEF Found
  <2>3. ExpectedRoots(copy)' = ExpectedRoots(copy)
    BY <1>1
  <2> QED
    BY <1>1, <2>1, <2>2, <2>3 DEF BackupInv, ConfirmInv
<1>3. SettledInv'
  BY <1>1 DEF SettledInv
<1> QED
  BY <1>2, <1>3 DEF BackupInv

LEMMA SaysFacts ==
  ASSUME job \in Plans, NEW status \in Status
  PROVE  Says(status) \in Metadata /\ Says(status).status = status
BY PlansAssumption DEF Says, Metadata

LEMMA JobStep ==
  ASSUME BackupInv, StartBackup \/ AnnounceBackup \/ Upload \/ EndBackup
  PROVE  BackupInv'
<1>1. TypeOK /\ JobInv /\ VerdictInv
  BY DEF BackupInv
<1>2. CASE StartBackup
  <2>1. TypeOK'
    BY <1>1, <1>2 DEF StartBackup, Change, analysis, TypeOK
  <2>2. JobInv' /\ VerdictInv'
    BY <1>1, <1>2 DEF StartBackup, Change, analysis, JobInv, VerdictInv
  <2> QED
    BY <1>2, <2>1, <2>2, DirectoryStep DEF StartBackup
<1>3. ASSUME job \in Plans, jobState = "running", jobState' \in {"running", "ended"}, job' = job,
             NEW content \in Metadata \cup {Malformed}, PutMetadata(content),
             content \in Metadata /\ content.status = "DONE" =>
               jobState' = "ended" /\ job.artifacts \subseteq store,
             Change, deleted' = deleted
      PROVE  BackupInv'
  <2>1. store' = store \cup {MetadataKey} /\ info' = content /\ content # NoMetadata
    BY <1>3, ValuesAssumption DEF PutMetadata
  <2>2. TypeOK'
    BY <1>1, <1>3, <2>1, KeysAssumption DEF Change, analysis, TypeOK
  <2>3. JobInv'
    BY <1>3, <2>1 DEF JobInv
  <2>4. VerdictInv'
    BY <1>1, <1>3 DEF VerdictInv, Change, analysis
  <2> QED
    BY <1>3, <2>1, <2>2, <2>3, <2>4, DirectoryStep
<1>4. CASE AnnounceBackup
  <2>1. job \in Plans
    BY <1>1, <1>4 DEF AnnounceBackup, JobInv
  <2>2. Says("STARTED") \in Metadata /\ Says("STARTED").status = "STARTED"
    BY <2>1, SaysFacts DEF Status
  <2> QED
    BY <1>3, <1>4, <2>1, <2>2 DEF AnnounceBackup
<1>5. CASE Upload
  <2>1. job \in Plans
    BY <1>1, <1>5 DEF Upload, JobInv
  <2>2. PICK key \in job.artifacts \ store : store' = store \cup {key}
    BY <1>5 DEF Upload
  <2>3. key \in Range(Keys) /\ key # MetadataKey
    BY <2>1, <2>2, PlansAssumption
  <2>4. TypeOK'
    BY <1>1, <1>5, <2>2, <2>3 DEF Upload, Change, analysis, TypeOK
  <2>5. JobInv' /\ VerdictInv'
    BY <1>1, <1>5, <2>2 DEF Upload, Change, analysis, JobInv, VerdictInv
  <2> QED
    BY <1>5, <2>2, <2>4, <2>5, DirectoryStep DEF Upload
<1>6. CASE EndBackup
  <2>1. job \in Plans /\ jobState = "running" /\ jobState' = "ended" /\ job' = job /\ Change
        /\ deleted' = deleted
    BY <1>1, <1>6 DEF EndBackup, JobInv
  <2>2. \A status \in {"DONE", "FAILED", "unrecognized"} :
          Says(status) \in Metadata /\ Says(status).status = status
    BY <2>1, SaysFacts DEF Status
  <2>3. CASE job.artifacts \subseteq store /\ PutMetadata(Says("DONE"))
    BY <1>3, <2>1, <2>2, <2>3
  <2>4. CASE PutMetadata(Says("FAILED"))
    BY <1>3, <2>1, <2>2, <2>4
  <2>5. CASE PutMetadata(Says("unrecognized"))
    BY <1>3, <2>1, <2>2, <2>5
  <2>6. CASE PutMetadata(Malformed)
    BY <1>3, <2>1, <2>6, ValuesAssumption
  <2> QED
    BY <1>6, <2>3, <2>4, <2>5, <2>6 DEF EndBackup
<1> QED
  BY <1>2, <1>4, <1>5, <1>6

LEMMA ExpireStep ==
  ASSUME BackupInv, Expire
  PROVE  BackupInv'
<1>1. PICK key \in store : /\ store' = store \ {key} /\ deleted' = deleted \cup {key}
                           /\ info' = IF key = MetadataKey THEN NoMetadata ELSE info
  BY DEF Expire
<1>2. /\ jobState \in {"ended", "expiring"} /\ jobState' = "expiring" /\ job' = job /\ Change
      /\ TypeOK /\ JobInv /\ VerdictInv
  BY DEF Expire, BackupInv
<1>3. TypeOK'
  BY <1>1, <1>2 DEF Change, analysis, TypeOK
<1>4. JobInv' /\ VerdictInv'
  BY <1>1, <1>2, ValuesAssumption DEF JobInv, VerdictInv, Change, analysis
<1> QED
  BY <1>1, <1>2, <1>3, <1>4, DirectoryStep

-----------------------------------------------------------------------------
(* The steps of the analysis leave the directory alone. *)
LEMMA AnalysisKeeps ==
  ASSUME JobInv, UNCHANGED directory
  PROVE  JobInv'
BY DEF JobInv, directory

LEMMA ClassificationKept ==
  ASSUME UNCHANGED directory
  PROVE  Classification' = Classification
BY DEF Classification, directory

LEMMA PassedFacts ==
  /\ Passed(0) = {}
  /\ Passed(Len(Keys)) = Range(Keys)
  /\ \A n \in Nat : Passed(n + 1) = Passed(n) \cup {Keys[n + 1]}
<1>1. Len(Keys) \in Nat /\ DOMAIN Keys = 1..Len(Keys)
  BY KeysAssumption
<1>2. \A n \in Nat : 1..(n + 1) = (1..n) \cup {n + 1}
  OBVIOUS
<1>3. 1..0 = {}
  OBVIOUS
<1> QED
  BY <1>1, <1>2, <1>3 DEF Passed, Range

LEMMA BeginScanStep ==
  ASSUME BackupInv, BeginScan
  PROVE  BackupInv'
<1>1. TypeOK /\ JobInv /\ VerdictInv /\ UNCHANGED directory /\ UNCHANGED <<todo, verdict>>
  BY DEF BeginScan, BackupInv
<1>2. /\ pc = "idle" /\ pc' = "listing" /\ position' = 0 /\ listing' = <<>>
      /\ copy' = NoMetadata /\ seen' = {} /\ changed' = FALSE /\ disturbed' = FALSE
      /\ deleted' = {}
  BY DEF BeginScan
<1>3. TypeOK'
  <2>1. Len(Keys) \in Nat /\ 0 \in 0..Len(Keys) /\ todo = {}
    BY <1>1, <1>2, KeysAssumption DEF TypeOK
  <2>2. listing' \in Seq(Range(Keys)) /\ todo' \subseteq DOMAIN listing' /\ seen' \subseteq Range(listing')
    BY <1>1, <1>2, <2>1
  <2> QED
    BY <1>1, <1>2, <2>1, <2>2 DEF TypeOK, directory
<1>4. VerdictInv'
  BY <1>1, <1>2 DEF VerdictInv, directory
<1>5. ConfirmInv'
  BY <1>2 DEF ConfirmInv
<1>6. SettledInv'
  <2>1. Range(listing') = {}
    BY <1>2 DEF Range
  <2> QED
    BY <1>2, <2>1, PassedFacts DEF SettledInv
<1> QED
  BY <1>1, <1>3, <1>4, <1>5, <1>6, AnalysisKeeps DEF BackupInv

LEMMA ListKeyStep ==
  ASSUME BackupInv, ListKey
  PROVE  BackupInv'
<1>1. /\ TypeOK /\ JobInv /\ VerdictInv /\ SettledInv /\ UNCHANGED directory
      /\ UNCHANGED <<pc, copy, todo, seen, verdict, changed, disturbed, deleted>>
      /\ pc = "listing" /\ position < Len(Keys) /\ position' = position + 1
  BY DEF ListKey, BackupInv, observed
<1> DEFINE key == Keys[position']
<1>2. Len(Keys) \in Nat /\ position \in Nat /\ position' \in 0..Len(Keys) /\ key \in Range(Keys)
  BY <1>1, KeysAssumption DEF TypeOK, Range
<1> HIDE DEF key
<1>3. todo = {}
  BY <1>1 DEF TypeOK
<1>4. /\ listing' \in Seq(Range(Keys))
      /\ Range(listing') = Range(listing) \cup (store \cap {key})
  <2>1. listing \in Seq(Range(Keys))
    BY <1>1 DEF TypeOK
  <2>2. CASE key \in store
    <3>1. listing' = Append(listing, key)
      BY <2>2 DEF ListKey, key
    <3> QED
      BY <1>2, <2>1, <2>2, <3>1, AppendRange
  <2>3. CASE key \notin store
    <3>1. listing' = listing
      BY <2>3 DEF ListKey, key
    <3> QED
      BY <2>1, <2>3, <3>1
  <2> QED
    BY <2>2, <2>3
<1>5. TypeOK'
  BY <1>1, <1>2, <1>3, <1>4 DEF TypeOK, directory
<1>6. VerdictInv' /\ ConfirmInv'
  BY <1>1 DEF VerdictInv, ConfirmInv, directory
<1>7. SettledInv'
  <2>1. Passed(position') = Passed(position) \cup {key}
    BY <1>1, <1>2, PassedFacts DEF key
  <2> QED
    BY <1>1, <1>4, <2>1 DEF SettledInv, directory
<1> QED
  BY <1>1, <1>5, <1>6, <1>7, AnalysisKeeps DEF BackupInv

LEMMA ListAgainStep ==
  ASSUME BackupInv, ListAgain
  PROVE  BackupInv'
<1>1. /\ TypeOK /\ JobInv /\ VerdictInv /\ UNCHANGED directory
      /\ UNCHANGED <<pc, position, copy, todo, seen, verdict, changed, deleted>>
      /\ pc = "listing" /\ disturbed' = TRUE
  BY DEF ListAgain, BackupInv
<1> DEFINE final == listing[Len(listing)]
<1>2. final \in store /\ listing' = Append(listing, final)
  BY DEF ListAgain
<1> HIDE DEF final
<1>3. final \in Range(Keys) /\ listing \in Seq(Range(Keys)) /\ todo = {}
  BY <1>1, <1>2 DEF TypeOK
<1>4. listing' \in Seq(Range(Keys)) /\ Range(listing') = Range(listing) \cup {final}
  BY <1>2, <1>3, AppendRange
<1>5. TypeOK'
  BY <1>1, <1>3, <1>4 DEF TypeOK, directory
<1>6. VerdictInv' /\ ConfirmInv' /\ SettledInv'
  BY <1>1 DEF VerdictInv, ConfirmInv, SettledInv, directory
<1> QED
  BY <1>1, <1>5, <1>6, AnalysisKeeps DEF BackupInv

(* An analysis that concludes anything but healthy. *)
LEMMA ConcludeStep ==
  ASSUME BackupInv, UNCHANGED <<directory, position, listing, seen>>,
         pc \in {"listing", "read", "stat"}, copy' \in Metadata \cup {NoMetadata},
         changed' = changed, disturbed' \in BOOLEAN, deleted' \subseteq Range(Keys),
         NEW state \in (State \cup {NoState}) \ {Healthy}, Conclude(state),
         ~changed /\ ~disturbed' => state = Classification
  PROVE  BackupInv'
<1>1. /\ TypeOK /\ JobInv /\ VerdictInv
      /\ pc' = "idle" /\ verdict' = state /\ todo' = {}
  BY DEF BackupInv, Conclude
<1>2. TypeOK'
  BY <1>1 DEF TypeOK, directory
<1>3. VerdictInv' /\ ConfirmInv'
  BY <1>1 DEF VerdictInv, ConfirmInv
<1>4. SettledInv'
  BY <1>1, ClassificationKept DEF SettledInv
<1> QED
  BY <1>1, <1>2, <1>3, <1>4, AnalysisKeeps DEF BackupInv, directory

LEMMA CompleteListingStep ==
  ASSUME BackupInv, CompleteListing
  PROVE  BackupInv'
<1>1. /\ TypeOK /\ JobInv /\ VerdictInv /\ SettledInv
      /\ UNCHANGED directory /\ UNCHANGED <<position, listing, copy, seen, changed, disturbed, deleted>>
      /\ pc = "listing" /\ position = Len(Keys)
  BY DEF CompleteListing, BackupInv, observed
<1>2. ASSUME ~changed, ~disturbed PROVE Range(listing) = store
  <2>1. Range(listing) = store \cap Passed(position)
    BY <1>1, <1>2 DEF SettledInv
  <2>2. Passed(position) = Range(Keys)
    BY <1>1, PassedFacts
  <2>3. store \subseteq Range(Keys)
    BY <1>1 DEF TypeOK
  <2> QED
    BY <2>1, <2>2, <2>3
<1>3. CASE MetadataKey \in Range(listing)
  <2>1. pc' = "read" /\ UNCHANGED <<verdict, todo>>
    BY <1>3 DEF CompleteListing
  <2>2. TypeOK'
    BY <1>1, <2>1 DEF TypeOK, directory
  <2>3. VerdictInv' /\ ConfirmInv'
    BY <1>1, <2>1 DEF VerdictInv, ConfirmInv, directory
  <2>4. SettledInv'
    BY <1>1, <1>2, <1>3, <2>1 DEF SettledInv, directory
  <2> QED
    BY <1>1, <2>2, <2>3, <2>4, AnalysisKeeps DEF BackupInv
<1>4. CASE MetadataKey \notin Range(listing)
  <2> DEFINE state == IF listing = <<>> THEN NoState ELSE Unknown
  <2>1. Conclude(state)
    BY <1>4 DEF CompleteListing
  <2>2. state \in (State \cup {NoState}) \ {Healthy}
    BY StatesDiffer
  <2>3. ASSUME ~changed, ~disturbed PROVE state = Classification
    <3>1. Range(listing) = store
      BY <1>2, <2>3
    <3>2. listing = <<>> <=> store = {}
      <4>1. listing \in Seq(Range(Keys))
        BY <1>1 DEF TypeOK
      <4>2. CASE listing = <<>>
        BY <3>1, <4>2 DEF Range
      <4>3. CASE listing # <<>>
        <5>1. 1 \in DOMAIN listing
          BY <4>1, <4>3
        <5> QED
          BY <3>1, <4>3, <5>1 DEF Range
      <4> QED
        BY <4>2, <4>3
    <3>3. info = NoMetadata
      BY <1>1, <1>4, <3>1 DEF TypeOK
    <3> QED
      BY <3>2, <3>3 DEF Classification
  <2> HIDE DEF state
  <2>4. copy' \in Metadata \cup {NoMetadata} /\ disturbed' \in BOOLEAN /\ deleted' \subseteq Range(Keys)
    BY <1>1 DEF TypeOK
  <2> QED
    BY <1>1, <2>1, <2>2, <2>3, <2>4, ConcludeStep
<1> QED
  BY <1>3, <1>4

(* A request of the analysis failed, or backup.info does not parse. *)
LEMMA FailureStep ==
  ASSUME BackupInv, ReadFails \/ ReadMalformed \/ StatFails
  PROVE  BackupInv'
<1>1. TypeOK /\ SettledInv
  BY DEF BackupInv
<1>2. Unknown \in (State \cup {NoState}) \ {Healthy}
  BY StatesDiffer
<1>3. /\ Conclude(Unknown) /\ UNCHANGED directory
      /\ UNCHANGED <<position, listing, copy, seen, changed, deleted>>
      /\ pc \in {"read", "stat"}
  BY DEF ReadFails, ReadMalformed, StatFails, observed
<1>4. \/ disturbed' = TRUE
      \/ disturbed' = disturbed /\ pc = "read" /\ info = Malformed
  BY DEF ReadFails, ReadMalformed, StatFails, observed
<1>5. ASSUME ~changed, ~disturbed' PROVE Unknown = Classification
  <2>1. ~disturbed /\ pc = "read" /\ info = Malformed
    BY <1>4, <1>5
  <2>2. store # {}
    BY <1>1, <1>5, <2>1 DEF SettledInv
  <2> QED
    BY <2>1, <2>2 DEF Classification
<1>6. copy' \in Metadata \cup {NoMetadata} /\ disturbed' \in BOOLEAN /\ deleted' \subseteq Range(Keys)
  BY <1>1, <1>3, <1>4 DEF TypeOK
<1> QED
  BY <1>2, <1>3, <1>5, <1>6, ConcludeStep

(* What readBackup says of the metadata, apart from validation. *)
LEMMA ReadFacts ==
  ASSUME NEW metadata \in Metadata
  PROVE  /\ readBackup(metadata) # "awaiting" =>
              readBackup(metadata) \in {Warning, Unhealthy, Unknown}
         /\ readBackup(metadata) = "awaiting" =>
              /\ metadata.status = "DONE" /\ metadata.supportedType
              /\ metadata.compression # "unrecognized"
<1>1. /\ metadata.status \in Status /\ metadata.compression \in Compression
      /\ metadata.supportedType \in BOOLEAN
  BY DEF Metadata
<1> QED
  BY <1>1 DEF readBackup, supportedCompression, Status, Warning, Unhealthy, Unknown

(* In a directory that holds still, what is read, and what is missing,     *)
(* give the documented classification.                                     *)
LEMMA ReadIsClassified ==
  ASSUME info \in Metadata, store \subseteq Range(Keys), store # {},
         info \notin {NoMetadata, Malformed}
  PROVE  /\ readBackup(info) # "awaiting" => Classification = readBackup(info)
         /\ readBackup(info) = "awaiting" =>
              Classification = IF Missing({k \in store : IsArtifact(k, info)}, info)
                               THEN Unhealthy ELSE Healthy
<1> DEFINE exact == \A root \in {"data"} \cup info.tablespaces :
                      \E extension \in compressionExtensions(info.compression) :
                        [root |-> root, part |-> 0, extension |-> extension] \in store
           missing == Missing({k \in store : IsArtifact(k, info)}, info)
<1>1. ~missing <=> exact
  BY MissingIsExact
<1>2. /\ info.status \in Status /\ info.compression \in Compression
      /\ info.supportedType \in BOOLEAN
  BY DEF Metadata
<1>3. Classification =
        IF \/ info.status = "unrecognized"
           \/ ~info.supportedType
           \/ info.compression = "unrecognized" THEN Unknown
        ELSE CASE info.status = "FAILED"  -> Unhealthy
               [] info.status = "STARTED" -> Warning
               [] info.status = "DONE"    -> IF exact THEN Healthy ELSE Unhealthy
  BY DEF Classification
<1> HIDE DEF exact, missing
<1>4. readBackup(info) # "awaiting" => Classification = readBackup(info)
  BY <1>2, <1>3 DEF readBackup, supportedCompression, Status, Warning, Unhealthy, Unknown
<1>5. readBackup(info) = "awaiting" => Classification = IF missing THEN Unhealthy ELSE Healthy
  <2> SUFFICES ASSUME readBackup(info) = "awaiting"
               PROVE  Classification = IF missing THEN Unhealthy ELSE Healthy
    OBVIOUS
  <2>1. info.status = "DONE" /\ info.supportedType /\ info.compression # "unrecognized"
    BY ReadFacts
  <2> QED
    BY <1>1, <1>3, <2>1
<1> QED
  BY <1>4, <1>5 DEF missing

LEMMA ReadMetadataStep ==
  ASSUME BackupInv, ReadMetadata
  PROVE  BackupInv'
<1> DEFINE state     == readBackup(info)
           artifacts == Artifacts(listing, info)
           found     == {listing[i] : i \in artifacts}
<1>1. /\ TypeOK /\ JobInv /\ VerdictInv /\ SettledInv
      /\ UNCHANGED directory /\ UNCHANGED <<position, listing, seen, changed, disturbed>>
      /\ pc = "read" /\ info \in Metadata /\ copy' = info /\ deleted' = {}
      /\ listing \in Seq(Range(Keys))
  BY DEF ReadMetadata, BackupInv, TypeOK
<1>2. /\ artifacts \subseteq DOMAIN listing
      /\ found = {k \in Range(listing) : IsArtifact(k, info)}
      /\ ~Missing(found, info) =>
           artifacts # {} /\ \A root \in ExpectedRoots(info) : Found(root, found)
  BY <1>1, ArtifactFacts
<1>3. ASSUME ~changed, ~disturbed
      PROVE  /\ Range(listing) = store
             /\ state # "awaiting" => Classification = state
             /\ state = "awaiting" =>
                  Classification = IF Missing(found, info) THEN Unhealthy ELSE Healthy
  <2>1. Range(listing) = store /\ store # {}
    BY <1>1, <1>3 DEF SettledInv
  <2>2. store \subseteq Range(Keys) /\ info \notin {NoMetadata, Malformed}
    BY <1>1, ValuesAssumption DEF TypeOK
  <2>3. found = {k \in store : IsArtifact(k, info)}
    BY <1>2, <2>1
  <2> HIDE DEF found
  <2> QED
    BY <1>1, <2>1, <2>2, <2>3, ReadIsClassified
<1>4. /\ state # "awaiting" => state \in {Warning, Unhealthy, Unknown}
      /\ state = "awaiting" => info.status = "DONE"
  BY <1>1, ReadFacts
<1>5. CASE state = "awaiting" /\ ~Missing(found, info)
  <2>1. pc' = "stat" /\ todo' = artifacts /\ verdict' = verdict
    BY <1>5 DEF ReadMetadata
  <2>2. artifacts # {} /\ \A root \in ExpectedRoots(info) : Found(root, found)
    BY <1>2, <1>5
  <2>3. TypeOK'
    <3> HIDE DEF artifacts
    <3> QED
      BY <1>1, <1>2, <2>1, <2>2 DEF TypeOK, directory
  <2>4. VerdictInv'
    <3>1. jobState \in {"ended", "expiring"} /\ info.status = "DONE"
      BY <1>1, <1>4, <1>5 DEF JobInv
    <3> QED
      BY <1>1, <3>1 DEF VerdictInv, directory
  <2>5. ConfirmInv'
    <3>1. {listing'[i] : i \in todo'} = found
      BY <1>1, <2>1
    <3>2. \A root \in ExpectedRoots(info) :
            Found(root, store' \cup deleted' \cup {listing'[i] : i \in todo'})
      <4> HIDE DEF found
      <4> QED
        BY <2>2, <3>1 DEF Found
    <3>3. ExpectedRoots(copy') = ExpectedRoots(info)
      BY <1>1
    <3> HIDE DEF state, found
    <3> QED
      BY <1>1, <1>4, <1>5, <2>1, <3>2, <3>3 DEF ConfirmInv
  <2>6. SettledInv'
    <3> HIDE DEF state, found
    <3> QED
      BY <1>1, <1>3, <1>5, <2>1, ClassificationKept DEF SettledInv, directory
  <2> QED
    BY <1>1, <2>3, <2>4, <2>5, <2>6, AnalysisKeeps DEF BackupInv
<1>6. CASE ~(state = "awaiting" /\ ~Missing(found, info))
  <2> DEFINE said == IF state = "awaiting" THEN Unhealthy ELSE state
  <2>1. Conclude(said)
    BY <1>6 DEF ReadMetadata
  <2> HIDE DEF state, found
  <2>2. said \in (State \cup {NoState}) \ {Healthy}
    BY <1>4, StatesDiffer
  <2>3. ~changed /\ ~disturbed' => said = Classification
    BY <1>1, <1>3, <1>6
  <2> HIDE DEF said
  <2>4. /\ copy' \in Metadata \cup {NoMetadata} /\ disturbed' \in BOOLEAN
        /\ deleted' \subseteq Range(Keys)
    BY <1>1 DEF TypeOK
  <2> QED
    BY <1>1, <2>1, <2>2, <2>3, <2>4, ConcludeStep
<1> QED
  BY <1>5, <1>6

LEMMA StatStep ==
  ASSUME BackupInv, StatArtifact
  PROVE  BackupInv'
<1>1. /\ TypeOK /\ JobInv /\ VerdictInv /\ ConfirmInv /\ SettledInv
      /\ UNCHANGED directory /\ UNCHANGED <<position, listing, copy, changed, disturbed, deleted>>
      /\ pc = "stat"
  BY DEF StatArtifact, BackupInv, observed
<1>2. PICK i \in todo :
        /\ listing[i] \in store
        /\ seen' = seen \cup {listing[i]}
        /\ IF todo = {i} THEN Conclude(Healthy)
                         ELSE todo' = todo \ {i} /\ UNCHANGED <<pc, verdict>>
  BY DEF StatArtifact
<1>3. listing[i] \in Range(listing)
  BY <1>1, <1>2 DEF TypeOK, Range
(* What is to be confirmed after the step was before, or is in the store. *)
<1>4. /\ copy \in Metadata /\ copy.status = "DONE"
      /\ \A root \in ExpectedRoots(copy) :
           Found(root, store \cup deleted \cup {listing[j] : j \in todo \ {i}})
  <2>1. /\ copy \in Metadata /\ copy.status = "DONE"
        /\ \A root \in ExpectedRoots(copy) :
             Found(root, store \cup deleted \cup {listing[j] : j \in todo})
    BY <1>1 DEF ConfirmInv
  <2>2. store \cup deleted \cup {listing[j] : j \in todo}
          = store \cup deleted \cup {listing[j] : j \in todo \ {i}}
    BY <1>2
  <2> QED
    BY <2>1, <2>2
<1>5. CASE todo = {i}
  <2>1. pc' = "idle" /\ verdict' = Healthy /\ todo' = {}
    BY <1>2, <1>5 DEF Conclude
  <2>2. TypeOK'
    BY <1>1, <1>2, <1>3, <2>1, StatesDiffer DEF TypeOK, directory
  <2>3. VerdictInv'
    BY <1>1 DEF VerdictInv, directory
  <2>4. ConfirmInv'
    <3>1. store \cup deleted \cup {listing[j] : j \in todo \ {i}} = store' \cup deleted'
      BY <1>1, <1>5 DEF directory
    <3>2. ExpectedRoots(copy') = ExpectedRoots(copy)
      BY <1>1
    <3> QED
      BY <1>1, <1>4, <2>1, <3>1, <3>2 DEF ConfirmInv
  <2>5. SettledInv'
    BY <1>1, <2>1, ClassificationKept DEF SettledInv
  <2> QED
    BY <1>1, <2>2, <2>3, <2>4, <2>5, AnalysisKeeps DEF BackupInv
<1>6. CASE todo # {i}
  <2>1. todo' = todo \ {i} /\ UNCHANGED <<pc, verdict>> /\ todo' # {}
    BY <1>2, <1>6
  <2>2. TypeOK'
    BY <1>1, <1>2, <1>3, <2>1 DEF TypeOK, directory
  <2>3. VerdictInv'
    BY <1>1, <2>1 DEF VerdictInv, directory
  <2>4. ConfirmInv'
    <3>1. store \cup deleted \cup {listing[j] : j \in todo \ {i}}
            = store' \cup deleted' \cup {listing'[j] : j \in todo'}
      BY <1>1, <2>1 DEF directory
    <3>2. ExpectedRoots(copy') = ExpectedRoots(copy)
      BY <1>1
    <3> QED
      BY <1>1, <1>4, <2>1, <3>1, <3>2 DEF ConfirmInv
  <2>5. SettledInv'
    BY <1>1, <2>1, ClassificationKept DEF SettledInv, directory
  <2> QED
    BY <1>1, <2>2, <2>3, <2>4, <2>5, AnalysisKeeps DEF BackupInv
<1> QED
  BY <1>5, <1>6

-----------------------------------------------------------------------------
LEMMA NextPreserves == BackupInv /\ [Next]_vars => BackupInv'
<1> SUFFICES ASSUME BackupInv, [Next]_vars PROVE BackupInv'
  OBVIOUS
<1>1. CASE StartBackup \/ AnnounceBackup \/ Upload \/ EndBackup
  BY <1>1, JobStep
<1>2. CASE Expire
  BY <1>2, ExpireStep
<1>3. CASE BeginScan
  BY <1>3, BeginScanStep
<1>4. CASE ListKey
  BY <1>4, ListKeyStep
<1>5. CASE ListAgain
  BY <1>5, ListAgainStep
<1>6. CASE CompleteListing
  BY <1>6, CompleteListingStep
<1>7. CASE ReadFails \/ ReadMalformed \/ StatFails
  BY <1>7, FailureStep
<1>8. CASE ReadMetadata
  BY <1>8, ReadMetadataStep
<1>9. CASE StatArtifact
  BY <1>9, StatStep
<1>10. CASE UNCHANGED vars
  <2>1. /\ UNCHANGED <<store, info, job, jobState>>
        /\ UNCHANGED <<pc, position, listing, copy, todo, seen, verdict>>
        /\ UNCHANGED <<changed, disturbed, deleted>>
    BY <1>10 DEF vars, directory, analysis, observed
  <2>2. TypeOK' /\ JobInv' /\ VerdictInv'
    BY <2>1 DEF BackupInv, TypeOK, JobInv, VerdictInv
  <2>3. ConfirmInv'
    BY <2>1 DEF BackupInv, ConfirmInv
  <2>4. SettledInv'
    BY <2>1, ClassificationKept DEF BackupInv, SettledInv, directory
  <2> QED
    BY <2>2, <2>3, <2>4 DEF BackupInv
<1> QED
  BY <1>1, <1>2, <1>3, <1>4, <1>5, <1>6, <1>7, <1>8, <1>9, <1>10 DEF Next

(* The inductive invariant of the analysis of a backup: what it has read,  *)
(* confirmed and concluded stands in the stated relation to the directory, *)
(* whatever the job and retention did meanwhile.                           *)
THEOREM BackupIsConsistent == Spec => []BackupInv
BY InitEstablishes, NextPreserves, PTL DEF Spec

(* An undisturbed analysis gives the documented classification of the      *)
(* backup (Analyze, readBackup, structuralState).                          *)
THEOREM VerdictSettled == Spec => []SettledVerdict
<1>1. BackupInv => SettledVerdict
  BY DEF BackupInv, SettledInv, SettledVerdict
<1> QED
  BY <1>1, BackupIsConsistent, PTL

(* Before retention begins, a backup called healthy is done, and all that  *)
(* its job uploaded is there (structuralState).                            *)
THEOREM HealthyComplete == Spec => []HealthyIsComplete
<1>1. BackupInv => HealthyIsComplete
  BY DEF BackupInv, JobInv, VerdictInv, HealthyIsComplete, Analyzed
<1> QED
  BY <1>1, BackupIsConsistent, PTL

(* A backup called healthy had the archive of each of its roots after its  *)
(* backup.info was read, whatever retention deletes (structuralState).     *)
THEOREM HealthyConfirmed == Spec => []HealthyIsConfirmed
<1>1. BackupInv => HealthyIsConfirmed
  BY DEF BackupInv, ConfirmInv, HealthyIsConfirmed, Analyzed, Found, ExpectedRoots
<1> QED
  BY <1>1, BackupIsConsistent, PTL

=============================================================================
