---------------------------- MODULE Server_proofs ----------------------------
(***************************************************************************)
(* The types and the safety invariants of Server, for any number of jobs   *)
(* and assets, any capacity, any retention times and any bound on clock    *)
(* and restarts. The invariants lean on each other, so they are proved     *)
(* together: each lemma below shows that a step keeps one of them, given   *)
(* those it needs.                                                         *)
(*                                                                         *)
(* At the end the server is shown to implement the abstract service: every *)
(* step of Server is, in what clients can tell, a step of JobService or    *)
(* none.                                                                   *)
(***************************************************************************)
EXTENDS Server, SequenceTheorems, TLAPS

\* Removing one entry of a FIFO leaves a FIFO of the same jobs.
LEMMA RemoveAtType ==
  ASSUME NEW S, NEW s \in Seq(S), NEW i \in DOMAIN s
  PROVE  RemoveAt(s, i) \in Seq(S)
BY DEF RemoveAt

\* Unlinking files of a directory leaves a directory.
LEMMA WithoutType ==
  ASSUME NEW S, NEW files \in [S -> Time], NEW ids
  PROVE  Without(files, ids) \in [S -> Time]
BY DEF Without, Time, Never

\* A sweep that ran to its end or not: whatever it unlinked was there to be unlinked.
SweptAny ==
  \E jobs \in SUBSET JobIds, assets \in SUBSET StaleAssets, partials \in SUBSET OldTmp,
     published \in SUBSET OldOutputs, uploads \in SUBSET OldAssets :
    Swept(jobs, assets, partials, published, uploads)

\* Every sweep, whole or aborted, is one of these.
LEMMA SweptPart == Sweep \/ SweepAborts => SweptAny
<1>1. ASSUME Sweep PROVE SweptAny
      BY <1>1 DEF Sweep, SweptAny
<1>2. ASSUME SweepAborts PROVE SweptAny
      BY <1>2 DEF SweepAborts, SweptAny
<1> QED BY <1>1, <1>2

\* The statuses handlers set are statuses.
LEMMA StatusFacts ==
  /\ {"queued", "loading", "complete", "failed", "cancelled", "expired"} \subseteq JobStatus
  /\ TERMINAL \subseteq JobStatus
  /\ ActiveStages \subseteq JobStatus
BY DEF JobStatus, TERMINAL, ActiveStages

\* What a sweep finds in use it leaves.
LEMMA SweptFiles ==
  ASSUME TypeOK, SweptAny
  PROVE  /\ \A id \in ProtectedTmp : tmp'[id] = tmp[id]
         /\ \A j \in ProtectedOutputs :
              outputs'[j] = outputs[j] \/ (Expirable(j) /\ status'[j] = "expired")
         /\ \A a \in AssetIds : records[a] # Never /\ ~Stale(a) =>
              records'[a] = records[a] /\ assetFiles'[a] = assetFiles[a]
<1> USE DEF TypeOK, StorageTypeOK, AssetTypeOK, JobTypeOK
<1> PICK jobs \in SUBSET JobIds, assets \in SUBSET StaleAssets, partials \in SUBSET OldTmp,
         published \in SUBSET OldOutputs, uploads \in SUBSET OldAssets :
      Swept(jobs, assets, partials, published, uploads)
    BY DEF SweptAny
<1>1. /\ ProtectedTmp \cap partials = {}
      /\ ProtectedOutputs \cap published = {}
      /\ ProtectedAssets \cap uploads = {}
      BY DEF OldTmp, OldOutputs, OldAssets, Old
<1>2. \A id \in ProtectedTmp : tmp'[id] = tmp[id]
      BY <1>1 DEF Swept, Without, ProtectedTmp
<1>3. \A j \in ProtectedOutputs :
        outputs'[j] = outputs[j] \/ (Expirable(j) /\ status'[j] = "expired")
  <2> SUFFICES ASSUME NEW j \in ProtectedOutputs
               PROVE  outputs'[j] = outputs[j] \/ (Expirable(j) /\ status'[j] = "expired")
      OBVIOUS
  <2>1. CASE j \in jobs /\ Expirable(j)
        BY <2>1 DEF Swept, ProtectedOutputs, Expirable
  <2>2. CASE ~(j \in jobs /\ Expirable(j))
    <3> DEFINE removed == {k \in jobs : Expirable(k)} \cup published
    <3>1. outputs' = Without(outputs, removed)
          BY DEF Swept
    <3>2. j \in JobIds /\ j \notin removed
          BY <1>1, <2>2 DEF ProtectedOutputs
    <3> QED BY <3>1, <3>2 DEF Without
  <2> QED BY <2>1, <2>2
<1>4. \A a \in AssetIds : records[a] # Never /\ ~Stale(a) =>
        records'[a] = records[a] /\ assetFiles'[a] = assetFiles[a]
      BY <1>1 DEF Swept, Without, ProtectedAssets, StaleAssets
<1> QED BY <1>2, <1>3, <1>4

\* A sweep expires a job, drops its record or leaves it alone.
LEMMA SweptJobs ==
  ASSUME TypeOK, SweptAny, NEW j \in JobIds
  PROVE  /\ UNCHANGED <<now, fresh, uploading, leases, readers, queueVars, lifeVars>>
         /\ \/ /\ status'[j] = status[j] /\ spec'[j] = spec[j]
               /\ expiresAt'[j] = expiresAt[j]
               /\ j \in output' <=> j \in output
            \/ /\ Expirable(j) /\ status'[j] = "expired" /\ spec'[j] = spec[j]
               /\ j \notin output'
            \/ /\ Forgettable(j) /\ status'[j] = "forgotten" /\ spec'[j] = {}
               /\ j \notin output'
BY DEF SweptAny, Swept, TypeOK, JobTypeOK, Expirable, Forgettable

-----------------------------------------------------------------------------
\* Every variable starts with its type.
LEMMA TypeInit == Init => TypeOK
<1> SUFFICES ASSUME Init PROVE TypeOK
    OBVIOUS
<1>1. StorageTypeOK
      BY DEF Init, StorageInit, StorageTypeOK, Time, Never
<1>2. AssetTypeOK
      BY DEF Init, AssetInit, AssetTypeOK, Time, Never
<1>3. JobTypeOK
  <2> USE DEF Init, JobInit
  <2>1. status \in [JobIds -> JobStatus \cup Unrecorded]
        BY DEF Unrecorded
  <2>2. /\ spec \in [JobIds -> SUBSET AssetIds]
        /\ readers \in [JobIds -> Nat]
        /\ {cancel, output, downloaded, deletePending} \subseteq SUBSET JobIds
        OBVIOUS
  <2>3. completedAt \in [JobIds -> Time] /\ expiresAt \in [JobIds -> Time]
        BY DEF Time
  <2>4. /\ pending \in Seq(JobIds)
        /\ running \in JobIds \cup {NoJob}
        /\ worker \in WorkerStates
        /\ worker # "generating"
        BY DEF WorkerStates
  <2>5. accepting \in BOOLEAN /\ wake \in BOOLEAN
        OBVIOUS
  <2> QED BY <2>1, <2>2, <2>3, <2>4, <2>5 DEF JobTypeOK
<1>4. LifeTypeOK
      BY DEF Init, LifeTypeOK
<1> QED BY <1>1, <1>2, <1>3, <1>4 DEF TypeOK

\* Files appear with the clock's time and disappear.
LEMMA StorageTypeStep == TypeOK /\ [Next]_vars => StorageTypeOK'
<1> SUFFICES ASSUME TypeOK, [Next]_vars PROVE StorageTypeOK'
    OBVIOUS
<1> USE StorageAssumption DEF TypeOK, StorageTypeOK, Time, Never
<1>1. ASSUME NEW a \in AssetIds, AssetStep(a) PROVE StorageTypeOK'
      BY <1>1 DEF AssetStep, UploadBegin, UploadChunk, DeleteAsset, Touch, Removed
<1>2. ASSUME NEW a \in AssetIds, UploadEnds(a) PROVE StorageTypeOK'
      BY <1>2 DEF UploadEnds, UploadPublish, UploadFails, PublishAsset, Removed
<1>3. ASSUME NEW j \in JobIds, ResponseEnds(j) PROVE StorageTypeOK'
      BY <1>3 DEF ResponseEnds, EndDownload, Removed
<1>4. ASSUME NEW j \in JobIds, RequestStep(j) PROVE StorageTypeOK'
  <2>1. ASSUME NEW assets \in SUBSET AssetIds, Submit(j, assets), UNCHANGED lifeVars
        PROVE  StorageTypeOK'
        BY <2>1 DEF Submit, storageVars
  <2>2. ASSUME GetExpires(j), UNCHANGED lifeVars PROVE StorageTypeOK'
        BY <2>2 DEF GetExpires, DeleteOutput, Removed
  <2>3. ASSUME BeginDownload(j), UNCHANGED lifeVars PROVE StorageTypeOK'
        BY <2>3 DEF BeginDownload, storageVars
  <2>4. ASSUME BeginDownloadMissing(j), UNCHANGED lifeVars PROVE StorageTypeOK'
        BY <2>4 DEF BeginDownloadMissing, storageVars
  <2>5. ASSUME DeleteQueued(j), UNCHANGED lifeVars PROVE StorageTypeOK'
        BY <2>5 DEF DeleteQueued, DeleteOutput, Removed
  <2>6. ASSUME DeleteRunning(j), UNCHANGED lifeVars PROVE StorageTypeOK'
        BY <2>6 DEF DeleteRunning, storageVars
  <2>7. ASSUME NEW ok, DeleteFinished(j, ok), UNCHANGED lifeVars PROVE StorageTypeOK'
        BY <2>7 DEF DeleteFinished, DeleteOutput, Removed
  <2> QED BY <1>4, <2>1, <2>2, <2>3, <2>4, <2>5, <2>6, <2>7 DEF RequestStep
<1>5. ASSUME WorkerStep PROVE StorageTypeOK'
  <2>1. ASSUME Initialized, UNCHANGED lifeVars PROVE StorageTypeOK'
        BY <2>1 DEF Initialized, storageVars
  <2>2. ASSUME WorkerExits, UNCHANGED lifeVars PROVE StorageTypeOK'
        BY <2>2 DEF WorkerExits, storageVars
  <2>3. ASSUME WorkerSleeps, UNCHANGED lifeVars PROVE StorageTypeOK'
        BY <2>3 DEF WorkerSleeps, storageVars
  <2>4. ASSUME WorkerWakes, UNCHANGED lifeVars PROVE StorageTypeOK'
        BY <2>4 DEF WorkerWakes, storageVars
  <2>5. ASSUME WorkerTakes, UNCHANGED lifeVars PROVE StorageTypeOK'
        BY <2>5 DEF WorkerTakes, Touch
  <2>6. ASSUME WorkerTakesAndFails, UNCHANGED lifeVars PROVE StorageTypeOK'
        BY <2>6 DEF WorkerTakesAndFails, storageVars
  <2> QED BY <1>5, <2>1, <2>2, <2>3, <2>4, <2>5, <2>6 DEF WorkerStep
<1>6. ASSUME BackendProgress PROVE StorageTypeOK'
      BY <1>6 DEF BackendProgress, BackendWrites, ReportStage, Touch, storageVars
<1>7. ASSUME BackendReturns PROVE StorageTypeOK'
  <2>1. ASSUME GenerationCompletes, UNCHANGED lifeVars PROVE StorageTypeOK'
        BY <2>1 DEF GenerationCompletes, PublishOutput, WorkerReleases, Removed
  <2>2. ASSUME NEW ok, GenerationEnds(ok), UNCHANGED lifeVars PROVE StorageTypeOK'
        BY <2>2 DEF GenerationEnds, WorkerReleases, Removed
  <2> QED BY <1>7, <2>1, <2>2 DEF BackendReturns
<1>8. ASSUME SweptAny PROVE StorageTypeOK'
      BY <1>8, WithoutType DEF SweptAny, Swept
<1>9. ASSUME StartServer PROVE StorageTypeOK'
      BY <1>9, WithoutType DEF StartServer, FirstSwept
<1>10. ASSUME StopServer PROVE StorageTypeOK'
      BY <1>10 DEF StopServer, Stop, storageVars
<1>11. ASSUME ProcessEnds PROVE StorageTypeOK'
      BY <1>11 DEF ProcessEnds, storageVars
<1>12. ASSUME Crash PROVE StorageTypeOK'
      BY <1>12 DEF Crash, storageVars
<1>13. ASSUME Tick PROVE StorageTypeOK'
      BY <1>13 DEF Tick, storageVars
<1>14. ASSUME FileVanishes PROVE StorageTypeOK'
      BY <1>14 DEF FileVanishes, Removed
<1>15. ASSUME UNCHANGED vars PROVE StorageTypeOK'
      BY <1>15 DEF vars, storageVars
<1>16. ASSUME StartRaises PROVE StorageTypeOK'
      BY <1>16, WithoutType DEF StartRaises, FirstSwept
<1> QED BY <1>1, <1>2, <1>3, <1>4, <1>5, <1>6, <1>7, <1>8, <1>9, <1>10, <1>11, <1>12,
   <1>13, <1>14, <1>15, <1>16, SweptPart DEF Next

\* Records come and go; leases are taken by jobs and dropped.
LEMMA AssetTypeStep == TypeOK /\ [Next]_vars => AssetTypeOK'
<1> SUFFICES ASSUME TypeOK, [Next]_vars PROVE AssetTypeOK'
    OBVIOUS
<1> USE AssetAssumption DEF TypeOK, AssetTypeOK, StorageTypeOK, Time, Never
<1>1. ASSUME NEW a \in AssetIds, AssetStep(a) PROVE AssetTypeOK'
      BY <1>1 DEF AssetStep, UploadBegin, UploadChunk, DeleteAsset, assetVars
<1>2. ASSUME NEW a \in AssetIds, UploadEnds(a) PROVE AssetTypeOK'
      BY <1>2 DEF UploadEnds, UploadPublish, UploadFails
<1>3. ASSUME NEW j \in JobIds, ResponseEnds(j) PROVE AssetTypeOK'
      BY <1>3 DEF ResponseEnds, EndDownload, assetVars
<1>4. ASSUME NEW j \in JobIds, RequestStep(j) PROVE AssetTypeOK'
  <2>1. ASSUME NEW assets \in SUBSET AssetIds, Submit(j, assets), UNCHANGED lifeVars
        PROVE  AssetTypeOK'
        BY <2>1 DEF Submit, Acquire
  <2>2. ASSUME GetExpires(j), UNCHANGED lifeVars PROVE AssetTypeOK'
        BY <2>2 DEF GetExpires, assetVars
  <2>3. ASSUME BeginDownload(j), UNCHANGED lifeVars PROVE AssetTypeOK'
        BY <2>3 DEF BeginDownload, assetVars
  <2>4. ASSUME BeginDownloadMissing(j), UNCHANGED lifeVars PROVE AssetTypeOK'
        BY <2>4 DEF BeginDownloadMissing, assetVars
  <2>5. ASSUME DeleteQueued(j), UNCHANGED lifeVars PROVE AssetTypeOK'
        BY <2>5 DEF DeleteQueued, Released
  <2>6. ASSUME DeleteRunning(j), UNCHANGED lifeVars PROVE AssetTypeOK'
        BY <2>6 DEF DeleteRunning, KeepSlot
  <2>7. ASSUME NEW ok, DeleteFinished(j, ok), UNCHANGED lifeVars PROVE AssetTypeOK'
        BY <2>7 DEF DeleteFinished, assetVars
  <2> QED BY <1>4, <2>1, <2>2, <2>3, <2>4, <2>5, <2>6, <2>7 DEF RequestStep
<1>5. ASSUME WorkerStep PROVE AssetTypeOK'
  <2>1. ASSUME Initialized, UNCHANGED lifeVars PROVE AssetTypeOK'
        BY <2>1 DEF Initialized, assetVars
  <2>2. ASSUME WorkerExits, UNCHANGED lifeVars PROVE AssetTypeOK'
        BY <2>2 DEF WorkerExits, assetVars
  <2>3. ASSUME WorkerSleeps, UNCHANGED lifeVars PROVE AssetTypeOK'
        BY <2>3 DEF WorkerSleeps, assetVars
  <2>4. ASSUME WorkerWakes, UNCHANGED lifeVars PROVE AssetTypeOK'
        BY <2>4 DEF WorkerWakes, assetVars
  <2>5. ASSUME WorkerTakes, UNCHANGED lifeVars PROVE AssetTypeOK'
        BY <2>5 DEF WorkerTakes, assetVars
  <2>6. ASSUME WorkerTakesAndFails, UNCHANGED lifeVars PROVE AssetTypeOK'
        BY <2>6 DEF WorkerTakesAndFails, Released
  <2> QED BY <1>5, <2>1, <2>2, <2>3, <2>4, <2>5, <2>6 DEF WorkerStep
<1>6. ASSUME BackendProgress PROVE AssetTypeOK'
      BY <1>6 DEF BackendProgress, BackendWrites, ReportStage, assetVars
<1>7. ASSUME BackendReturns PROVE AssetTypeOK'
  <2>1. ASSUME GenerationCompletes, UNCHANGED lifeVars PROVE AssetTypeOK'
        BY <2>1 DEF GenerationCompletes, WorkerReleases, Released
  <2>2. ASSUME NEW ok, GenerationEnds(ok), UNCHANGED lifeVars PROVE AssetTypeOK'
        BY <2>2 DEF GenerationEnds, WorkerReleases, Released
  <2> QED BY <1>7, <2>1, <2>2 DEF BackendReturns
<1>8. ASSUME SweptAny PROVE AssetTypeOK'
      BY <1>8, WithoutType DEF SweptAny, Swept
<1>9. ASSUME StartServer PROVE AssetTypeOK'
      BY <1>9 DEF StartServer, FirstSwept, assetVars
<1>10. ASSUME StopServer PROVE AssetTypeOK'
      BY <1>10 DEF StopServer, Stop, Released
<1>11. ASSUME ProcessEnds PROVE AssetTypeOK'
      BY <1>11 DEF ProcessEnds, MemoryLost
<1>12. ASSUME Crash PROVE AssetTypeOK'
      BY <1>12 DEF Crash, MemoryLost
<1>13. ASSUME Tick PROVE AssetTypeOK'
      BY <1>13 DEF Tick, assetVars
<1>14. ASSUME FileVanishes PROVE AssetTypeOK'
      BY <1>14 DEF FileVanishes, assetVars
<1>15. ASSUME UNCHANGED vars PROVE AssetTypeOK'
      BY <1>15 DEF vars, assetVars
<1>16. ASSUME StartRaises PROVE AssetTypeOK'
      BY <1>16 DEF StartRaises, FirstSwept, Without, assetVars, recordVars
<1> QED BY <1>1, <1>2, <1>3, <1>4, <1>5, <1>6, <1>7, <1>8, <1>9, <1>10, <1>11, <1>12,
   <1>13, <1>14, <1>15, <1>16, SweptPart DEF Next

\* What is left of the job variables when the process has ended.
LEMMA MemoryLostType == TypeOK /\ MemoryLost => JobTypeOK'
<1> SUFFICES ASSUME TypeOK, MemoryLost PROVE JobTypeOK'
    OBVIOUS
<1> USE DEF TypeOK, JobTypeOK, Time, MemoryLost
<1>1. status' \in [JobIds -> JobStatus \cup Unrecorded]
      BY DEF Unrecorded
<1>2. /\ spec' \in [JobIds -> SUBSET AssetIds]
      /\ readers' \in [JobIds -> Nat]
      /\ completedAt' \in [JobIds -> Time]
      /\ expiresAt' \in [JobIds -> Time]
      OBVIOUS
<1>3. ({cancel, output, downloaded, deletePending} \subseteq SUBSET JobIds)'
      OBVIOUS
<1>4. /\ pending' \in Seq(JobIds)
      /\ running' \in JobIds \cup {NoJob}
      /\ worker' \in WorkerStates
      /\ worker' # "generating"
      BY DEF WorkerStates
<1>5. accepting' \in BOOLEAN /\ wake' \in BOOLEAN
      OBVIOUS
<1> QED BY <1>1, <1>2, <1>3, <1>4, <1>5

\* The FIFO stays a sequence of jobs, and a pin is only dropped where there is one.
LEMMA JobTypeStep == TypeOK /\ [Next]_vars => JobTypeOK'
<1> SUFFICES ASSUME TypeOK, [Next]_vars PROVE JobTypeOK'
    OBVIOUS
<1> USE JobAssumption DEF TypeOK, JobTypeOK, StorageTypeOK, Time, Never
<1>1. ASSUME NEW a \in AssetIds, AssetStep(a) PROVE JobTypeOK'
      BY <1>1 DEF AssetStep, jobVars, recordVars, queueVars
<1>2. ASSUME NEW a \in AssetIds, UploadEnds(a) PROVE JobTypeOK'
      BY <1>2 DEF UploadEnds, jobVars, recordVars, queueVars
<1>3. ASSUME NEW j \in JobIds, ResponseEnds(j) PROVE JobTypeOK'
  <2>1. ASSUME NEW successful, NEW ok, EndDownload(j, successful, ok), UNCHANGED lifeVars
        PROVE  JobTypeOK'
    <3>1. Shortened(j) \in Time
          BY JobAssumption DEF Shortened
    <3>2. expiresAt' \in [JobIds -> Time] /\ readers' \in [JobIds -> Nat]
          BY <2>1, <3>1 DEF EndDownload, Pinned
    <3>3. {cancel', output', downloaded', deletePending'} \subseteq SUBSET JobIds
          BY <2>1 DEF EndDownload
    <3> QED BY <2>1, <3>2, <3>3 DEF EndDownload, queueVars
  <2> QED BY <1>3, <2>1 DEF ResponseEnds
<1>4. ASSUME NEW j \in JobIds, RequestStep(j) PROVE JobTypeOK'
  <2>1. ASSUME NEW assets \in SUBSET AssetIds, Submit(j, assets), UNCHANGED lifeVars
        PROVE  JobTypeOK'
        BY <2>1, StatusFacts DEF Submit, SetWake
  <2>2. ASSUME GetExpires(j), UNCHANGED lifeVars PROVE JobTypeOK'
        BY <2>2, StatusFacts DEF GetExpires, Transition, ClearOutput, DeleteOutput,
           queueVars
  <2>3. ASSUME BeginDownload(j), UNCHANGED lifeVars PROVE JobTypeOK'
        BY <2>3 DEF BeginDownload, queueVars
  <2>4. ASSUME BeginDownloadMissing(j), UNCHANGED lifeVars PROVE JobTypeOK'
        BY <2>4, StatusFacts DEF BeginDownloadMissing, Transition, ClearOutput,
           queueVars
  <2>5. ASSUME DeleteQueued(j), UNCHANGED lifeVars PROVE JobTypeOK'
        BY <2>5, StatusFacts, RemoveAtType DEF DeleteQueued, Transition, ClearOutput,
           DeleteOutput
  <2>6. ASSUME DeleteRunning(j), UNCHANGED lifeVars PROVE JobTypeOK'
        BY <2>6 DEF DeleteRunning, KeepSlot
  <2>7. ASSUME NEW ok, DeleteFinished(j, ok), UNCHANGED lifeVars PROVE JobTypeOK'
        BY <2>7, StatusFacts DEF DeleteFinished, Transition, ClearOutput, DeleteOutput,
           AfterDelete, queueVars
  <2> QED BY <1>4, <2>1, <2>2, <2>3, <2>4, <2>5, <2>6, <2>7 DEF RequestStep
<1>5. ASSUME WorkerStep PROVE JobTypeOK'
  <2>1. ASSUME Initialized, UNCHANGED lifeVars PROVE JobTypeOK'
        BY <2>1 DEF Initialized, recordVars, WorkerStates
  <2>2. ASSUME WorkerExits, UNCHANGED lifeVars PROVE JobTypeOK'
        BY <2>2 DEF WorkerExits, recordVars, WorkerStates
  <2>3. ASSUME WorkerSleeps, UNCHANGED lifeVars PROVE JobTypeOK'
        BY <2>3 DEF WorkerSleeps, recordVars, WorkerStates
  <2>4. ASSUME WorkerWakes, UNCHANGED lifeVars PROVE JobTypeOK'
        BY <2>4 DEF WorkerWakes, recordVars, WorkerStates
  <2>5. ASSUME WorkerTakes, UNCHANGED lifeVars PROVE JobTypeOK'
        BY <2>5, StatusFacts DEF WorkerTakes, PopLeft, Transition, WorkerStates
  <2>6. ASSUME WorkerTakesAndFails, UNCHANGED lifeVars PROVE JobTypeOK'
        BY <2>6, StatusFacts DEF WorkerTakesAndFails, PopLeft, Transition
  <2> QED BY <1>5, <2>1, <2>2, <2>3, <2>4, <2>5, <2>6 DEF WorkerStep
<1>6. ASSUME BackendProgress PROVE JobTypeOK'
  <2>1. ASSUME BackendWrites, UNCHANGED lifeVars PROVE JobTypeOK'
        BY <2>1 DEF BackendWrites, jobVars, recordVars, queueVars
  <2>2. ASSUME NEW stage \in ActiveStages, ReportStage(stage), UNCHANGED lifeVars
        PROVE  JobTypeOK'
        BY <2>2, StatusFacts DEF ReportStage, Transition, queueVars
  <2> QED BY <1>6, <2>1, <2>2 DEF BackendProgress
<1>7. ASSUME BackendReturns PROVE JobTypeOK'
  <2>1. ASSUME GenerationCompletes, UNCHANGED lifeVars PROVE JobTypeOK'
        BY <2>1, StatusFacts DEF GenerationCompletes, Transition, WorkerReleases,
           WorkerStates
  <2>2. ASSUME NEW ok, GenerationEnds(ok), UNCHANGED lifeVars PROVE JobTypeOK'
        BY <2>2, StatusFacts DEF GenerationEnds, Transition, WorkerReleases,
           WorkerStates
  <2> QED BY <1>7, <2>1, <2>2 DEF BackendReturns
<1>8. ASSUME SweptAny PROVE JobTypeOK'
      BY <1>8, StatusFacts DEF SweptAny, Swept, queueVars, Unrecorded
<1>9. ASSUME StartServer PROVE JobTypeOK'
      BY <1>9 DEF StartServer, FirstSwept, StartWorker, recordVars, WorkerStates
<1>10. ASSUME StopServer PROVE JobTypeOK'
  <2> USE DEF StopServer, Stop
  <2>1. status' \in [JobIds -> JobStatus \cup Unrecorded] /\ completedAt' \in [JobIds -> Time]
        BY <1>10, StatusFacts
  <2>2. cancel' \subseteq JobIds
        BY <1>10
  <2>3. accepting' \in BOOLEAN /\ wake' \in BOOLEAN
        BY <1>10 DEF SetWake
  <2>4. pending' \in Seq(JobIds)
        BY <1>10
  <2> QED BY <1>10, <2>1, <2>2, <2>3, <2>4
<1>11. ASSUME ProcessEnds PROVE JobTypeOK'
      BY <1>11, MemoryLostType DEF ProcessEnds
<1>12. ASSUME Crash PROVE JobTypeOK'
      BY <1>12, MemoryLostType DEF Crash
<1>13. ASSUME Tick PROVE JobTypeOK'
      BY <1>13 DEF Tick, jobVars, recordVars, queueVars
<1>14. ASSUME FileVanishes PROVE JobTypeOK'
      BY <1>14 DEF FileVanishes, jobVars, recordVars, queueVars
<1>15. ASSUME UNCHANGED vars PROVE JobTypeOK'
      BY <1>15 DEF vars, jobVars, recordVars, queueVars
<1>16. ASSUME StartRaises PROVE JobTypeOK'
      BY <1>16 DEF StartRaises, FirstSwept, Without, assetVars, recordVars
<1> QED BY <1>1, <1>2, <1>3, <1>4, <1>5, <1>6, <1>7, <1>8, <1>9, <1>10, <1>11, <1>12,
   <1>13, <1>14, <1>15, <1>16, SweptPart DEF Next

-----------------------------------------------------------------------------
\* Only starts, ends and the operating system touch the lifespan's own variables.
LEMMA LifeTypeStep == TypeOK /\ [Next]_vars => LifeTypeOK'
<1> SUFFICES ASSUME TypeOK, [Next]_vars PROVE LifeTypeOK'
    OBVIOUS
<1> USE DEF TypeOK, LifeTypeOK
<1>1. ASSUME NEW a \in AssetIds, AssetStep(a) \/ UploadEnds(a) PROVE LifeTypeOK'
      BY <1>1 DEF AssetStep, UploadEnds, lifeVars
<1>2. ASSUME NEW j \in JobIds, RequestStep(j) \/ ResponseEnds(j) PROVE LifeTypeOK'
      BY <1>2 DEF RequestStep, ResponseEnds, lifeVars
<1>3. ASSUME WorkerStep \/ BackendProgress \/ BackendReturns PROVE LifeTypeOK'
      BY <1>3 DEF WorkerStep, BackendProgress, BackendReturns, lifeVars
<1>4. ASSUME SweptAny PROVE LifeTypeOK'
      BY <1>4 DEF SweptAny, Swept, lifeVars
<1>5. ASSUME StartServer \/ StartRaises PROVE LifeTypeOK'
      BY <1>5, ServerAssumption DEF StartServer, StartRaises, FirstSwept
<1>6. ASSUME StopServer \/ ProcessEnds \/ Crash PROVE LifeTypeOK'
      BY <1>6 DEF StopServer, ProcessEnds, Crash
<1>7. ASSUME Tick PROVE LifeTypeOK'
      BY <1>7 DEF Tick, lifeVars
<1>8. ASSUME FileVanishes PROVE LifeTypeOK'
      BY <1>8 DEF FileVanishes
<1>9. ASSUME UNCHANGED vars PROVE LifeTypeOK'
      BY <1>9 DEF vars, lifeVars
<1> QED BY <1>1, <1>2, <1>3, <1>4, <1>5, <1>6, <1>7, <1>8, <1>9, SweptPart DEF Next

\* Whatever the clients, the backend, the clock and the operating system do, every
\* variable of the server keeps its type. In particular end_download() never takes
\* the pin count below zero, and the worker never runs without a job.
THEOREM TypeCorrect == Spec => []TypeOK
<1>1. Init => TypeOK
      BY TypeInit
<1>2. TypeOK /\ [Next]_vars => TypeOK'
      BY StorageTypeStep, AssetTypeStep, JobTypeStep, LifeTypeStep DEF TypeOK
<1> QED BY <1>1, <1>2, PTL DEF Spec

-----------------------------------------------------------------------------
\* What appending to a FIFO, taking its head and removing an entry do to its entries.
Holds(s, x) == \E i \in DOMAIN s : s[i] = x
NoRepeats(s) == \A i, k \in DOMAIN s : s[i] = s[k] => i = k

\* submit() appends one entry.
LEMMA AppendFacts ==
  ASSUME NEW S, NEW s \in Seq(S), NEW e \in S
  PROVE  /\ \A x : Holds(Append(s, e), x) <=> Holds(s, x) \/ x = e
         /\ NoRepeats(s) /\ ~Holds(s, e) => NoRepeats(Append(s, e))
         /\ Len(Append(s, e)) = Len(s) + 1
<1> DEFINE r == Append(s, e)
<1>1. /\ Len(r) = Len(s) + 1
      /\ \A i \in 1 .. Len(s) : r[i] = s[i]
      /\ r[Len(s) + 1] = e
      /\ r \in Seq(S)
      BY AppendProperties
<1>2. DOMAIN s = 1 .. Len(s) /\ DOMAIN r = 1 .. Len(s) + 1 /\ Len(s) \in Nat
      BY <1>1
<1> HIDE DEF r
<1>3. ASSUME NEW x, Holds(r, x) PROVE Holds(s, x) \/ x = e
      BY <1>1, <1>2, <1>3 DEF Holds
<1>4. ASSUME NEW x, Holds(s, x) PROVE Holds(r, x)
  <2>1. PICK i \in 1 .. Len(s) : s[i] = x
        BY <1>4, <1>2 DEF Holds
  <2>2. i \in 1 .. Len(s) + 1 /\ r[i] = x
        BY <2>1, <1>1, <1>2
  <2> QED BY <2>2, <1>2 DEF Holds
<1>5. Holds(r, e)
      BY <1>1, <1>2 DEF Holds
<1>6. ASSUME NoRepeats(s), ~Holds(s, e) PROVE NoRepeats(r)
      BY <1>1, <1>2, <1>6 DEF NoRepeats, Holds
<1> QED BY <1>1, <1>3, <1>4, <1>5, <1>6 DEF r

\* popleft() takes the head.
LEMMA TailFacts ==
  ASSUME NEW S, NEW s \in Seq(S), s # <<>>
  PROVE  /\ \A x : Holds(s, x) <=> Holds(Tail(s), x) \/ x = Head(s)
         /\ NoRepeats(s) => NoRepeats(Tail(s)) /\ ~Holds(Tail(s), Head(s))
         /\ Len(Tail(s)) = Len(s) - 1
         /\ Head(s) \in S
<1> DEFINE r == Tail(s)
<1>1. /\ Len(s) \in Nat \ {0}
      /\ r \in Seq(S)
      /\ Len(r) = Len(s) - 1
      /\ \A i \in 1 .. Len(s) - 1 : r[i] = s[i + 1]
      /\ Head(s) = s[1]
      /\ Head(s) \in S
      BY HeadTailProperties, EmptySeq
<1>2. DOMAIN s = 1 .. Len(s) /\ DOMAIN r = 1 .. Len(s) - 1
      BY <1>1
<1> HIDE DEF r
<1>3. ASSUME NEW x, Holds(s, x), x # Head(s) PROVE Holds(r, x)
  <2>1. PICK i \in 1 .. Len(s) : s[i] = x /\ i # 1
        BY <1>3, <1>1, <1>2 DEF Holds
  <2>2. i - 1 \in 1 .. Len(s) - 1 /\ r[i - 1] = x
        BY <2>1, <1>1
  <2> QED BY <2>2, <1>2 DEF Holds
<1>4. ASSUME NEW x, Holds(r, x) PROVE Holds(s, x)
  <2>1. PICK i \in 1 .. Len(s) - 1 : r[i] = x
        BY <1>4, <1>2 DEF Holds
  <2>2. i + 1 \in 1 .. Len(s) /\ s[i + 1] = x
        BY <2>1, <1>1
  <2> QED BY <2>2, <1>2 DEF Holds
<1>5. Holds(s, Head(s))
      BY <1>1, <1>2 DEF Holds
<1>6. ASSUME NoRepeats(s) PROVE NoRepeats(r) /\ ~Holds(r, Head(s))
  <2>1. ASSUME NEW i \in 1 .. Len(s) - 1, NEW k \in 1 .. Len(s) - 1, r[i] = r[k]
        PROVE  i = k
    <3>1. i + 1 \in 1 .. Len(s) /\ k + 1 \in 1 .. Len(s) /\ s[i + 1] = s[k + 1]
          BY <2>1, <1>1
    <3>2. i + 1 = k + 1
          BY <3>1, <1>2, <1>6 DEF NoRepeats
    <3> QED BY <3>2
  <2>2. ASSUME NEW i \in 1 .. Len(s) - 1 PROVE r[i] # Head(s)
    <3>1. i + 1 \in 1 .. Len(s) /\ 1 \in 1 .. Len(s) /\ i + 1 # 1 /\ r[i] = s[i + 1]
          BY <1>1
    <3>2. s[i + 1] # s[1]
          BY <3>1, <1>2, <1>6 DEF NoRepeats
    <3> QED BY <3>1, <3>2, <1>1
  <2> QED BY <2>1, <2>2, <1>2 DEF NoRepeats, Holds
<1> QED BY <1>1, <1>3, <1>4, <1>5, <1>6 DEF r

\* remove() takes one entry out of the middle.
LEMMA RemoveAtFacts ==
  ASSUME NEW S, NEW s \in Seq(S), NEW i \in DOMAIN s, NoRepeats(s)
  PROVE  /\ \A x : Holds(RemoveAt(s, i), x) <=> Holds(s, x) /\ x # s[i]
         /\ NoRepeats(RemoveAt(s, i))
         /\ Len(RemoveAt(s, i)) = Len(s) - 1
<1> DEFINE r == RemoveAt(s, i)
           front == SubSeq(s, 1, i - 1)
           back == SubSeq(s, i + 1, Len(s))
<1>1. /\ Len(s) \in Nat
      /\ DOMAIN s = 1 .. Len(s)
      /\ i \in 1 .. Len(s)
      /\ \A k \in 1 .. Len(s) : s[k] \in S
      OBVIOUS
<1>2. /\ front \in Seq(S) /\ Len(front) = i - 1
      /\ \A k \in 1 .. i - 1 : front[k] = s[k]
  <2>1. /\ \A k \in 1 .. i - 1 : s[k] \in S
        /\ 1 \in Int /\ i - 1 \in Int
        BY <1>1
  <2>2. /\ front \in Seq(S)
        /\ Len(front) = IF 1 <= i - 1 THEN i - 1 - 1 + 1 ELSE 0
        /\ \A k \in 1 .. i - 1 - 1 + 1 : front[k] = s[1 + k - 1]
        BY <2>1, SubSeqProperties
  <2> HIDE DEF front
  <2> QED BY <2>2, <1>1
<1>3. /\ back \in Seq(S) /\ Len(back) = Len(s) - i
      /\ \A k \in 1 .. Len(s) - i : back[k] = s[i + k]
  <2>1. /\ \A k \in i + 1 .. Len(s) : s[k] \in S
        /\ i + 1 \in Int /\ Len(s) \in Int
        BY <1>1
  <2>2. /\ back \in Seq(S)
        /\ Len(back) = IF i + 1 <= Len(s) THEN Len(s) - (i + 1) + 1 ELSE 0
        /\ \A k \in 1 .. Len(s) - (i + 1) + 1 : back[k] = s[i + 1 + k - 1]
        BY <2>1, SubSeqProperties
  <2> HIDE DEF back
  <2>3. Len(back) = Len(s) - i
    <3>1. IF i + 1 <= Len(s) THEN Len(s) - (i + 1) + 1 = Len(s) - i ELSE Len(s) - i = 0
          BY <1>1
    <3> QED BY <2>2, <3>1
  <2>4. ASSUME NEW k \in 1 .. Len(s) - i PROVE back[k] = s[i + k]
    <3>1. k \in 1 .. Len(s) - (i + 1) + 1 /\ i + 1 + k - 1 = i + k
          BY <1>1
    <3> QED BY <2>2, <3>1
  <2> QED BY <2>2, <2>3, <2>4
<1> HIDE DEF front, back
<1>4. /\ r \in Seq(S)
      /\ Len(r) = Len(s) - 1
      /\ \A k \in 1 .. Len(s) - 1 : r[k] = IF k < i THEN s[k] ELSE s[k + 1]
  <2>1. r = front \o back
        BY DEF RemoveAt, front, back
  <2>2. /\ front \o back \in Seq(S)
        /\ Len(front \o back) = Len(front) + Len(back)
        /\ \A k \in 1 .. Len(front) + Len(back) :
             (front \o back)[k] = IF k <= Len(front) THEN front[k] ELSE back[k - Len(front)]
        BY <1>2, <1>3, ConcatProperties
  <2> HIDE DEF r
  <2>3. /\ r \in Seq(S)
        /\ Len(r) = Len(s) - 1
        BY <2>1, <2>2, <1>1, <1>2, <1>3
  <2>4. ASSUME NEW k \in 1 .. Len(s) - 1
        PROVE  r[k] = IF k < i THEN s[k] ELSE s[k + 1]
    <3>1. r[k] = IF k <= i - 1 THEN front[k] ELSE back[k - (i - 1)]
          BY <2>1, <2>2, <1>1, <1>2, <1>3
    <3>2. CASE k < i
          BY <3>1, <3>2, <1>1, <1>2
    <3>3. CASE k >= i
      <4>1. k - (i - 1) \in 1 .. Len(s) - i /\ i + (k - (i - 1)) = k + 1
            BY <3>3, <1>1
      <4> QED BY <3>1, <3>3, <4>1, <1>1, <1>3
    <3> QED BY <3>2, <3>3, <1>1
  <2> QED BY <2>3, <2>4
<1>5. DOMAIN r = 1 .. Len(s) - 1
      BY <1>4
<1> HIDE DEF r
<1>6. ASSUME NEW k \in DOMAIN r, NEW l \in DOMAIN r, r[k] = r[l] PROVE k = l
  <2> DEFINE place(m) == IF m < i THEN m ELSE m + 1
  <2>1. place(k) \in DOMAIN s /\ place(l) \in DOMAIN s
        BY <1>1, <1>5
  <2>2. s[place(k)] = s[place(l)]
        BY <1>4, <1>5, <1>6
  <2>3. place(k) = place(l)
        BY <2>1, <2>2 DEF NoRepeats
  <2> QED BY <2>3, <1>1, <1>5
<1>7. ASSUME NEW x, Holds(r, x) PROVE Holds(s, x) /\ x # s[i]
      BY <1>1, <1>4, <1>5, <1>7 DEF NoRepeats, Holds
<1>8. ASSUME NEW x, Holds(s, x), x # s[i] PROVE Holds(r, x)
  <2>1. PICK k \in 1 .. Len(s) : s[k] = x /\ k # i
        BY <1>1, <1>8 DEF Holds
  <2>2. CASE k < i
    <3>1. k \in 1 .. Len(s) - 1 /\ r[k] = x
          BY <2>1, <2>2, <1>1, <1>4
    <3> QED BY <3>1, <1>5 DEF Holds
  <2>3. CASE k > i
    <3>1. k - 1 \in 1 .. Len(s) - 1 /\ r[k - 1] = x
          BY <2>1, <2>3, <1>1, <1>4
    <3> QED BY <3>1, <1>5 DEF Holds
  <2> QED BY <2>1, <2>2, <2>3, <1>1
<1> QED BY <1>4, <1>6, <1>7, <1>8 DEF r, NoRepeats

-----------------------------------------------------------------------------
\* How the sets of statuses lie to each other.
LEMMA LiveFacts ==
  /\ Live = ActiveStages \cup {"queued"}
  /\ "queued" \notin ActiveStages
  /\ "loading" \in ActiveStages
  /\ {"complete", "failed", "cancelled", "expired"} = TERMINAL
  /\ Live \cap TERMINAL = {}
  /\ JobStatus = Live \cup TERMINAL
  /\ JobStatus \cap Unrecorded = {}
  /\ {"unused", "forgotten", "lost"} = Unrecorded
BY DEF Live, ActiveStages, TERMINAL, JobStatus, Unrecorded

\* Between two processes nothing is recorded, queued, running, pinned or uploaded.
DownIsEmpty ==
  phase = "down" =>
    /\ \A j \in JobIds : status[j] \in Unrecorded /\ readers[j] = 0
    /\ pending = <<>>
    /\ running = NoJob
    /\ worker = "absent"
    /\ ~accepting
    /\ uploading = {}

\* The job the worker waits for is under way.
LEMMA RunningFacts ==
  ASSUME TypeOK, OneActiveJob, worker = "generating"
  PROVE  /\ running \in JobIds
         /\ status[running] \in ActiveStages \cap Live
         /\ status[running] \notin TERMINAL \cup {"queued"}
BY LiveFacts DEF TypeOK, JobTypeOK, OneActiveJob

\* An unlink raises only where that is allowed for.
LEMMA UnlinkFacts ==
  /\ \A j \in JobIds : \A ok \in OutputUnlink(j) : ok \/ UnlinkMayFail
  /\ \A ok \in PartialUnlink : ok \/ UnlinkMayFail
BY DEF OutputUnlink, PartialUnlink

-----------------------------------------------------------------------------
\* QueueExact in terms of what a FIFO holds, before and after a step.
LEMMA QueueFacts ==
  ASSUME QueueExact
  PROVE  /\ \A j \in JobIds : status[j] = "queued" <=> Holds(pending, j)
         /\ NoRepeats(pending)
         /\ Len(pending) <= MaxQueueSize
BY DEF QueueExact, Holds, NoRepeats

\* The three parts of an exact queue, put together.
LEMMA QueueBuilt ==
  ASSUME \A j \in JobIds : status'[j] = "queued" <=> Holds(pending', j),
         NoRepeats(pending'),
         Len(pending') <= MaxQueueSize
  PROVE  QueueExact'
BY DEF QueueExact, Holds, NoRepeats

\* Steps that touch neither the FIFO nor who is queued keep it exact.
LEMMA QueueKept ==
  ASSUME QueueExact, pending' = pending,
         \A j \in JobIds : status'[j] = "queued" <=> status[j] = "queued"
  PROVE  QueueExact'
BY DEF QueueExact

\* An empty FIFO is exact when no job is queued.
LEMMA QueueEmptied ==
  ASSUME pending' = <<>>, \A j \in JobIds : status'[j] # "queued"
  PROVE  QueueExact'
BY JobAssumption DEF QueueExact

\* The head leaves the FIFO and takes a status other than queued.
LEMMA PopLeftStep ==
  ASSUME TypeOK, QueueExact, NEW j \in JobIds, PopLeft(j), NEW to, to # "queued",
         status' = [status EXCEPT ![j] = to]
  PROVE  QueueExact' /\ status[j] = "queued"
<1> USE DEF TypeOK, JobTypeOK
<1>1. pending # <<>> /\ j = Head(pending) /\ pending' = Tail(pending)
      BY DEF PopLeft
<1>2. /\ \A x : Holds(pending, x) <=> Holds(pending', x) \/ x = j
      /\ NoRepeats(pending') /\ ~Holds(pending', j)
      /\ Len(pending') = Len(pending) - 1
      /\ Len(pending) \in Nat
      BY <1>1, TailFacts, QueueFacts
<1>3. \A x \in JobIds : status'[x] = "queued" <=> Holds(pending', x)
      BY <1>2, QueueFacts
<1>4. Len(pending') <= MaxQueueSize
      BY <1>2, QueueFacts, JobAssumption
<1>5. status[j] = "queued"
      BY <1>2, QueueFacts
<1> QED BY <1>2, <1>3, <1>4, <1>5, QueueBuilt

\* Both ways to take a job take a queued one, while none is under way.
LEMMA TakesFacts ==
  ASSUME TypeOK, QueueExact, OneActiveJob, WorkerTakes
  PROVE  \E j \in JobIds :
           /\ status[j] = "queued"
           /\ status' = [status EXCEPT ![j] = "loading"]
           /\ running = NoJob /\ running' = j
           /\ Touch(j)
<1>1. PICK j \in JobIds : /\ PopLeft(j) /\ Transition(j, "loading")
                          /\ running' = j /\ Touch(j)
      BY DEF WorkerTakes
<1>2. status' = [status EXCEPT ![j] = "loading"]
      BY <1>1 DEF Transition
<1>3. status[j] = "queued"
      BY <1>1, <1>2, PopLeftStep
<1>4. running = NoJob
      BY DEF WorkerTakes, OneActiveJob
<1> QED BY <1>1, <1>2, <1>3, <1>4

\* create() failed: the job at the head of the FIFO fails, and nothing else changes status.
LEMMA TakesAndFailsFacts ==
  ASSUME TypeOK, QueueExact, OneActiveJob, WorkerTakesAndFails
  PROVE  \E j \in JobIds :
           /\ status[j] = "queued"
           /\ status' = [status EXCEPT ![j] = "failed"]
           /\ leases' = Released({j})
<1>1. PICK j \in JobIds : PopLeft(j) /\ Transition(j, "failed") /\ leases' = Released({j})
      BY DEF WorkerTakesAndFails
<1>2. status' = [status EXCEPT ![j] = "failed"]
      BY <1>1 DEF Transition
<1>3. status[j] = "queued"
      BY <1>1, <1>2, PopLeftStep
<1> QED BY <1>1, <1>2, <1>3

\* Memory is lost with the process, and no handler runs before the next one.
LEMMA DownStep == TypeOK /\ DownIsEmpty /\ [Next]_vars => DownIsEmpty'
<1> SUFFICES ASSUME TypeOK, DownIsEmpty, [Next]_vars PROVE DownIsEmpty'
    OBVIOUS
<1> USE DEF TypeOK, JobTypeOK, DownIsEmpty
<1>1. ASSUME NEW a \in AssetIds, AssetStep(a) PROVE DownIsEmpty'
      BY <1>1 DEF AssetStep, UploadBegin, UploadChunk, DeleteAsset, assetVars, jobVars,
         recordVars, queueVars, lifeVars
<1>2. ASSUME NEW a \in AssetIds, UploadEnds(a) PROVE DownIsEmpty'
      BY <1>2 DEF UploadEnds, UploadPublish, UploadFails, jobVars, recordVars,
         queueVars, lifeVars
<1>3. ASSUME NEW j \in JobIds, ResponseEnds(j) PROVE DownIsEmpty'
      BY <1>3, LiveFacts DEF ResponseEnds, EndDownload, Pinned, queueVars, assetVars,
         lifeVars
<1>4. ASSUME NEW j \in JobIds, RequestStep(j) PROVE DownIsEmpty'
  <2>1. ASSUME NEW assets \in SUBSET AssetIds, Submit(j, assets), UNCHANGED lifeVars
        PROVE  DownIsEmpty'
        BY <2>1, LiveFacts DEF Submit, lifeVars
  <2>2. ASSUME GetExpires(j), UNCHANGED lifeVars PROVE DownIsEmpty'
        BY <2>2, LiveFacts DEF GetExpires, Expirable, assetVars, queueVars, lifeVars
  <2>3. ASSUME BeginDownload(j), UNCHANGED lifeVars PROVE DownIsEmpty'
        BY <2>3, LiveFacts DEF BeginDownload, Downloadable, assetVars, queueVars,
           lifeVars
  <2>4. ASSUME BeginDownloadMissing(j), UNCHANGED lifeVars PROVE DownIsEmpty'
        BY <2>4, LiveFacts DEF BeginDownloadMissing, Downloadable, assetVars, queueVars,
           lifeVars
  <2>5. ASSUME DeleteQueued(j), UNCHANGED lifeVars PROVE DownIsEmpty'
        BY <2>5, LiveFacts DEF DeleteQueued, lifeVars
  <2>6. ASSUME DeleteRunning(j), UNCHANGED lifeVars PROVE DownIsEmpty'
        BY <2>6, LiveFacts DEF DeleteRunning, lifeVars
  <2>7. ASSUME NEW ok, DeleteFinished(j, ok), UNCHANGED lifeVars PROVE DownIsEmpty'
        BY <2>7, LiveFacts DEF DeleteFinished, assetVars, queueVars, lifeVars
  <2> QED BY <1>4, <2>1, <2>2, <2>3, <2>4, <2>5, <2>6, <2>7 DEF RequestStep
<1>5. ASSUME WorkerStep PROVE DownIsEmpty'
  <2>1. ASSUME Initialized, UNCHANGED lifeVars PROVE DownIsEmpty'
        BY <2>1, LiveFacts DEF Initialized, assetVars, recordVars, lifeVars
  <2>2. ASSUME WorkerExits, UNCHANGED lifeVars PROVE DownIsEmpty'
        BY <2>2, LiveFacts DEF WorkerExits, assetVars, recordVars, lifeVars
  <2>3. ASSUME WorkerSleeps, UNCHANGED lifeVars PROVE DownIsEmpty'
        BY <2>3, LiveFacts DEF WorkerSleeps, assetVars, recordVars, lifeVars
  <2>4. ASSUME WorkerWakes, UNCHANGED lifeVars PROVE DownIsEmpty'
        BY <2>4, LiveFacts DEF WorkerWakes, assetVars, recordVars, lifeVars
  <2>5. ASSUME WorkerTakes, UNCHANGED lifeVars PROVE DownIsEmpty'
        BY <2>5, LiveFacts DEF WorkerTakes, assetVars, lifeVars
  <2>6. ASSUME WorkerTakesAndFails, UNCHANGED lifeVars PROVE DownIsEmpty'
        BY <2>6, LiveFacts DEF WorkerTakesAndFails, lifeVars
  <2> QED BY <1>5, <2>1, <2>2, <2>3, <2>4, <2>5, <2>6 DEF WorkerStep
<1>6. ASSUME BackendProgress PROVE DownIsEmpty'
  <2>1. ASSUME BackendWrites, UNCHANGED lifeVars PROVE DownIsEmpty'
        BY <2>1, LiveFacts DEF BackendWrites, assetVars, jobVars, recordVars, queueVars,
           lifeVars
  <2>2. ASSUME NEW stage \in ActiveStages, ReportStage(stage), UNCHANGED lifeVars
        PROVE  DownIsEmpty'
        BY <2>2, LiveFacts DEF ReportStage, assetVars, queueVars, lifeVars
  <2> QED BY <1>6, <2>1, <2>2 DEF BackendProgress
<1>7. ASSUME BackendReturns PROVE DownIsEmpty'
  <2>1. ASSUME GenerationCompletes, UNCHANGED lifeVars PROVE DownIsEmpty'
        BY <2>1, LiveFacts DEF GenerationCompletes, lifeVars
  <2>2. ASSUME NEW ok, GenerationEnds(ok), UNCHANGED lifeVars PROVE DownIsEmpty'
        BY <2>2, LiveFacts DEF GenerationEnds, lifeVars
  <2> QED BY <1>7, <2>1, <2>2 DEF BackendReturns
<1>8. ASSUME SweptAny PROVE DownIsEmpty'
      BY <1>8, LiveFacts DEF SweptAny, Swept, queueVars, lifeVars
<1>9. ASSUME StartServer PROVE DownIsEmpty'
      BY <1>9 DEF StartServer, FirstSwept, assetVars, recordVars
<1>10. ASSUME StopServer PROVE DownIsEmpty'
      BY <1>10 DEF StopServer
<1>11. ASSUME ProcessEnds PROVE DownIsEmpty'
      BY <1>11, LiveFacts DEF ProcessEnds, MemoryLost
<1>12. ASSUME Crash PROVE DownIsEmpty'
      BY <1>12, LiveFacts DEF Crash, MemoryLost
<1>13. ASSUME Tick PROVE DownIsEmpty'
      BY <1>13, LiveFacts DEF Tick, assetVars, jobVars, recordVars, queueVars, lifeVars
<1>14. ASSUME FileVanishes PROVE DownIsEmpty'
      BY <1>14, LiveFacts DEF FileVanishes, assetVars, jobVars, recordVars, queueVars
<1>15. ASSUME UNCHANGED vars PROVE DownIsEmpty'
      BY <1>15, LiveFacts DEF vars, assetVars, jobVars, recordVars, queueVars, lifeVars
<1>16. ASSUME StartRaises PROVE DownIsEmpty'
      BY <1>16 DEF StartRaises, FirstSwept, assetVars, recordVars
<1> QED BY <1>1, <1>2, <1>3, <1>4, <1>5, <1>6, <1>7, <1>8, <1>9, <1>10, <1>11, <1>12,
   <1>13, <1>14, <1>15, <1>16, SweptPart DEF Next

\* submit, delete, popleft, stop: who leaves the FIFO changes status, who enters it
\* is queued.
LEMMA QueueStep == TypeOK /\ QueueExact /\ OneActiveJob /\ [Next]_vars => QueueExact'
<1> SUFFICES ASSUME TypeOK, QueueExact, OneActiveJob, [Next]_vars PROVE QueueExact'
    OBVIOUS
<1> USE DEF TypeOK, JobTypeOK
<1>1. ASSUME NEW a \in AssetIds, AssetStep(a) PROVE QueueExact'
      BY <1>1, QueueKept DEF AssetStep, UploadBegin, UploadChunk, DeleteAsset, jobVars,
         recordVars, queueVars
<1>2. ASSUME NEW a \in AssetIds, UploadEnds(a) PROVE QueueExact'
      BY <1>2, QueueKept DEF UploadEnds, UploadPublish, UploadFails, jobVars,
         recordVars, queueVars
<1>3. ASSUME NEW j \in JobIds, ResponseEnds(j) PROVE QueueExact'
      BY <1>3, QueueKept DEF ResponseEnds, EndDownload, queueVars
<1>4. ASSUME NEW j \in JobIds, RequestStep(j) PROVE QueueExact'
  <2>1. ASSUME NEW assets \in SUBSET AssetIds, Submit(j, assets), UNCHANGED lifeVars
        PROVE  QueueExact'
    <3>1. /\ pending' = Append(pending, j)
          /\ status' = [status EXCEPT ![j] = "queued"]
          /\ status[j] = "unused"
          /\ Len(pending) < MaxQueueSize
          /\ Len(pending) \in Nat
          BY <2>1 DEF Submit, HasRoom
    <3>2. ~Holds(pending, j)
          BY <3>1, QueueFacts
    <3>3. /\ \A x : Holds(pending', x) <=> Holds(pending, x) \/ x = j
          /\ NoRepeats(pending')
          /\ Len(pending') = Len(pending) + 1
          BY <3>1, <3>2, AppendFacts, QueueFacts
    <3>4. \A x \in JobIds : status'[x] = "queued" <=> Holds(pending', x)
          BY <3>1, <3>3, QueueFacts
    <3>5. Len(pending') <= MaxQueueSize
          BY <3>1, <3>3, JobAssumption
    <3> QED BY <3>3, <3>4, <3>5, QueueBuilt
  <2>2. ASSUME GetExpires(j), UNCHANGED lifeVars PROVE QueueExact'
        BY <2>2, QueueKept, LiveFacts DEF GetExpires, Expirable, Transition, queueVars
  <2>3. ASSUME BeginDownload(j), UNCHANGED lifeVars PROVE QueueExact'
        BY <2>3, QueueKept DEF BeginDownload, queueVars
  <2>4. ASSUME BeginDownloadMissing(j), UNCHANGED lifeVars PROVE QueueExact'
        BY <2>4, QueueKept, LiveFacts DEF BeginDownloadMissing, Downloadable,
           Transition, queueVars
  <2>5. ASSUME DeleteQueued(j), UNCHANGED lifeVars PROVE QueueExact'
    <3>1. PICK i \in DOMAIN pending : pending[i] = j /\ pending' = RemoveAt(pending, i)
          BY <2>5 DEF DeleteQueued
    <3>2. status' = [status EXCEPT ![j] = "cancelled"]
          BY <2>5 DEF DeleteQueued, Transition
    <3>3. NoRepeats(pending)
          BY QueueFacts
    <3>4. /\ \A x : Holds(pending', x) <=> Holds(pending, x) /\ x # j
          /\ NoRepeats(pending')
          /\ Len(pending') = Len(pending) - 1
          /\ Len(pending) \in Nat
          BY <3>1, <3>3, RemoveAtFacts
    <3>5. \A x \in JobIds : status'[x] = "queued" <=> Holds(pending', x)
          BY <3>2, <3>4, QueueFacts
    <3>6. Len(pending') <= MaxQueueSize
          BY <3>4, QueueFacts, JobAssumption
    <3> QED BY <3>4, <3>5, <3>6, QueueBuilt
  <2>6. ASSUME DeleteRunning(j), UNCHANGED lifeVars PROVE QueueExact'
        BY <2>6, QueueKept DEF DeleteRunning
  <2>7. ASSUME NEW ok, DeleteFinished(j, ok), UNCHANGED lifeVars PROVE QueueExact'
        BY <2>7, QueueKept, LiveFacts DEF DeleteFinished, Transition, AfterDelete,
           queueVars
  <2> QED BY <1>4, <2>1, <2>2, <2>3, <2>4, <2>5, <2>6, <2>7 DEF RequestStep
<1>5. ASSUME WorkerStep PROVE QueueExact'
  <2>1. ASSUME Initialized, UNCHANGED lifeVars PROVE QueueExact'
        BY <2>1, QueueKept DEF Initialized, recordVars
  <2>2. ASSUME WorkerExits, UNCHANGED lifeVars PROVE QueueExact'
        BY <2>2, QueueKept DEF WorkerExits, recordVars
  <2>3. ASSUME WorkerSleeps, UNCHANGED lifeVars PROVE QueueExact'
        BY <2>3, QueueKept DEF WorkerSleeps, recordVars
  <2>4. ASSUME WorkerWakes, UNCHANGED lifeVars PROVE QueueExact'
        BY <2>4, QueueKept DEF WorkerWakes, recordVars
  <2>5. ASSUME WorkerTakes, UNCHANGED lifeVars PROVE QueueExact'
    <3>1. PICK j \in JobIds : PopLeft(j) /\ status' = [status EXCEPT ![j] = "loading"]
          BY <2>5 DEF WorkerTakes, Transition
    <3> QED BY <3>1, PopLeftStep
  <2>6. ASSUME WorkerTakesAndFails, UNCHANGED lifeVars PROVE QueueExact'
    <3>1. PICK j \in JobIds : PopLeft(j) /\ status' = [status EXCEPT ![j] = "failed"]
          BY <2>6 DEF WorkerTakesAndFails, Transition
    <3> QED BY <3>1, PopLeftStep
  <2> QED BY <1>5, <2>1, <2>2, <2>3, <2>4, <2>5, <2>6 DEF WorkerStep
<1>6. ASSUME BackendProgress PROVE QueueExact'
  <2>1. ASSUME BackendWrites, UNCHANGED lifeVars PROVE QueueExact'
        BY <2>1, QueueKept DEF BackendWrites, jobVars, recordVars, queueVars
  <2>2. ASSUME NEW stage \in ActiveStages, ReportStage(stage), UNCHANGED lifeVars
        PROVE  QueueExact'
        BY <2>2, QueueKept, RunningFacts, LiveFacts DEF ReportStage, Transition,
           queueVars
  <2> QED BY <1>6, <2>1, <2>2 DEF BackendProgress
<1>7. ASSUME BackendReturns PROVE QueueExact'
  <2>1. ASSUME GenerationCompletes, UNCHANGED lifeVars PROVE QueueExact'
        BY <2>1, QueueKept, RunningFacts DEF GenerationCompletes, Transition,
           WorkerReleases
  <2>2. ASSUME NEW ok, GenerationEnds(ok), UNCHANGED lifeVars PROVE QueueExact'
        BY <2>2, QueueKept, RunningFacts DEF GenerationEnds, Transition, WorkerReleases
  <2> QED BY <1>7, <2>1, <2>2 DEF BackendReturns
<1>8. ASSUME SweptAny PROVE QueueExact'
      BY <1>8, QueueKept, LiveFacts DEF SweptAny, Swept, Expirable, Forgettable, queueVars
<1>9. ASSUME StartServer PROVE QueueExact'
      BY <1>9, QueueKept DEF StartServer, FirstSwept, recordVars
<1>10. ASSUME StopServer PROVE QueueExact'
  <2>1. /\ pending' = <<>>
        /\ \A j \in JobIds : status'[j] = IF Holds(pending, j) THEN "cancelled" ELSE status[j]
        BY <1>10 DEF StopServer, Stop, Holds
  <2>2. \A j \in JobIds : status'[j] # "queued"
        BY <2>1, QueueFacts
  <2> QED BY <2>1, <2>2, QueueEmptied
<1>11. ASSUME ProcessEnds PROVE QueueExact'
  <2>1. pending' = <<>> /\ \A j \in JobIds : status'[j] # "queued"
        BY <1>11, StatusFacts DEF ProcessEnds, MemoryLost
  <2> QED BY <2>1, QueueEmptied
<1>12. ASSUME Crash PROVE QueueExact'
  <2>1. pending' = <<>> /\ \A j \in JobIds : status'[j] # "queued"
        BY <1>12, StatusFacts DEF Crash, MemoryLost
  <2> QED BY <2>1, QueueEmptied
<1>13. ASSUME Tick PROVE QueueExact'
      BY <1>13, QueueKept DEF Tick, jobVars, recordVars, queueVars
<1>14. ASSUME FileVanishes PROVE QueueExact'
      BY <1>14, QueueKept DEF FileVanishes, jobVars, recordVars, queueVars
<1>15. ASSUME UNCHANGED vars PROVE QueueExact'
      BY <1>15, QueueKept DEF vars, jobVars, recordVars, queueVars
<1>16. ASSUME StartRaises PROVE QueueExact'
      BY <1>16, QueueKept DEF StartRaises, FirstSwept, recordVars
<1> QED BY <1>1, <1>2, <1>3, <1>4, <1>5, <1>6, <1>7, <1>8, <1>9, <1>10, <1>11, <1>12,
   <1>13, <1>14, <1>15, <1>16, SweptPart DEF Next

\* The slot is taken when the worker takes a job and freed when its backend has returned.
LEMMA ActiveStep ==
  TypeOK /\ DownIsEmpty /\ QueueExact /\ OneActiveJob /\ [Next]_vars
    => OneActiveJob'
<1> SUFFICES ASSUME TypeOK, DownIsEmpty, QueueExact, OneActiveJob, [Next]_vars
             PROVE  OneActiveJob'
    OBVIOUS
<1> USE JobAssumption DEF TypeOK, JobTypeOK, OneActiveJob
<1>1. ASSUME NEW a \in AssetIds, AssetStep(a) PROVE OneActiveJob'
      BY <1>1 DEF AssetStep, UploadBegin, UploadChunk, DeleteAsset, jobVars, recordVars,
         queueVars
<1>2. ASSUME NEW a \in AssetIds, UploadEnds(a) PROVE OneActiveJob'
      BY <1>2 DEF UploadEnds, UploadPublish, UploadFails, jobVars, recordVars, queueVars
<1>3. ASSUME NEW j \in JobIds, ResponseEnds(j) PROVE OneActiveJob'
      BY <1>3 DEF ResponseEnds, EndDownload, queueVars
<1>4. ASSUME NEW j \in JobIds, RequestStep(j) PROVE OneActiveJob'
  <2>1. ASSUME NEW assets \in SUBSET AssetIds, Submit(j, assets), UNCHANGED lifeVars
        PROVE  OneActiveJob'
        BY <2>1, LiveFacts DEF Submit
  <2>2. ASSUME GetExpires(j), UNCHANGED lifeVars PROVE OneActiveJob'
        BY <2>2, LiveFacts DEF GetExpires, Expirable, Transition, queueVars
  <2>3. ASSUME BeginDownload(j), UNCHANGED lifeVars PROVE OneActiveJob'
        BY <2>3 DEF BeginDownload, queueVars
  <2>4. ASSUME BeginDownloadMissing(j), UNCHANGED lifeVars PROVE OneActiveJob'
        BY <2>4, LiveFacts DEF BeginDownloadMissing, Downloadable, Transition, queueVars
  <2>5. ASSUME DeleteQueued(j), UNCHANGED lifeVars PROVE OneActiveJob'
        BY <2>5, LiveFacts DEF DeleteQueued, Transition
  <2>6. ASSUME DeleteRunning(j), UNCHANGED lifeVars PROVE OneActiveJob'
        BY <2>6 DEF DeleteRunning, KeepSlot
  <2>7. ASSUME NEW ok, DeleteFinished(j, ok), UNCHANGED lifeVars PROVE OneActiveJob'
        BY <2>7, LiveFacts DEF DeleteFinished, Transition, AfterDelete, queueVars
  <2> QED BY <1>4, <2>1, <2>2, <2>3, <2>4, <2>5, <2>6, <2>7 DEF RequestStep
<1>5. ASSUME WorkerStep PROVE OneActiveJob'
  <2>1. ASSUME Initialized, UNCHANGED lifeVars PROVE OneActiveJob'
        BY <2>1 DEF Initialized, recordVars
  <2>2. ASSUME WorkerExits, UNCHANGED lifeVars PROVE OneActiveJob'
        BY <2>2 DEF WorkerExits, recordVars
  <2>3. ASSUME WorkerSleeps, UNCHANGED lifeVars PROVE OneActiveJob'
        BY <2>3 DEF WorkerSleeps, recordVars
  <2>4. ASSUME WorkerWakes, UNCHANGED lifeVars PROVE OneActiveJob'
        BY <2>4 DEF WorkerWakes, recordVars
  <2>5. ASSUME WorkerTakes, UNCHANGED lifeVars PROVE OneActiveJob'
        BY <2>5, LiveFacts DEF WorkerTakes, Transition
  <2>6. ASSUME WorkerTakesAndFails, UNCHANGED lifeVars PROVE OneActiveJob'
        BY <2>6, LiveFacts DEF WorkerTakesAndFails, Transition
  <2> QED BY <1>5, <2>1, <2>2, <2>3, <2>4, <2>5, <2>6 DEF WorkerStep
<1>6. ASSUME BackendProgress PROVE OneActiveJob'
  <2>1. ASSUME BackendWrites, UNCHANGED lifeVars PROVE OneActiveJob'
        BY <2>1 DEF BackendWrites, jobVars, recordVars, queueVars
  <2>2. ASSUME NEW stage \in ActiveStages, ReportStage(stage), UNCHANGED lifeVars
        PROVE  OneActiveJob'
        BY <2>2, LiveFacts DEF ReportStage, Transition, queueVars
  <2> QED BY <1>6, <2>1, <2>2 DEF BackendProgress
<1>7. ASSUME BackendReturns PROVE OneActiveJob'
  <2>1. ASSUME GenerationCompletes, UNCHANGED lifeVars PROVE OneActiveJob'
        BY <2>1, LiveFacts DEF GenerationCompletes, Transition, WorkerReleases
  <2>2. ASSUME NEW ok, GenerationEnds(ok), UNCHANGED lifeVars PROVE OneActiveJob'
        BY <2>2, LiveFacts DEF GenerationEnds, Transition, WorkerReleases
  <2> QED BY <1>7, <2>1, <2>2 DEF BackendReturns
<1>8. ASSUME SweptAny PROVE OneActiveJob'
      BY <1>8, LiveFacts DEF SweptAny, Swept, Expirable, Forgettable, queueVars
<1>9. ASSUME StartServer PROVE OneActiveJob'
      BY <1>9 DEF StartServer, FirstSwept, StartWorker, DownIsEmpty, recordVars
<1>10. ASSUME StopServer PROVE OneActiveJob'
      BY <1>10, LiveFacts DEF StopServer, Stop, QueueExact
<1>11. ASSUME ProcessEnds PROVE OneActiveJob'
      BY <1>11, LiveFacts DEF ProcessEnds, MemoryLost
<1>12. ASSUME Crash PROVE OneActiveJob'
      BY <1>12, LiveFacts DEF Crash, MemoryLost
<1>13. ASSUME Tick PROVE OneActiveJob'
      BY <1>13 DEF Tick, jobVars, recordVars, queueVars
<1>14. ASSUME FileVanishes PROVE OneActiveJob'
      BY <1>14 DEF FileVanishes, jobVars, recordVars, queueVars
<1>15. ASSUME UNCHANGED vars PROVE OneActiveJob'
      BY <1>15 DEF vars, jobVars, recordVars, queueVars
<1>16. ASSUME StartRaises PROVE OneActiveJob'
      BY <1>16 DEF StartRaises, FirstSwept, DownIsEmpty, recordVars
<1> QED BY <1>1, <1>2, <1>3, <1>4, <1>5, <1>6, <1>7, <1>8, <1>9, <1>10, <1>11, <1>12,
   <1>13, <1>14, <1>15, <1>16, SweptPart DEF Next

\* The event is set with each change that the worker sleeps for, and cleared only
\* when there is nothing to do.
LEMMA WakeStep == TypeOK /\ NoLostWakeup /\ [Next]_vars => NoLostWakeup'
<1> SUFFICES ASSUME TypeOK, NoLostWakeup, [Next]_vars PROVE NoLostWakeup'
    OBVIOUS
<1> USE DEF NoLostWakeup
<1>1. ASSUME NEW a \in AssetIds, AssetStep(a) PROVE NoLostWakeup'
      BY <1>1 DEF AssetStep, UploadBegin, UploadChunk, DeleteAsset, jobVars, queueVars
<1>2. ASSUME NEW a \in AssetIds, UploadEnds(a) PROVE NoLostWakeup'
      BY <1>2 DEF UploadEnds, UploadPublish, UploadFails, jobVars, queueVars
<1>3. ASSUME NEW j \in JobIds, ResponseEnds(j) PROVE NoLostWakeup'
      BY <1>3 DEF ResponseEnds, EndDownload, queueVars
<1>4. ASSUME NEW j \in JobIds, RequestStep(j) PROVE NoLostWakeup'
  <2>1. ASSUME NEW assets \in SUBSET AssetIds, Submit(j, assets), UNCHANGED lifeVars
        PROVE  NoLostWakeup'
        BY <2>1 DEF Submit, SetWake
  <2>2. ASSUME GetExpires(j), UNCHANGED lifeVars PROVE NoLostWakeup'
        BY <2>2 DEF GetExpires, queueVars
  <2>3. ASSUME BeginDownload(j), UNCHANGED lifeVars PROVE NoLostWakeup'
        BY <2>3 DEF BeginDownload, queueVars
  <2>4. ASSUME BeginDownloadMissing(j), UNCHANGED lifeVars PROVE NoLostWakeup'
        BY <2>4 DEF BeginDownloadMissing, queueVars
  <2>5. ASSUME DeleteQueued(j), UNCHANGED lifeVars PROVE NoLostWakeup'
        BY <2>5 DEF DeleteQueued
  <2>6. ASSUME DeleteRunning(j), UNCHANGED lifeVars PROVE NoLostWakeup'
        BY <2>6 DEF DeleteRunning, KeepSlot
  <2>7. ASSUME NEW ok, DeleteFinished(j, ok), UNCHANGED lifeVars PROVE NoLostWakeup'
        BY <2>7 DEF DeleteFinished, queueVars
  <2> QED BY <1>4, <2>1, <2>2, <2>3, <2>4, <2>5, <2>6, <2>7 DEF RequestStep
<1>5. ASSUME WorkerStep PROVE NoLostWakeup'
  <2>1. ASSUME Initialized, UNCHANGED lifeVars PROVE NoLostWakeup'
        BY <2>1 DEF Initialized
  <2>2. ASSUME WorkerExits, UNCHANGED lifeVars PROVE NoLostWakeup'
        BY <2>2 DEF WorkerExits
  <2>3. ASSUME WorkerSleeps, UNCHANGED lifeVars PROVE NoLostWakeup'
        BY <2>3 DEF WorkerSleeps
  <2>4. ASSUME WorkerWakes, UNCHANGED lifeVars PROVE NoLostWakeup'
        BY <2>4 DEF WorkerWakes
  <2>5. ASSUME WorkerTakes, UNCHANGED lifeVars PROVE NoLostWakeup'
        BY <2>5 DEF WorkerTakes
  <2>6. ASSUME WorkerTakesAndFails, UNCHANGED lifeVars PROVE NoLostWakeup'
        BY <2>6 DEF WorkerTakesAndFails
  <2> QED BY <1>5, <2>1, <2>2, <2>3, <2>4, <2>5, <2>6 DEF WorkerStep
<1>6. ASSUME BackendProgress PROVE NoLostWakeup'
  <2>1. ASSUME BackendWrites, UNCHANGED lifeVars PROVE NoLostWakeup'
        BY <2>1 DEF BackendWrites, jobVars, queueVars
  <2>2. ASSUME NEW stage \in ActiveStages, ReportStage(stage), UNCHANGED lifeVars
        PROVE  NoLostWakeup'
        BY <2>2 DEF ReportStage, queueVars
  <2> QED BY <1>6, <2>1, <2>2 DEF BackendProgress
<1>7. ASSUME BackendReturns PROVE NoLostWakeup'
  <2>1. ASSUME GenerationCompletes, UNCHANGED lifeVars PROVE NoLostWakeup'
        BY <2>1 DEF GenerationCompletes, WorkerReleases
  <2>2. ASSUME NEW ok, GenerationEnds(ok), UNCHANGED lifeVars PROVE NoLostWakeup'
        BY <2>2 DEF GenerationEnds, WorkerReleases
  <2> QED BY <1>7, <2>1, <2>2 DEF BackendReturns
<1>8. ASSUME SweptAny PROVE NoLostWakeup'
      BY <1>8 DEF SweptAny, Swept, queueVars
<1>9. ASSUME StartServer PROVE NoLostWakeup'
      BY <1>9 DEF StartServer, FirstSwept, StartWorker
<1>10. ASSUME StopServer PROVE NoLostWakeup'
      BY <1>10 DEF StopServer, Stop, SetWake
<1>11. ASSUME ProcessEnds PROVE NoLostWakeup'
      BY <1>11 DEF ProcessEnds, MemoryLost
<1>12. ASSUME Crash PROVE NoLostWakeup'
      BY <1>12 DEF Crash, MemoryLost
<1>13. ASSUME Tick PROVE NoLostWakeup'
      BY <1>13 DEF Tick, jobVars, queueVars
<1>14. ASSUME FileVanishes PROVE NoLostWakeup'
      BY <1>14 DEF FileVanishes, jobVars, queueVars
<1>15. ASSUME UNCHANGED vars PROVE NoLostWakeup'
      BY <1>15 DEF vars, jobVars, queueVars
<1>16. ASSUME StartRaises PROVE NoLostWakeup'
      BY <1>16 DEF StartRaises, FirstSwept
<1> QED BY <1>1, <1>2, <1>3, <1>4, <1>5, <1>6, <1>7, <1>8, <1>9, <1>10, <1>11, <1>12,
   <1>13, <1>14, <1>15, <1>16, SweptPart DEF Next

\* Leases are taken with the record and dropped when the job ends, in the same step.
LEMMA LeasesStep ==
  TypeOK /\ QueueExact /\ OneActiveJob /\ LeasesExact /\ [Next]_vars
    => LeasesExact'
<1> SUFFICES ASSUME TypeOK, QueueExact, OneActiveJob, LeasesExact, [Next]_vars
             PROVE  LeasesExact'
    OBVIOUS
<1> USE DEF TypeOK, JobTypeOK, AssetTypeOK, LeasesExact
<1>1. ASSUME NEW a \in AssetIds, AssetStep(a) PROVE LeasesExact'
      BY <1>1 DEF AssetStep, UploadBegin, UploadChunk, DeleteAsset, assetVars, jobVars,
         recordVars
<1>2. ASSUME NEW a \in AssetIds, UploadEnds(a) PROVE LeasesExact'
      BY <1>2 DEF UploadEnds, UploadPublish, UploadFails, jobVars, recordVars
<1>3. ASSUME NEW j \in JobIds, ResponseEnds(j) PROVE LeasesExact'
      BY <1>3 DEF ResponseEnds, EndDownload, assetVars
<1>4. ASSUME NEW j \in JobIds, RequestStep(j) PROVE LeasesExact'
  <2>1. ASSUME NEW assets \in SUBSET AssetIds, Submit(j, assets), UNCHANGED lifeVars
        PROVE  LeasesExact'
        BY <2>1, LiveFacts DEF Submit, Acquire
  <2>2. ASSUME GetExpires(j), UNCHANGED lifeVars PROVE LeasesExact'
        BY <2>2, LiveFacts DEF GetExpires, Expirable, Transition, assetVars
  <2>3. ASSUME BeginDownload(j), UNCHANGED lifeVars PROVE LeasesExact'
        BY <2>3 DEF BeginDownload, assetVars
  <2>4. ASSUME BeginDownloadMissing(j), UNCHANGED lifeVars PROVE LeasesExact'
        BY <2>4, LiveFacts DEF BeginDownloadMissing, Downloadable, Transition, assetVars
  <2>5. ASSUME DeleteQueued(j), UNCHANGED lifeVars PROVE LeasesExact'
        BY <2>5, LiveFacts DEF DeleteQueued, Transition, Released
  <2>6. ASSUME DeleteRunning(j), UNCHANGED lifeVars PROVE LeasesExact'
        BY <2>6 DEF DeleteRunning, KeepSlot
  <2>7. ASSUME NEW ok \in OutputUnlink(j), DeleteFinished(j, ok), UNCHANGED lifeVars
        PROVE  LeasesExact'
        BY <2>7, LiveFacts DEF DeleteFinished, Transition, AfterDelete, assetVars
  <2> QED BY <1>4, <2>1, <2>2, <2>3, <2>4, <2>5, <2>6, <2>7 DEF RequestStep
<1>5. ASSUME WorkerStep PROVE LeasesExact'
  <2>1. ASSUME Initialized, UNCHANGED lifeVars PROVE LeasesExact'
        BY <2>1 DEF Initialized, assetVars, recordVars
  <2>2. ASSUME WorkerExits, UNCHANGED lifeVars PROVE LeasesExact'
        BY <2>2 DEF WorkerExits, assetVars, recordVars
  <2>3. ASSUME WorkerSleeps, UNCHANGED lifeVars PROVE LeasesExact'
        BY <2>3 DEF WorkerSleeps, assetVars, recordVars
  <2>4. ASSUME WorkerWakes, UNCHANGED lifeVars PROVE LeasesExact'
        BY <2>4 DEF WorkerWakes, assetVars, recordVars
  <2>5. ASSUME WorkerTakes, UNCHANGED lifeVars PROVE LeasesExact'
    <3>1. PICK j \in JobIds : /\ status[j] = "queued"
                              /\ status' = [status EXCEPT ![j] = "loading"]
                              /\ running = NoJob /\ running' = j
                              /\ Touch(j)
          BY <2>5, TakesFacts
    <3> QED BY <2>5, <3>1, LiveFacts DEF WorkerTakes, assetVars
  <2>6. ASSUME WorkerTakesAndFails, UNCHANGED lifeVars PROVE LeasesExact'
    <3>1. PICK j \in JobIds : /\ status[j] = "queued"
                              /\ status' = [status EXCEPT ![j] = "failed"]
                              /\ leases' = Released({j})
          BY <2>6, TakesAndFailsFacts
    <3> QED BY <2>6, <3>1, LiveFacts DEF WorkerTakesAndFails, Released
  <2> QED BY <1>5, <2>1, <2>2, <2>3, <2>4, <2>5, <2>6 DEF WorkerStep
<1>6. ASSUME BackendProgress PROVE LeasesExact'
  <2>1. ASSUME BackendWrites, UNCHANGED lifeVars PROVE LeasesExact'
        BY <2>1 DEF BackendWrites, assetVars, jobVars, recordVars
  <2>2. ASSUME NEW stage \in ActiveStages, ReportStage(stage), UNCHANGED lifeVars
        PROVE  LeasesExact'
        BY <2>2, LiveFacts, RunningFacts DEF ReportStage, Transition, assetVars
  <2> QED BY <1>6, <2>1, <2>2 DEF BackendProgress
<1>7. ASSUME BackendReturns PROVE LeasesExact'
  <2>1. ASSUME GenerationCompletes, UNCHANGED lifeVars PROVE LeasesExact'
        BY <2>1, LiveFacts, RunningFacts DEF GenerationCompletes, Transition,
           WorkerReleases, Released
  <2>2. ASSUME NEW ok \in PartialUnlink, GenerationEnds(ok), UNCHANGED lifeVars
        PROVE  LeasesExact'
        BY <2>2, LiveFacts, RunningFacts DEF GenerationEnds, Transition, WorkerReleases,
           Released
  <2> QED BY <1>7, <2>1, <2>2 DEF BackendReturns
<1>8. ASSUME SweptAny PROVE LeasesExact'
      BY <1>8, LiveFacts DEF SweptAny, Swept, Expirable, Forgettable
<1>9. ASSUME StartServer PROVE LeasesExact'
      BY <1>9 DEF StartServer, FirstSwept, assetVars, recordVars
<1>10. ASSUME StopServer PROVE LeasesExact'
      BY <1>10, LiveFacts DEF StopServer, Stop, Released
<1>11. ASSUME ProcessEnds PROVE LeasesExact'
      BY <1>11, LiveFacts DEF ProcessEnds, MemoryLost
<1>12. ASSUME Crash PROVE LeasesExact'
      BY <1>12, LiveFacts DEF Crash, MemoryLost
<1>13. ASSUME Tick PROVE LeasesExact'
      BY <1>13 DEF Tick, assetVars, jobVars, recordVars
<1>14. ASSUME FileVanishes PROVE LeasesExact'
      BY <1>14 DEF FileVanishes, assetVars, jobVars, recordVars
<1>15. ASSUME UNCHANGED vars PROVE LeasesExact'
      BY <1>15 DEF vars, assetVars, jobVars, recordVars
<1>16. ASSUME StartRaises PROVE LeasesExact'
      BY <1>16 DEF StartRaises, FirstSwept, assetVars, recordVars
<1> QED BY <1>1, <1>2, <1>3, <1>4, <1>5, <1>6, <1>7, <1>8, <1>9, <1>10, <1>11, <1>12,
   <1>13, <1>14, <1>15, <1>16, SweptPart DEF Next

\* The leases keep DELETE and the sweep away from the inputs.
LEMMA InputsStep ==
  TypeOK /\ DownIsEmpty /\ QueueExact /\ OneActiveJob /\ LeasesExact /\ InputsStay /\
  [Next]_vars
    => InputsStay'
<1> SUFFICES ASSUME TypeOK, DownIsEmpty, QueueExact, OneActiveJob, LeasesExact,
                    InputsStay, [Next]_vars
             PROVE  InputsStay'
    OBVIOUS
<1> USE AssetAssumption DEF TypeOK, StorageTypeOK, JobTypeOK, AssetTypeOK, Never,
         InputsStay
<1>1. ASSUME NEW a \in AssetIds, AssetStep(a) PROVE InputsStay'
      BY <1>1 DEF AssetStep, UploadBegin, UploadChunk, DeleteAsset, Removed,
         LeasesExact, assetVars, jobVars, recordVars, queueVars, lifeVars
<1>2. ASSUME NEW a \in AssetIds, UploadEnds(a) PROVE InputsStay'
      BY <1>2 DEF UploadEnds, UploadPublish, UploadFails, PublishAsset, Removed,
         jobVars, recordVars, queueVars, lifeVars
<1>3. ASSUME NEW j \in JobIds, ResponseEnds(j) PROVE InputsStay'
      BY <1>3 DEF ResponseEnds, EndDownload, queueVars, assetVars, lifeVars
<1>4. ASSUME NEW j \in JobIds, RequestStep(j) PROVE InputsStay'
  <2>1. ASSUME NEW assets \in SUBSET AssetIds, Submit(j, assets), UNCHANGED lifeVars
        PROVE  InputsStay'
        BY <2>1, LiveFacts DEF Submit, Acquire, Usable, storageVars, lifeVars
  <2>2. ASSUME GetExpires(j), UNCHANGED lifeVars PROVE InputsStay'
        BY <2>2, LiveFacts DEF GetExpires, Expirable, Transition, assetVars, queueVars,
           lifeVars
  <2>3. ASSUME BeginDownload(j), UNCHANGED lifeVars PROVE InputsStay'
        BY <2>3 DEF BeginDownload, storageVars, assetVars, queueVars, lifeVars
  <2>4. ASSUME BeginDownloadMissing(j), UNCHANGED lifeVars PROVE InputsStay'
        BY <2>4, LiveFacts DEF BeginDownloadMissing, Downloadable, Transition,
           storageVars, assetVars, queueVars, lifeVars
  <2>5. ASSUME DeleteQueued(j), UNCHANGED lifeVars PROVE InputsStay'
        BY <2>5, LiveFacts DEF DeleteQueued, Transition, lifeVars
  <2>6. ASSUME DeleteRunning(j), UNCHANGED lifeVars PROVE InputsStay'
        BY <2>6 DEF DeleteRunning, KeepSlot, storageVars, lifeVars
  <2>7. ASSUME NEW ok \in OutputUnlink(j), DeleteFinished(j, ok), UNCHANGED lifeVars
        PROVE  InputsStay'
        BY <2>7, LiveFacts DEF DeleteFinished, Transition, AfterDelete, assetVars,
           queueVars, lifeVars
  <2> QED BY <1>4, <2>1, <2>2, <2>3, <2>4, <2>5, <2>6, <2>7 DEF RequestStep
<1>5. ASSUME WorkerStep PROVE InputsStay'
  <2>1. ASSUME Initialized, UNCHANGED lifeVars PROVE InputsStay'
        BY <2>1 DEF Initialized, storageVars, assetVars, recordVars, lifeVars
  <2>2. ASSUME WorkerExits, UNCHANGED lifeVars PROVE InputsStay'
        BY <2>2 DEF WorkerExits, storageVars, assetVars, recordVars, lifeVars
  <2>3. ASSUME WorkerSleeps, UNCHANGED lifeVars PROVE InputsStay'
        BY <2>3 DEF WorkerSleeps, storageVars, assetVars, recordVars, lifeVars
  <2>4. ASSUME WorkerWakes, UNCHANGED lifeVars PROVE InputsStay'
        BY <2>4 DEF WorkerWakes, storageVars, assetVars, recordVars, lifeVars
  <2>5. ASSUME WorkerTakes, UNCHANGED lifeVars PROVE InputsStay'
    <3>1. PICK j \in JobIds : /\ status[j] = "queued"
                              /\ status' = [status EXCEPT ![j] = "loading"]
                              /\ running = NoJob /\ running' = j
                              /\ Touch(j)
          BY <2>5, TakesFacts
    <3> QED BY <2>5, <3>1, LiveFacts DEF WorkerTakes, assetVars, lifeVars
  <2>6. ASSUME WorkerTakesAndFails, UNCHANGED lifeVars PROVE InputsStay'
    <3>1. PICK j \in JobIds : /\ status[j] = "queued"
                              /\ status' = [status EXCEPT ![j] = "failed"]
                              /\ leases' = Released({j})
          BY <2>6, TakesAndFailsFacts
    <3> QED BY <2>6, <3>1, LiveFacts DEF WorkerTakesAndFails, storageVars, lifeVars
  <2> QED BY <1>5, <2>1, <2>2, <2>3, <2>4, <2>5, <2>6 DEF WorkerStep
<1>6. ASSUME BackendProgress PROVE InputsStay'
  <2>1. ASSUME BackendWrites, UNCHANGED lifeVars PROVE InputsStay'
        BY <2>1 DEF BackendWrites, assetVars, jobVars, recordVars, queueVars, lifeVars
  <2>2. ASSUME NEW stage \in ActiveStages, ReportStage(stage), UNCHANGED lifeVars
        PROVE  InputsStay'
        BY <2>2, LiveFacts, RunningFacts DEF ReportStage, Transition, storageVars,
           assetVars, queueVars, lifeVars
  <2> QED BY <1>6, <2>1, <2>2 DEF BackendProgress
<1>7. ASSUME BackendReturns PROVE InputsStay'
  <2>1. ASSUME GenerationCompletes, UNCHANGED lifeVars PROVE InputsStay'
        BY <2>1, LiveFacts, RunningFacts DEF GenerationCompletes, Transition,
           WorkerReleases, PublishOutput, lifeVars
  <2>2. ASSUME NEW ok \in PartialUnlink, GenerationEnds(ok), UNCHANGED lifeVars
        PROVE  InputsStay'
        BY <2>2, LiveFacts, RunningFacts DEF GenerationEnds, Transition, WorkerReleases,
           lifeVars
  <2> QED BY <1>7, <2>1, <2>2 DEF BackendReturns
<1>8. ASSUME SweptAny PROVE InputsStay'
      BY <1>8, LiveFacts, SweptFiles, SweptJobs DEF Stale, LeasesExact, Expirable,
         Forgettable, lifeVars
<1>9. ASSUME StartServer PROVE InputsStay'
      BY <1>9, LiveFacts DEF StartServer, FirstSwept, DownIsEmpty, assetVars, recordVars
<1>10. ASSUME StopServer PROVE InputsStay'
      BY <1>10, LiveFacts DEF StopServer, Stop, storageVars
<1>11. ASSUME ProcessEnds PROVE InputsStay'
      BY <1>11, LiveFacts DEF ProcessEnds, MemoryLost, storageVars
<1>12. ASSUME Crash PROVE InputsStay'
      BY <1>12, LiveFacts DEF Crash, MemoryLost, storageVars
<1>13. ASSUME Tick PROVE InputsStay'
      BY <1>13 DEF Tick, storageVars, assetVars, jobVars, recordVars, queueVars,
         lifeVars
<1>14. ASSUME FileVanishes PROVE InputsStay'
      BY <1>14 DEF FileVanishes, Removed, assetVars, jobVars, recordVars, queueVars
<1>15. ASSUME UNCHANGED vars PROVE InputsStay'
      BY <1>15 DEF vars, storageVars, assetVars, jobVars, recordVars, queueVars,
         lifeVars
<1>16. ASSUME StartRaises PROVE InputsStay'
      BY <1>16, LiveFacts DEF StartRaises, FirstSwept, DownIsEmpty, assetVars, recordVars
<1> QED BY <1>1, <1>2, <1>3, <1>4, <1>5, <1>6, <1>7, <1>8, <1>9, <1>10, <1>11, <1>12,
   <1>13, <1>14, <1>15, <1>16, SweptPart DEF Next

\* Whoever owns a partial file is in the set the sweep protects.
LEMMA PartialsStep ==
  TypeOK /\ DownIsEmpty /\ OneActiveJob /\ PartialsStay /\ [Next]_vars
    => PartialsStay'
<1> SUFFICES ASSUME TypeOK, DownIsEmpty, OneActiveJob, PartialsStay, [Next]_vars
             PROVE  PartialsStay'
    OBVIOUS
<1> USE StorageAssumption, JobAssumption
    DEF TypeOK, StorageTypeOK, JobTypeOK, AssetTypeOK, Time, Never,
         PartialsStay
<1>1. ASSUME NEW a \in AssetIds, AssetStep(a) PROVE PartialsStay'
      BY <1>1 DEF AssetStep, UploadBegin, UploadChunk, DeleteAsset, Touch, assetVars,
         jobVars, recordVars, queueVars, lifeVars
<1>2. ASSUME NEW a \in AssetIds, UploadEnds(a) PROVE PartialsStay'
      BY <1>2 DEF UploadEnds, UploadPublish, UploadFails, PublishAsset, Removed,
         jobVars, recordVars, queueVars, lifeVars
<1>3. ASSUME NEW j \in JobIds, ResponseEnds(j) PROVE PartialsStay'
      BY <1>3 DEF ResponseEnds, EndDownload, queueVars, assetVars, lifeVars
<1>4. ASSUME NEW j \in JobIds, RequestStep(j) PROVE PartialsStay'
  <2>1. ASSUME NEW assets \in SUBSET AssetIds, Submit(j, assets), UNCHANGED lifeVars
        PROVE  PartialsStay'
        BY <2>1 DEF Submit, storageVars, lifeVars
  <2>2. ASSUME GetExpires(j), UNCHANGED lifeVars PROVE PartialsStay'
        BY <2>2 DEF GetExpires, assetVars, queueVars, lifeVars
  <2>3. ASSUME BeginDownload(j), UNCHANGED lifeVars PROVE PartialsStay'
        BY <2>3 DEF BeginDownload, storageVars, assetVars, queueVars, lifeVars
  <2>4. ASSUME BeginDownloadMissing(j), UNCHANGED lifeVars PROVE PartialsStay'
        BY <2>4 DEF BeginDownloadMissing, storageVars, assetVars, queueVars, lifeVars
  <2>5. ASSUME DeleteQueued(j), UNCHANGED lifeVars PROVE PartialsStay'
        BY <2>5 DEF DeleteQueued, lifeVars
  <2>6. ASSUME DeleteRunning(j), UNCHANGED lifeVars PROVE PartialsStay'
        BY <2>6 DEF DeleteRunning, KeepSlot, storageVars, lifeVars
  <2>7. ASSUME NEW ok \in OutputUnlink(j), DeleteFinished(j, ok), UNCHANGED lifeVars
        PROVE  PartialsStay'
        BY <2>7 DEF DeleteFinished, assetVars, queueVars, lifeVars
  <2> QED BY <1>4, <2>1, <2>2, <2>3, <2>4, <2>5, <2>6, <2>7 DEF RequestStep
<1>5. ASSUME WorkerStep PROVE PartialsStay'
  <2>1. ASSUME Initialized, UNCHANGED lifeVars PROVE PartialsStay'
        BY <2>1 DEF Initialized, storageVars, assetVars, recordVars, lifeVars
  <2>2. ASSUME WorkerExits, UNCHANGED lifeVars PROVE PartialsStay'
        BY <2>2 DEF WorkerExits, storageVars, assetVars, recordVars, lifeVars
  <2>3. ASSUME WorkerSleeps, UNCHANGED lifeVars PROVE PartialsStay'
        BY <2>3 DEF WorkerSleeps, storageVars, assetVars, recordVars, lifeVars
  <2>4. ASSUME WorkerWakes, UNCHANGED lifeVars PROVE PartialsStay'
        BY <2>4 DEF WorkerWakes, storageVars, assetVars, recordVars, lifeVars
  <2>5. ASSUME WorkerTakes, UNCHANGED lifeVars PROVE PartialsStay'
        BY <2>5 DEF WorkerTakes, Touch, assetVars, lifeVars
  <2>6. ASSUME WorkerTakesAndFails, UNCHANGED lifeVars PROVE PartialsStay'
        BY <2>6 DEF WorkerTakesAndFails, storageVars, lifeVars
  <2> QED BY <1>5, <2>1, <2>2, <2>3, <2>4, <2>5, <2>6 DEF WorkerStep
<1>6. ASSUME BackendProgress PROVE PartialsStay'
  <2>1. ASSUME BackendWrites, UNCHANGED lifeVars PROVE PartialsStay'
        BY <2>1 DEF BackendWrites, Touch, assetVars, jobVars, recordVars, queueVars,
           lifeVars
  <2>2. ASSUME NEW stage \in ActiveStages, ReportStage(stage), UNCHANGED lifeVars
        PROVE  PartialsStay'
        BY <2>2 DEF ReportStage, storageVars, assetVars, queueVars, lifeVars
  <2> QED BY <1>6, <2>1, <2>2 DEF BackendProgress
<1>7. ASSUME BackendReturns PROVE PartialsStay'
  <2>1. ASSUME GenerationCompletes, UNCHANGED lifeVars PROVE PartialsStay'
        BY <2>1 DEF GenerationCompletes, WorkerReleases, PublishOutput, Removed,
           lifeVars
  <2>2. ASSUME NEW ok \in PartialUnlink, GenerationEnds(ok), UNCHANGED lifeVars
        PROVE  PartialsStay'
        BY <2>2 DEF GenerationEnds, WorkerReleases, Removed, lifeVars
  <2> QED BY <1>7, <2>1, <2>2 DEF BackendReturns
<1>8. ASSUME SweptAny PROVE PartialsStay'
  <2>1. running' = running /\ uploading' = uploading
        BY <1>8 DEF SweptAny, Swept, queueVars
  <2>2. ASSUME NEW id \in JobIds \cup AssetIds, running = id \/ id \in uploading
        PROVE  id \in ProtectedTmp
        BY <2>2, LiveFacts DEF ProtectedTmp, OneActiveJob
  <2>3. \A id \in ProtectedTmp : tmp'[id] = tmp[id]
        BY <1>8, SweptFiles
  <2> QED BY <2>1, <2>2, <2>3
<1>9. ASSUME StartServer PROVE PartialsStay'
      BY <1>9 DEF StartServer, FirstSwept, DownIsEmpty, assetVars, recordVars
<1>10. ASSUME StopServer PROVE PartialsStay'
      BY <1>10 DEF StopServer, Stop, storageVars
<1>11. ASSUME ProcessEnds PROVE PartialsStay'
      BY <1>11 DEF ProcessEnds, MemoryLost, storageVars
<1>12. ASSUME Crash PROVE PartialsStay'
      BY <1>12 DEF Crash, MemoryLost, storageVars
<1>13. ASSUME Tick PROVE PartialsStay'
      BY <1>13 DEF Tick, storageVars, assetVars, jobVars, recordVars, queueVars,
         lifeVars
<1>14. ASSUME FileVanishes PROVE PartialsStay'
      BY <1>14 DEF FileVanishes, assetVars, jobVars, recordVars, queueVars
<1>15. ASSUME UNCHANGED vars PROVE PartialsStay'
      BY <1>15 DEF vars, storageVars, assetVars, jobVars, recordVars, queueVars,
         lifeVars
<1>16. ASSUME StartRaises PROVE PartialsStay'
      BY <1>16 DEF StartRaises, FirstSwept, DownIsEmpty, assetVars, recordVars
<1> QED BY <1>1, <1>2, <1>3, <1>4, <1>5, <1>6, <1>7, <1>8, <1>9, <1>10, <1>11, <1>12,
   <1>13, <1>14, <1>15, <1>16, SweptPart DEF Next

\* Output, deadline and status change together, and only in step with the file.
LEMMA ServableStep ==
  TypeOK /\ DownIsEmpty /\ QueueExact /\ OneActiveJob /\ DeferredDeleteHasOwner /\
  CompleteIsServable /\ [Next]_vars
    => CompleteIsServable'
<1> SUFFICES ASSUME TypeOK, DownIsEmpty, QueueExact, OneActiveJob,
                    DeferredDeleteHasOwner, CompleteIsServable, [Next]_vars
             PROVE  CompleteIsServable'
    OBVIOUS
<1> USE DEF TypeOK, StorageTypeOK, JobTypeOK, Time, Never, CompleteIsServable
<1>1. ASSUME NEW a \in AssetIds, AssetStep(a) PROVE CompleteIsServable'
      BY <1>1 DEF AssetStep, UploadBegin, UploadChunk, DeleteAsset, assetVars, jobVars,
         recordVars, queueVars, lifeVars
<1>2. ASSUME NEW a \in AssetIds, UploadEnds(a) PROVE CompleteIsServable'
      BY <1>2 DEF UploadEnds, UploadPublish, UploadFails, PublishAsset, jobVars,
         recordVars, queueVars, lifeVars
<1>3. ASSUME NEW j \in JobIds, ResponseEnds(j) PROVE CompleteIsServable'
      BY <1>3, JobAssumption DEF ResponseEnds, EndDownload, DeletionDue, Shortened,
         Removed, DeferredDeleteHasOwner, queueVars, assetVars, lifeVars
<1>4. ASSUME NEW j \in JobIds, RequestStep(j) PROVE CompleteIsServable'
  <2>1. ASSUME NEW assets \in SUBSET AssetIds, Submit(j, assets), UNCHANGED lifeVars
        PROVE  CompleteIsServable'
        BY <2>1, LiveFacts DEF Submit, SetWake, storageVars, lifeVars
  <2>2. ASSUME GetExpires(j), UNCHANGED lifeVars PROVE CompleteIsServable'
        BY <2>2, LiveFacts DEF GetExpires, Expirable, Transition, ClearOutput,
           DeleteOutput, Removed, assetVars, queueVars, lifeVars
  <2>3. ASSUME BeginDownload(j), UNCHANGED lifeVars PROVE CompleteIsServable'
        BY <2>3 DEF BeginDownload, storageVars, assetVars, queueVars, lifeVars
  <2>4. ASSUME BeginDownloadMissing(j), UNCHANGED lifeVars PROVE CompleteIsServable'
        BY <2>4, LiveFacts DEF BeginDownloadMissing, Downloadable, Transition,
           ClearOutput, storageVars, assetVars, queueVars, lifeVars
  <2>5. ASSUME DeleteQueued(j), UNCHANGED lifeVars PROVE CompleteIsServable'
        BY <2>5, LiveFacts DEF DeleteQueued, Transition, ClearOutput, DeleteOutput,
           Removed, lifeVars
  <2>6. ASSUME DeleteRunning(j), UNCHANGED lifeVars PROVE CompleteIsServable'
        BY <2>6 DEF DeleteRunning, KeepSlot, storageVars, lifeVars
  <2>7. ASSUME NEW ok \in OutputUnlink(j), DeleteFinished(j, ok), UNCHANGED lifeVars
        PROVE  CompleteIsServable'
        BY <2>7, LiveFacts DEF DeleteFinished, Transition, AfterDelete, ClearOutput,
           DeleteOutput, Removed, assetVars, queueVars, lifeVars
  <2> QED BY <1>4, <2>1, <2>2, <2>3, <2>4, <2>5, <2>6, <2>7 DEF RequestStep
<1>5. ASSUME WorkerStep PROVE CompleteIsServable'
  <2>1. ASSUME Initialized, UNCHANGED lifeVars PROVE CompleteIsServable'
        BY <2>1 DEF Initialized, storageVars, assetVars, recordVars, lifeVars
  <2>2. ASSUME WorkerExits, UNCHANGED lifeVars PROVE CompleteIsServable'
        BY <2>2 DEF WorkerExits, storageVars, assetVars, recordVars, lifeVars
  <2>3. ASSUME WorkerSleeps, UNCHANGED lifeVars PROVE CompleteIsServable'
        BY <2>3 DEF WorkerSleeps, storageVars, assetVars, recordVars, lifeVars
  <2>4. ASSUME WorkerWakes, UNCHANGED lifeVars PROVE CompleteIsServable'
        BY <2>4 DEF WorkerWakes, storageVars, assetVars, recordVars, lifeVars
  <2>5. ASSUME WorkerTakes, UNCHANGED lifeVars PROVE CompleteIsServable'
    <3>1. PICK j \in JobIds : /\ status[j] = "queued"
                              /\ status' = [status EXCEPT ![j] = "loading"]
                              /\ running = NoJob /\ running' = j
                              /\ Touch(j)
          BY <2>5, TakesFacts
    <3> QED BY <2>5, <3>1, LiveFacts DEF WorkerTakes, lifeVars
  <2>6. ASSUME WorkerTakesAndFails, UNCHANGED lifeVars PROVE CompleteIsServable'
    <3>1. PICK j \in JobIds : /\ status[j] = "queued"
                              /\ status' = [status EXCEPT ![j] = "failed"]
                              /\ leases' = Released({j})
          BY <2>6, TakesAndFailsFacts
    <3> QED BY <2>6, <3>1, LiveFacts DEF WorkerTakesAndFails, storageVars, lifeVars
  <2> QED BY <1>5, <2>1, <2>2, <2>3, <2>4, <2>5, <2>6 DEF WorkerStep
<1>6. ASSUME BackendProgress PROVE CompleteIsServable'
  <2>1. ASSUME BackendWrites, UNCHANGED lifeVars PROVE CompleteIsServable'
        BY <2>1 DEF BackendWrites, assetVars, jobVars, recordVars, queueVars, lifeVars
  <2>2. ASSUME NEW stage \in ActiveStages, ReportStage(stage), UNCHANGED lifeVars
        PROVE  CompleteIsServable'
        BY <2>2, LiveFacts, RunningFacts DEF ReportStage, Transition, storageVars,
           assetVars, queueVars, lifeVars
  <2> QED BY <1>6, <2>1, <2>2 DEF BackendProgress
<1>7. ASSUME BackendReturns PROVE CompleteIsServable'
  <2>1. ASSUME GenerationCompletes, UNCHANGED lifeVars PROVE CompleteIsServable'
        BY <2>1, LiveFacts, RunningFacts, JobAssumption DEF GenerationCompletes,
           Transition, WorkerReleases, PublishOutput, lifeVars
  <2>2. ASSUME NEW ok \in PartialUnlink, GenerationEnds(ok), UNCHANGED lifeVars
        PROVE  CompleteIsServable'
        BY <2>2, LiveFacts, RunningFacts DEF GenerationEnds, Transition, WorkerReleases,
           Removed, lifeVars
  <2> QED BY <1>7, <2>1, <2>2 DEF BackendReturns
<1>8. ASSUME SweptAny PROVE CompleteIsServable'
  <2>1. ASSUME NEW j \in JobIds
        PROVE  j \in output' <=> status'[j] = "complete"
        BY <1>8, <2>1, SweptJobs
  <2>2. ASSUME NEW j \in JobIds, status'[j] = "complete"
        PROVE  expiresAt'[j] # Never /\ (outputs'[j] # Never \/ j \in gone')
    <3>1. /\ status[j] = "complete" /\ expiresAt'[j] = expiresAt[j] /\ j \in output'
          /\ j \in output /\ gone' = gone
          BY <1>8, <2>2, SweptJobs DEF lifeVars
    <3>2. outputs'[j] = outputs[j]
          BY <1>8, <2>2, <3>1, SweptFiles DEF ProtectedOutputs
    <3> QED BY <3>1, <3>2
  <2> QED BY <2>1, <2>2
<1>9. ASSUME StartServer PROVE CompleteIsServable'
      BY <1>9, LiveFacts DEF StartServer, FirstSwept, DownIsEmpty, assetVars, recordVars
<1>10. ASSUME StopServer PROVE CompleteIsServable'
      BY <1>10, LiveFacts DEF StopServer, Stop, QueueExact, storageVars
<1>11. ASSUME ProcessEnds PROVE CompleteIsServable'
      BY <1>11, LiveFacts DEF ProcessEnds, MemoryLost, storageVars
<1>12. ASSUME Crash PROVE CompleteIsServable'
      BY <1>12, LiveFacts DEF Crash, MemoryLost, storageVars
<1>13. ASSUME Tick PROVE CompleteIsServable'
      BY <1>13 DEF Tick, storageVars, assetVars, jobVars, recordVars, queueVars,
         lifeVars
<1>14. ASSUME FileVanishes PROVE CompleteIsServable'
      BY <1>14 DEF FileVanishes, Removed, assetVars, jobVars, recordVars, queueVars
<1>15. ASSUME UNCHANGED vars PROVE CompleteIsServable'
      BY <1>15 DEF vars, storageVars, assetVars, jobVars, recordVars, queueVars,
         lifeVars
<1>16. ASSUME StartRaises PROVE CompleteIsServable'
      BY <1>16, LiveFacts DEF StartRaises, FirstSwept, DownIsEmpty, assetVars, recordVars
<1> QED BY <1>1, <1>2, <1>3, <1>4, <1>5, <1>6, <1>7, <1>8, <1>9, <1>10, <1>11, <1>12,
   <1>13, <1>14, <1>15, <1>16, SweptPart DEF Next

\* No unlink of an output looks past its pins.
LEMMA PinnedStep ==
  TypeOK /\ DownIsEmpty /\ QueueExact /\ OneActiveJob /\ PinnedFileStays /\
  [Next]_vars
    => PinnedFileStays'
<1> SUFFICES ASSUME TypeOK, DownIsEmpty, QueueExact, OneActiveJob, PinnedFileStays,
                    [Next]_vars
             PROVE  PinnedFileStays'
    OBVIOUS
<1> USE DEF TypeOK, StorageTypeOK, JobTypeOK, Time, Never, PinnedFileStays
<1>1. ASSUME NEW a \in AssetIds, AssetStep(a) PROVE PinnedFileStays'
      BY <1>1 DEF AssetStep, UploadBegin, UploadChunk, DeleteAsset, assetVars, jobVars,
         recordVars, queueVars, lifeVars
<1>2. ASSUME NEW a \in AssetIds, UploadEnds(a) PROVE PinnedFileStays'
      BY <1>2 DEF UploadEnds, UploadPublish, UploadFails, PublishAsset, jobVars,
         recordVars, queueVars, lifeVars
<1>3. ASSUME NEW j \in JobIds, ResponseEnds(j) PROVE PinnedFileStays'
      BY <1>3 DEF ResponseEnds, EndDownload, Pinned, DeletionDue, Removed, queueVars,
         assetVars, lifeVars
<1>4. ASSUME NEW j \in JobIds, RequestStep(j) PROVE PinnedFileStays'
  <2>1. ASSUME NEW assets \in SUBSET AssetIds, Submit(j, assets), UNCHANGED lifeVars
        PROVE  PinnedFileStays'
        BY <2>1, LiveFacts DEF Submit, SetWake, storageVars, lifeVars
  <2>2. ASSUME GetExpires(j), UNCHANGED lifeVars PROVE PinnedFileStays'
        BY <2>2, LiveFacts DEF GetExpires, Expirable, Transition, DeleteOutput, Removed,
           assetVars, queueVars, lifeVars
  <2>3. ASSUME BeginDownload(j), UNCHANGED lifeVars PROVE PinnedFileStays'
        BY <2>3, LiveFacts DEF BeginDownload, Downloadable, storageVars, assetVars,
           queueVars, lifeVars
  <2>4. ASSUME BeginDownloadMissing(j), UNCHANGED lifeVars PROVE PinnedFileStays'
        BY <2>4, LiveFacts DEF BeginDownloadMissing, Downloadable, Transition,
           storageVars, assetVars, queueVars, lifeVars
  <2>5. ASSUME DeleteQueued(j), UNCHANGED lifeVars PROVE PinnedFileStays'
        BY <2>5, LiveFacts DEF DeleteQueued, Transition, DeleteOutput, Removed, lifeVars
  <2>6. ASSUME DeleteRunning(j), UNCHANGED lifeVars PROVE PinnedFileStays'
        BY <2>6 DEF DeleteRunning, KeepSlot, storageVars, lifeVars
  <2>7. ASSUME NEW ok \in OutputUnlink(j), DeleteFinished(j, ok), UNCHANGED lifeVars
        PROVE  PinnedFileStays'
        BY <2>7, LiveFacts DEF DeleteFinished, Transition, AfterDelete, DeleteOutput,
           Removed, assetVars, queueVars, lifeVars
  <2> QED BY <1>4, <2>1, <2>2, <2>3, <2>4, <2>5, <2>6, <2>7 DEF RequestStep
<1>5. ASSUME WorkerStep PROVE PinnedFileStays'
  <2>1. ASSUME Initialized, UNCHANGED lifeVars PROVE PinnedFileStays'
        BY <2>1 DEF Initialized, storageVars, assetVars, recordVars, lifeVars
  <2>2. ASSUME WorkerExits, UNCHANGED lifeVars PROVE PinnedFileStays'
        BY <2>2 DEF WorkerExits, storageVars, assetVars, recordVars, lifeVars
  <2>3. ASSUME WorkerSleeps, UNCHANGED lifeVars PROVE PinnedFileStays'
        BY <2>3 DEF WorkerSleeps, storageVars, assetVars, recordVars, lifeVars
  <2>4. ASSUME WorkerWakes, UNCHANGED lifeVars PROVE PinnedFileStays'
        BY <2>4 DEF WorkerWakes, storageVars, assetVars, recordVars, lifeVars
  <2>5. ASSUME WorkerTakes, UNCHANGED lifeVars PROVE PinnedFileStays'
    <3>1. PICK j \in JobIds : /\ status[j] = "queued"
                              /\ status' = [status EXCEPT ![j] = "loading"]
                              /\ running = NoJob /\ running' = j
                              /\ Touch(j)
          BY <2>5, TakesFacts
    <3> QED BY <2>5, <3>1, LiveFacts DEF WorkerTakes, lifeVars
  <2>6. ASSUME WorkerTakesAndFails, UNCHANGED lifeVars PROVE PinnedFileStays'
    <3>1. PICK j \in JobIds : /\ status[j] = "queued"
                              /\ status' = [status EXCEPT ![j] = "failed"]
                              /\ leases' = Released({j})
          BY <2>6, TakesAndFailsFacts
    <3> QED BY <2>6, <3>1, LiveFacts DEF WorkerTakesAndFails, storageVars, lifeVars
  <2> QED BY <1>5, <2>1, <2>2, <2>3, <2>4, <2>5, <2>6 DEF WorkerStep
<1>6. ASSUME BackendProgress PROVE PinnedFileStays'
  <2>1. ASSUME BackendWrites, UNCHANGED lifeVars PROVE PinnedFileStays'
        BY <2>1 DEF BackendWrites, assetVars, jobVars, recordVars, queueVars, lifeVars
  <2>2. ASSUME NEW stage \in ActiveStages, ReportStage(stage), UNCHANGED lifeVars
        PROVE  PinnedFileStays'
        BY <2>2, LiveFacts, RunningFacts DEF ReportStage, Transition, storageVars,
           assetVars, queueVars, lifeVars
  <2> QED BY <1>6, <2>1, <2>2 DEF BackendProgress
<1>7. ASSUME BackendReturns PROVE PinnedFileStays'
  <2>1. ASSUME GenerationCompletes, UNCHANGED lifeVars PROVE PinnedFileStays'
        BY <2>1, LiveFacts, RunningFacts DEF GenerationCompletes, Transition,
           WorkerReleases, PublishOutput, lifeVars
  <2>2. ASSUME NEW ok \in PartialUnlink, GenerationEnds(ok), UNCHANGED lifeVars
        PROVE  PinnedFileStays'
        BY <2>2, LiveFacts, RunningFacts DEF GenerationEnds, Transition, WorkerReleases,
           Removed, lifeVars
  <2> QED BY <1>7, <2>1, <2>2 DEF BackendReturns
<1>8. ASSUME SweptAny PROVE PinnedFileStays'
      BY <1>8, LiveFacts, SweptFiles, SweptJobs DEF ProtectedOutputs, Expirable,
         Forgettable, lifeVars
<1>9. ASSUME StartServer PROVE PinnedFileStays'
      BY <1>9, LiveFacts DEF StartServer, FirstSwept, DownIsEmpty, assetVars, recordVars
<1>10. ASSUME StopServer PROVE PinnedFileStays'
      BY <1>10, LiveFacts DEF StopServer, Stop, QueueExact, storageVars
<1>11. ASSUME ProcessEnds PROVE PinnedFileStays'
      BY <1>11, LiveFacts DEF ProcessEnds, MemoryLost, storageVars
<1>12. ASSUME Crash PROVE PinnedFileStays'
      BY <1>12, LiveFacts DEF Crash, MemoryLost, storageVars
<1>13. ASSUME Tick PROVE PinnedFileStays'
      BY <1>13 DEF Tick, storageVars, assetVars, jobVars, recordVars, queueVars,
         lifeVars
<1>14. ASSUME FileVanishes PROVE PinnedFileStays'
      BY <1>14 DEF FileVanishes, Removed, assetVars, jobVars, recordVars, queueVars
<1>15. ASSUME UNCHANGED vars PROVE PinnedFileStays'
      BY <1>15 DEF vars, storageVars, assetVars, jobVars, recordVars, queueVars,
         lifeVars
<1>16. ASSUME StartRaises PROVE PinnedFileStays'
      BY <1>16, LiveFacts DEF StartRaises, FirstSwept, DownIsEmpty, assetVars, recordVars
<1> QED BY <1>1, <1>2, <1>3, <1>4, <1>5, <1>6, <1>7, <1>8, <1>9, <1>10, <1>11, <1>12,
   <1>13, <1>14, <1>15, <1>16, SweptPart DEF Next

\* The flag is set where a pin or a failed unlink kept the file, and cleared with the file.
LEMMA DeferredStep ==
  TypeOK /\ DownIsEmpty /\ QueueExact /\ OneActiveJob /\ PinnedFileStays /\
  DeferredDeleteHasOwner /\ [Next]_vars
    => DeferredDeleteHasOwner'
<1> SUFFICES ASSUME TypeOK, DownIsEmpty, QueueExact, OneActiveJob, PinnedFileStays,
                    DeferredDeleteHasOwner, [Next]_vars
             PROVE  DeferredDeleteHasOwner'
    OBVIOUS
<1> USE DEF TypeOK, JobTypeOK, DeferredDeleteHasOwner
<1>1. ASSUME NEW a \in AssetIds, AssetStep(a) PROVE DeferredDeleteHasOwner'
      BY <1>1 DEF AssetStep, UploadBegin, UploadChunk, DeleteAsset, jobVars, recordVars,
         lifeVars
<1>2. ASSUME NEW a \in AssetIds, UploadEnds(a) PROVE DeferredDeleteHasOwner'
      BY <1>2 DEF UploadEnds, UploadPublish, UploadFails, jobVars, recordVars, lifeVars
<1>3. ASSUME NEW j \in JobIds, ResponseEnds(j) PROVE DeferredDeleteHasOwner'
  <2>1. ASSUME NEW successful \in BOOLEAN, NEW ok \in OutputUnlink(j),
               EndDownload(j, successful, ok)
        PROVE  DeferredDeleteHasOwner'
        BY <2>1, UnlinkFacts DEF EndDownload, Pinned, DeletionDue
  <2> QED BY <1>3, <2>1 DEF ResponseEnds
<1>4. ASSUME NEW j \in JobIds, RequestStep(j) PROVE DeferredDeleteHasOwner'
  <2>1. ASSUME NEW assets \in SUBSET AssetIds, Submit(j, assets), UNCHANGED lifeVars
        PROVE  DeferredDeleteHasOwner'
        BY <2>1, LiveFacts DEF Submit, SetWake, lifeVars
  <2>2. ASSUME GetExpires(j), UNCHANGED lifeVars PROVE DeferredDeleteHasOwner'
        BY <2>2, LiveFacts DEF GetExpires, Expirable, Transition, DeleteOutput, lifeVars
  <2>3. ASSUME BeginDownload(j), UNCHANGED lifeVars PROVE DeferredDeleteHasOwner'
        BY <2>3 DEF BeginDownload, lifeVars
  <2>4. ASSUME BeginDownloadMissing(j), UNCHANGED lifeVars PROVE DeferredDeleteHasOwner'
        BY <2>4, LiveFacts DEF BeginDownloadMissing, Downloadable, Transition, lifeVars
  <2>5. ASSUME DeleteQueued(j), UNCHANGED lifeVars PROVE DeferredDeleteHasOwner'
        BY <2>5, LiveFacts DEF DeleteQueued, Transition, DeleteOutput, PinnedFileStays,
           lifeVars
  <2>6. ASSUME DeleteRunning(j), UNCHANGED lifeVars PROVE DeferredDeleteHasOwner'
        BY <2>6 DEF DeleteRunning, KeepSlot, lifeVars
  <2>7. ASSUME NEW ok \in OutputUnlink(j), DeleteFinished(j, ok), UNCHANGED lifeVars
        PROVE  DeferredDeleteHasOwner'
        BY <2>7, LiveFacts, UnlinkFacts DEF DeleteFinished, Transition, AfterDelete,
           DeleteOutput, lifeVars
  <2> QED BY <1>4, <2>1, <2>2, <2>3, <2>4, <2>5, <2>6, <2>7 DEF RequestStep
<1>5. ASSUME WorkerStep PROVE DeferredDeleteHasOwner'
  <2>1. ASSUME Initialized, UNCHANGED lifeVars PROVE DeferredDeleteHasOwner'
        BY <2>1 DEF Initialized, recordVars, lifeVars
  <2>2. ASSUME WorkerExits, UNCHANGED lifeVars PROVE DeferredDeleteHasOwner'
        BY <2>2 DEF WorkerExits, recordVars, lifeVars
  <2>3. ASSUME WorkerSleeps, UNCHANGED lifeVars PROVE DeferredDeleteHasOwner'
        BY <2>3 DEF WorkerSleeps, recordVars, lifeVars
  <2>4. ASSUME WorkerWakes, UNCHANGED lifeVars PROVE DeferredDeleteHasOwner'
        BY <2>4 DEF WorkerWakes, recordVars, lifeVars
  <2>5. ASSUME WorkerTakes, UNCHANGED lifeVars PROVE DeferredDeleteHasOwner'
    <3>1. PICK j \in JobIds : /\ status[j] = "queued"
                              /\ status' = [status EXCEPT ![j] = "loading"]
                              /\ running = NoJob /\ running' = j
                              /\ Touch(j)
          BY <2>5, TakesFacts
    <3> QED BY <2>5, <3>1, LiveFacts DEF WorkerTakes
  <2>6. ASSUME WorkerTakesAndFails, UNCHANGED lifeVars PROVE DeferredDeleteHasOwner'
    <3>1. PICK j \in JobIds : /\ status[j] = "queued"
                              /\ status' = [status EXCEPT ![j] = "failed"]
                              /\ leases' = Released({j})
          BY <2>6, TakesAndFailsFacts
    <3> QED BY <2>6, <3>1, LiveFacts DEF WorkerTakesAndFails
  <2> QED BY <1>5, <2>1, <2>2, <2>3, <2>4, <2>5, <2>6 DEF WorkerStep
<1>6. ASSUME BackendProgress PROVE DeferredDeleteHasOwner'
  <2>1. ASSUME BackendWrites, UNCHANGED lifeVars PROVE DeferredDeleteHasOwner'
        BY <2>1 DEF BackendWrites, jobVars, recordVars, lifeVars
  <2>2. ASSUME NEW stage \in ActiveStages, ReportStage(stage), UNCHANGED lifeVars
        PROVE  DeferredDeleteHasOwner'
        BY <2>2, LiveFacts, RunningFacts DEF ReportStage, Transition, lifeVars
  <2> QED BY <1>6, <2>1, <2>2 DEF BackendProgress
<1>7. ASSUME BackendReturns PROVE DeferredDeleteHasOwner'
  <2>1. ASSUME GenerationCompletes, UNCHANGED lifeVars PROVE DeferredDeleteHasOwner'
        BY <2>1, LiveFacts, RunningFacts DEF GenerationCompletes, Transition,
           WorkerReleases, lifeVars
  <2>2. ASSUME NEW ok \in PartialUnlink, GenerationEnds(ok), UNCHANGED lifeVars
        PROVE  DeferredDeleteHasOwner'
        BY <2>2, LiveFacts, RunningFacts DEF GenerationEnds, Transition, WorkerReleases,
           lifeVars
  <2> QED BY <1>7, <2>1, <2>2 DEF BackendReturns
<1>8. ASSUME SweptAny PROVE DeferredDeleteHasOwner'
      BY <1>8, LiveFacts DEF SweptAny, Swept, Expirable, Forgettable, lifeVars
<1>9. ASSUME StartServer PROVE DeferredDeleteHasOwner'
      BY <1>9 DEF StartServer, FirstSwept, recordVars
<1>10. ASSUME StopServer PROVE DeferredDeleteHasOwner'
      BY <1>10, LiveFacts DEF StopServer, Stop, QueueExact
<1>11. ASSUME ProcessEnds PROVE DeferredDeleteHasOwner'
      BY <1>11, LiveFacts DEF ProcessEnds, MemoryLost
<1>12. ASSUME Crash PROVE DeferredDeleteHasOwner'
      BY <1>12, LiveFacts DEF Crash, MemoryLost
<1>13. ASSUME Tick PROVE DeferredDeleteHasOwner'
      BY <1>13 DEF Tick, jobVars, recordVars, lifeVars
<1>14. ASSUME FileVanishes PROVE DeferredDeleteHasOwner'
      BY <1>14 DEF FileVanishes, jobVars, recordVars
<1>15. ASSUME UNCHANGED vars PROVE DeferredDeleteHasOwner'
      BY <1>15 DEF vars, jobVars, recordVars, lifeVars
<1>16. ASSUME StartRaises PROVE DeferredDeleteHasOwner'
      BY <1>16 DEF StartRaises, FirstSwept, recordVars
<1> QED BY <1>1, <1>2, <1>3, <1>4, <1>5, <1>6, <1>7, <1>8, <1>9, <1>10, <1>11, <1>12,
   <1>13, <1>14, <1>15, <1>16, SweptPart DEF Next

\* Each end of a job deals with its output and its partial.
LEMMA StrayStep ==
  TypeOK /\ QueueExact /\ OneActiveJob /\ CompleteIsServable /\
  DeferredDeleteHasOwner /\ NoStrayFiles /\ [Next]_vars
    => NoStrayFiles'
<1> SUFFICES ASSUME TypeOK, QueueExact, OneActiveJob, CompleteIsServable,
                    DeferredDeleteHasOwner, NoStrayFiles, [Next]_vars
             PROVE  NoStrayFiles'
    OBVIOUS
<1> USE StorageAssumption, JobAssumption DEF TypeOK, StorageTypeOK, JobTypeOK, AssetTypeOK,
         Never, NoStrayFiles
<1>1. ASSUME NEW a \in AssetIds, AssetStep(a) PROVE NoStrayFiles'
      BY <1>1 DEF AssetStep, UploadBegin, UploadChunk, DeleteAsset, Touch, assetVars,
         jobVars, recordVars, queueVars, lifeVars
<1>2. ASSUME NEW a \in AssetIds, UploadEnds(a) PROVE NoStrayFiles'
      BY <1>2 DEF UploadEnds, UploadPublish, UploadFails, PublishAsset, Removed,
         jobVars, recordVars, queueVars, lifeVars
<1>3. ASSUME NEW j \in JobIds, ResponseEnds(j) PROVE NoStrayFiles'
      BY <1>3, LiveFacts DEF ResponseEnds, EndDownload, Removed, OutputUnlink,
         queueVars, assetVars, lifeVars
<1>4. ASSUME NEW j \in JobIds, RequestStep(j) PROVE NoStrayFiles'
  <2>1. ASSUME NEW assets \in SUBSET AssetIds, Submit(j, assets), UNCHANGED lifeVars
        PROVE  NoStrayFiles'
        BY <2>1, LiveFacts DEF Submit, SetWake, storageVars, lifeVars
  <2>2. ASSUME GetExpires(j), UNCHANGED lifeVars PROVE NoStrayFiles'
        BY <2>2, LiveFacts DEF GetExpires, Expirable, Transition, DeleteOutput, Removed,
           assetVars, queueVars, lifeVars
  <2>3. ASSUME BeginDownload(j), UNCHANGED lifeVars PROVE NoStrayFiles'
        BY <2>3 DEF BeginDownload, storageVars, assetVars, queueVars, lifeVars
  <2>4. ASSUME BeginDownloadMissing(j), UNCHANGED lifeVars PROVE NoStrayFiles'
        BY <2>4, LiveFacts DEF BeginDownloadMissing, Downloadable, Transition,
           storageVars, assetVars, queueVars, lifeVars
  <2>5. ASSUME DeleteQueued(j), UNCHANGED lifeVars PROVE NoStrayFiles'
        BY <2>5, LiveFacts DEF DeleteQueued, Transition, DeleteOutput, Removed, lifeVars
  <2>6. ASSUME DeleteRunning(j), UNCHANGED lifeVars PROVE NoStrayFiles'
        BY <2>6 DEF DeleteRunning, KeepSlot, storageVars, lifeVars
  <2>7. ASSUME NEW ok \in OutputUnlink(j), DeleteFinished(j, ok), UNCHANGED lifeVars
        PROVE  NoStrayFiles'
        BY <2>7, LiveFacts DEF DeleteFinished, Transition, AfterDelete, DeleteOutput,
           Removed, assetVars, queueVars, lifeVars
  <2> QED BY <1>4, <2>1, <2>2, <2>3, <2>4, <2>5, <2>6, <2>7 DEF RequestStep
<1>5. ASSUME WorkerStep PROVE NoStrayFiles'
  <2>1. ASSUME Initialized, UNCHANGED lifeVars PROVE NoStrayFiles'
        BY <2>1 DEF Initialized, storageVars, assetVars, recordVars, lifeVars
  <2>2. ASSUME WorkerExits, UNCHANGED lifeVars PROVE NoStrayFiles'
        BY <2>2 DEF WorkerExits, storageVars, assetVars, recordVars, lifeVars
  <2>3. ASSUME WorkerSleeps, UNCHANGED lifeVars PROVE NoStrayFiles'
        BY <2>3 DEF WorkerSleeps, storageVars, assetVars, recordVars, lifeVars
  <2>4. ASSUME WorkerWakes, UNCHANGED lifeVars PROVE NoStrayFiles'
        BY <2>4 DEF WorkerWakes, storageVars, assetVars, recordVars, lifeVars
  <2>5. ASSUME WorkerTakes, UNCHANGED lifeVars PROVE NoStrayFiles'
    <3>1. PICK j \in JobIds : /\ status[j] = "queued"
                              /\ status' = [status EXCEPT ![j] = "loading"]
                              /\ running = NoJob /\ running' = j
                              /\ Touch(j)
          BY <2>5, TakesFacts
    <3> QED BY <2>5, <3>1, LiveFacts DEF WorkerTakes, Touch, lifeVars
  <2>6. ASSUME WorkerTakesAndFails, UNCHANGED lifeVars PROVE NoStrayFiles'
    <3>1. PICK j \in JobIds : /\ status[j] = "queued"
                              /\ status' = [status EXCEPT ![j] = "failed"]
                              /\ leases' = Released({j})
          BY <2>6, TakesAndFailsFacts
    <3> QED BY <2>6, <3>1, LiveFacts DEF WorkerTakesAndFails, storageVars, lifeVars
  <2> QED BY <1>5, <2>1, <2>2, <2>3, <2>4, <2>5, <2>6 DEF WorkerStep
<1>6. ASSUME BackendProgress PROVE NoStrayFiles'
  <2>1. ASSUME BackendWrites, UNCHANGED lifeVars PROVE NoStrayFiles'
        BY <2>1 DEF BackendWrites, Touch, assetVars, jobVars, recordVars, queueVars,
           lifeVars
  <2>2. ASSUME NEW stage \in ActiveStages, ReportStage(stage), UNCHANGED lifeVars
        PROVE  NoStrayFiles'
        BY <2>2, LiveFacts, RunningFacts DEF ReportStage, Transition, storageVars,
           assetVars, queueVars, lifeVars
  <2> QED BY <1>6, <2>1, <2>2 DEF BackendProgress
<1>7. ASSUME BackendReturns PROVE NoStrayFiles'
  <2>1. ASSUME GenerationCompletes, UNCHANGED lifeVars PROVE NoStrayFiles'
        BY <2>1, LiveFacts, RunningFacts DEF GenerationCompletes, Transition,
           WorkerReleases, PublishOutput, Removed, lifeVars
  <2>2. ASSUME NEW ok \in PartialUnlink, GenerationEnds(ok), UNCHANGED lifeVars
        PROVE  NoStrayFiles'
        BY <2>2, LiveFacts, RunningFacts DEF GenerationEnds, Transition, WorkerReleases,
           Removed, PartialUnlink, lifeVars
  <2> QED BY <1>7, <2>1, <2>2 DEF BackendReturns
<1>8. ASSUME SweptAny PROVE NoStrayFiles'
      BY <1>8, LiveFacts DEF SweptAny, Swept, Without, Expirable, Forgettable,
         CompleteIsServable, DeferredDeleteHasOwner, queueVars, lifeVars
<1>9. ASSUME StartServer PROVE NoStrayFiles'
      BY <1>9 DEF StartServer, FirstSwept, Without, assetVars, recordVars
<1>10. ASSUME StopServer PROVE NoStrayFiles'
      BY <1>10, LiveFacts DEF StopServer, Stop, QueueExact, storageVars
<1>11. ASSUME ProcessEnds PROVE NoStrayFiles'
      BY <1>11, LiveFacts DEF ProcessEnds, MemoryLost, OneActiveJob,
         DeferredDeleteHasOwner, storageVars
<1>12. ASSUME Crash PROVE NoStrayFiles'
      BY <1>12, LiveFacts DEF Crash, MemoryLost, OneActiveJob, DeferredDeleteHasOwner,
         storageVars
<1>13. ASSUME Tick PROVE NoStrayFiles'
      BY <1>13 DEF Tick, storageVars, assetVars, jobVars, recordVars, queueVars,
         lifeVars
<1>14. ASSUME FileVanishes PROVE NoStrayFiles'
      BY <1>14 DEF FileVanishes, Removed, assetVars, jobVars, recordVars, queueVars
<1>15. ASSUME UNCHANGED vars PROVE NoStrayFiles'
      BY <1>15 DEF vars, storageVars, assetVars, jobVars, recordVars, queueVars,
         lifeVars
<1>16. ASSUME StartRaises PROVE NoStrayFiles'
      BY <1>16 DEF StartRaises, FirstSwept, Without, assetVars, recordVars
<1> QED BY <1>1, <1>2, <1>3, <1>4, <1>5, <1>6, <1>7, <1>8, <1>9, <1>10, <1>11, <1>12,
   <1>13, <1>14, <1>15, <1>16, SweptPart DEF Next

\* Only results have deadlines, and keep them when they expire.
DeadlinesOfResults ==
  \A j \in JobIds : expiresAt[j] # Never => status[j] \in {"complete", "expired"}

\* A deadline comes with the result and goes with DELETE or the record.
LEMMA DeadlinesStep ==
  TypeOK /\ QueueExact /\ OneActiveJob /\ DeadlinesOfResults /\ [Next]_vars
    => DeadlinesOfResults'
<1> SUFFICES ASSUME TypeOK, QueueExact, OneActiveJob, DeadlinesOfResults, [Next]_vars
             PROVE  DeadlinesOfResults'
    OBVIOUS
<1> USE DEF TypeOK, JobTypeOK, DeadlinesOfResults
<1>1. ASSUME NEW a \in AssetIds, AssetStep(a) PROVE DeadlinesOfResults'
      BY <1>1 DEF AssetStep, UploadBegin, UploadChunk, DeleteAsset, jobVars, recordVars,
         lifeVars
<1>2. ASSUME NEW a \in AssetIds, UploadEnds(a) PROVE DeadlinesOfResults'
      BY <1>2 DEF UploadEnds, UploadPublish, UploadFails, jobVars, recordVars, lifeVars
<1>3. ASSUME NEW j \in JobIds, ResponseEnds(j) PROVE DeadlinesOfResults'
      BY <1>3 DEF ResponseEnds, EndDownload, Shortened, lifeVars
<1>4. ASSUME NEW j \in JobIds, RequestStep(j) PROVE DeadlinesOfResults'
  <2>1. ASSUME NEW assets \in SUBSET AssetIds, Submit(j, assets), UNCHANGED lifeVars
        PROVE  DeadlinesOfResults'
        BY <2>1, LiveFacts DEF Submit, SetWake, lifeVars
  <2>2. ASSUME GetExpires(j), UNCHANGED lifeVars PROVE DeadlinesOfResults'
        BY <2>2, LiveFacts DEF GetExpires, Expirable, Transition, lifeVars
  <2>3. ASSUME BeginDownload(j), UNCHANGED lifeVars PROVE DeadlinesOfResults'
        BY <2>3 DEF BeginDownload, lifeVars
  <2>4. ASSUME BeginDownloadMissing(j), UNCHANGED lifeVars PROVE DeadlinesOfResults'
        BY <2>4, LiveFacts DEF BeginDownloadMissing, Downloadable, Transition, lifeVars
  <2>5. ASSUME DeleteQueued(j), UNCHANGED lifeVars PROVE DeadlinesOfResults'
        BY <2>5, LiveFacts DEF DeleteQueued, Transition, lifeVars
  <2>6. ASSUME DeleteRunning(j), UNCHANGED lifeVars PROVE DeadlinesOfResults'
        BY <2>6 DEF DeleteRunning, KeepSlot, lifeVars
  <2>7. ASSUME NEW ok \in OutputUnlink(j), DeleteFinished(j, ok), UNCHANGED lifeVars
        PROVE  DeadlinesOfResults'
        BY <2>7, LiveFacts DEF DeleteFinished, Transition, lifeVars
  <2> QED BY <1>4, <2>1, <2>2, <2>3, <2>4, <2>5, <2>6, <2>7 DEF RequestStep
<1>5. ASSUME WorkerStep PROVE DeadlinesOfResults'
  <2>1. ASSUME Initialized, UNCHANGED lifeVars PROVE DeadlinesOfResults'
        BY <2>1 DEF Initialized, recordVars, lifeVars
  <2>2. ASSUME WorkerExits, UNCHANGED lifeVars PROVE DeadlinesOfResults'
        BY <2>2 DEF WorkerExits, recordVars, lifeVars
  <2>3. ASSUME WorkerSleeps, UNCHANGED lifeVars PROVE DeadlinesOfResults'
        BY <2>3 DEF WorkerSleeps, recordVars, lifeVars
  <2>4. ASSUME WorkerWakes, UNCHANGED lifeVars PROVE DeadlinesOfResults'
        BY <2>4 DEF WorkerWakes, recordVars, lifeVars
  <2>5. ASSUME WorkerTakes, UNCHANGED lifeVars PROVE DeadlinesOfResults'
    <3>1. PICK j \in JobIds : /\ status[j] = "queued"
                              /\ status' = [status EXCEPT ![j] = "loading"]
                              /\ running = NoJob /\ running' = j
                              /\ Touch(j)
          BY <2>5, TakesFacts
    <3> QED BY <2>5, <3>1, LiveFacts DEF WorkerTakes
  <2>6. ASSUME WorkerTakesAndFails, UNCHANGED lifeVars PROVE DeadlinesOfResults'
    <3>1. PICK j \in JobIds : /\ status[j] = "queued"
                              /\ status' = [status EXCEPT ![j] = "failed"]
                              /\ leases' = Released({j})
          BY <2>6, TakesAndFailsFacts
    <3> QED BY <2>6, <3>1, LiveFacts DEF WorkerTakesAndFails
  <2> QED BY <1>5, <2>1, <2>2, <2>3, <2>4, <2>5, <2>6 DEF WorkerStep
<1>6. ASSUME BackendProgress PROVE DeadlinesOfResults'
  <2>1. ASSUME BackendWrites, UNCHANGED lifeVars PROVE DeadlinesOfResults'
        BY <2>1 DEF BackendWrites, jobVars, recordVars, lifeVars
  <2>2. ASSUME NEW stage \in ActiveStages, ReportStage(stage), UNCHANGED lifeVars
        PROVE  DeadlinesOfResults'
        BY <2>2, LiveFacts, RunningFacts DEF ReportStage, Transition, lifeVars
  <2> QED BY <1>6, <2>1, <2>2 DEF BackendProgress
<1>7. ASSUME BackendReturns PROVE DeadlinesOfResults'
  <2>1. ASSUME GenerationCompletes, UNCHANGED lifeVars PROVE DeadlinesOfResults'
        BY <2>1, LiveFacts, RunningFacts DEF GenerationCompletes, Transition,
           WorkerReleases, lifeVars
  <2>2. ASSUME NEW ok \in PartialUnlink, GenerationEnds(ok), UNCHANGED lifeVars
        PROVE  DeadlinesOfResults'
        BY <2>2, LiveFacts, RunningFacts DEF GenerationEnds, Transition, WorkerReleases,
           lifeVars
  <2> QED BY <1>7, <2>1, <2>2 DEF BackendReturns
<1>8. ASSUME SweptAny PROVE DeadlinesOfResults'
      BY <1>8, LiveFacts DEF SweptAny, Swept, Expirable, Forgettable, lifeVars
<1>9. ASSUME StartServer PROVE DeadlinesOfResults'
      BY <1>9 DEF StartServer, FirstSwept, recordVars
<1>10. ASSUME StopServer PROVE DeadlinesOfResults'
      BY <1>10, LiveFacts DEF StopServer, Stop, QueueExact
<1>11. ASSUME ProcessEnds PROVE DeadlinesOfResults'
      BY <1>11, LiveFacts DEF ProcessEnds, MemoryLost
<1>12. ASSUME Crash PROVE DeadlinesOfResults'
      BY <1>12, LiveFacts DEF Crash, MemoryLost
<1>13. ASSUME Tick PROVE DeadlinesOfResults'
      BY <1>13 DEF Tick, jobVars, recordVars, lifeVars
<1>14. ASSUME FileVanishes PROVE DeadlinesOfResults'
      BY <1>14 DEF FileVanishes, jobVars, recordVars
<1>15. ASSUME UNCHANGED vars PROVE DeadlinesOfResults'
      BY <1>15 DEF vars, jobVars, recordVars, lifeVars
<1>16. ASSUME StartRaises PROVE DeadlinesOfResults'
      BY <1>16 DEF StartRaises, FirstSwept, recordVars
<1> QED BY <1>1, <1>2, <1>3, <1>4, <1>5, <1>6, <1>7, <1>8, <1>9, <1>10, <1>11, <1>12,
   <1>13, <1>14, <1>15, <1>16, SweptPart DEF Next

-----------------------------------------------------------------------------
\* The inductive invariant: what the runs check, and what lies between two processes.
IInv ==
  /\ TypeOK
  /\ DownIsEmpty
  /\ QueueExact
  /\ OneActiveJob
  /\ NoLostWakeup
  /\ LeasesExact
  /\ InputsStay
  /\ PartialsStay
  /\ CompleteIsServable
  /\ PinnedFileStays
  /\ DeferredDeleteHasOwner
  /\ NoStrayFiles
  /\ DeadlinesOfResults

\* A process that starts on whatever files it finds satisfies the invariant.
LEMMA InvInit == Init => IInv
<1> SUFFICES ASSUME Init PROVE IInv
    OBVIOUS
<1> USE LiveFacts, JobAssumption DEF Init, StorageInit, AssetInit, JobInit
<1>1. TypeOK
      BY TypeInit
<1>2. DownIsEmpty
      BY DEF DownIsEmpty
<1>3. QueueExact
      BY DEF QueueExact
<1>4. OneActiveJob
      BY DEF OneActiveJob
<1>5. NoLostWakeup
      BY DEF NoLostWakeup
<1>6. LeasesExact /\ InputsStay
      BY DEF LeasesExact, InputsStay
<1>7. PartialsStay
      BY DEF PartialsStay
<1>8. CompleteIsServable /\ PinnedFileStays /\ DeferredDeleteHasOwner
      BY DEF CompleteIsServable, PinnedFileStays, DeferredDeleteHasOwner
<1>9. NoStrayFiles
      BY StorageAssumption DEF NoStrayFiles
<1>10. DeadlinesOfResults
      BY DEF DeadlinesOfResults
<1> QED BY <1>1, <1>2, <1>3, <1>4, <1>5, <1>6, <1>7, <1>8, <1>9, <1>10
   DEF IInv

\* Every action keeps the inductive invariant, crash and restart included.
LEMMA InvStep == IInv /\ [Next]_vars => IInv'
<1> SUFFICES ASSUME IInv, [Next]_vars PROVE IInv'
    OBVIOUS
<1> USE DEF IInv
<1>1. TypeOK'
      BY StorageTypeStep, AssetTypeStep, JobTypeStep, LifeTypeStep DEF TypeOK
<1>2. DownIsEmpty' /\ QueueExact' /\ OneActiveJob' /\ NoLostWakeup'
      BY DownStep, QueueStep, ActiveStep, WakeStep
<1>3. LeasesExact' /\ InputsStay' /\ PartialsStay'
      BY LeasesStep, InputsStep, PartialsStep
<1>4. CompleteIsServable' /\ PinnedFileStays' /\ DeferredDeleteHasOwner' /\ NoStrayFiles'
      BY ServableStep, PinnedStep, DeferredStep, StrayStep
<1>5. DeadlinesOfResults'
      BY DeadlinesStep
<1> QED BY <1>1, <1>2, <1>3, <1>4, <1>5

\* The server is always in a state of the inductive invariant.
THEOREM Invariance == Spec => []IInv
BY InvInit, InvStep, PTL DEF Spec

\* However requests, the worker, shutdown and kills interleave, the FIFO is exactly
\* the queued jobs, one job at most is under way and holds the slot, and the worker
\* never sleeps through work or a shutdown.
THEOREM QueueCorrect == Spec => []SchedulerExact
<1>1. IInv => SchedulerExact
      BY DEF IInv, SchedulerExact
<1> QED BY <1>1, Invariance, PTL

\* Exactly the waiting and running jobs lease exactly their inputs, and therefore no
\* DELETE, deadline or sweep takes an input from them.
THEOREM InputsCorrect == Spec => [](LeasesExact /\ InputsStay)
<1>1. IInv => LeasesExact /\ InputsStay
      BY DEF IInv
<1> QED BY <1>1, Invariance, PTL

\* Files in use stay: the inputs of waiting and running jobs, the partial of a running
\* job or upload, the output of a complete job, and the output a response still sends.
THEOREM FilesStay == Spec => [](FilesInUseStay /\ CompleteIsServable)
<1>1. IInv => FilesInUseStay /\ CompleteIsServable
      BY DEF IInv, FilesInUseStay
<1> QED BY <1>1, Invariance, PTL

\* Files nobody uses do not stay unaccounted for: a deferred deletion has a response
\* that will do it, and an ended job has neither output nor partial, unless an unlink
\* failed or the process was killed.
THEOREM NothingLeftBehind == Spec => []NoOrphans
<1>1. IInv => NoOrphans
      BY DEF IInv, NoOrphans
<1> QED BY <1>1, Invariance, PTL

-----------------------------------------------------------------------------
\* The transitions handlers ask for.
LEMMA MoveFacts ==
  /\ \A s : CanTransition(s, s)
  /\ \A s \in {"expired", "cancelled"} : CanTransition("complete", s)
  /\ CanTransition("queued", "loading")
  /\ \A s \in Live, t \in {"complete", "failed", "cancelled"} : CanTransition(s, t)
BY DEF CanTransition, STAGES, Live, TERMINAL, JobStatus

LegalStep ==
  \A j \in JobIds : {status[j], status'[j]} \subseteq JobStatus
                      => CanTransition(status[j], status'[j])

\* A cancelled job's output never appears.
UnpublishedStep == \A j \in cancel : outputs[j] = Never => outputs'[j] = Never

DeadlineStep == \A j \in JobIds : expiresAt[j] # Never => expiresAt'[j] <= expiresAt[j]

KeptStep ==
  \A j \in JobIds :
    status[j] = "complete" /\ outputs[j] # Never /\ outputs'[j] = Never =>
      \/ status'[j] = "cancelled" /\ readers[j] = 0
      \/ Past(expiresAt[j]) /\ readers[j] = 0
      \/ j \in gone'

\* The invariants tell which status a job has when a handler moves it.
LEMMA LegalMoves == TypeOK /\ QueueExact /\ OneActiveJob /\ [Next]_vars => LegalStep
<1> SUFFICES ASSUME TypeOK, QueueExact, OneActiveJob, [Next]_vars PROVE LegalStep
    OBVIOUS
<1> USE DEF TypeOK, JobTypeOK, LegalStep
<1>1. ASSUME NEW a \in AssetIds, AssetStep(a) PROVE LegalStep
      BY <1>1, MoveFacts DEF AssetStep, UploadBegin, UploadChunk, DeleteAsset, jobVars,
         recordVars
<1>2. ASSUME NEW a \in AssetIds, UploadEnds(a) PROVE LegalStep
      BY <1>2, MoveFacts DEF UploadEnds, UploadPublish, UploadFails, jobVars, recordVars
<1>3. ASSUME NEW j \in JobIds, ResponseEnds(j) PROVE LegalStep
      BY <1>3, MoveFacts DEF ResponseEnds, EndDownload
<1>4. ASSUME NEW j \in JobIds, RequestStep(j) PROVE LegalStep
  <2>1. ASSUME NEW assets \in SUBSET AssetIds, Submit(j, assets), UNCHANGED lifeVars
        PROVE  LegalStep
        BY <2>1, LiveFacts, MoveFacts DEF Submit
  <2>2. ASSUME GetExpires(j), UNCHANGED lifeVars PROVE LegalStep
        BY <2>2, LiveFacts, MoveFacts DEF GetExpires, Expirable, Transition
  <2>3. ASSUME BeginDownload(j), UNCHANGED lifeVars PROVE LegalStep
        BY <2>3, MoveFacts DEF BeginDownload
  <2>4. ASSUME BeginDownloadMissing(j), UNCHANGED lifeVars PROVE LegalStep
        BY <2>4, LiveFacts, MoveFacts DEF BeginDownloadMissing, Downloadable, Transition
  <2>5. ASSUME DeleteQueued(j), UNCHANGED lifeVars PROVE LegalStep
        BY <2>5, LiveFacts, MoveFacts DEF DeleteQueued, Transition
  <2>6. ASSUME DeleteRunning(j), UNCHANGED lifeVars PROVE LegalStep
        BY <2>6, MoveFacts DEF DeleteRunning
  <2>7. ASSUME NEW ok \in OutputUnlink(j), DeleteFinished(j, ok), UNCHANGED lifeVars
        PROVE  LegalStep
        BY <2>7, LiveFacts, MoveFacts DEF DeleteFinished, Transition, AfterDelete
  <2> QED BY <1>4, <2>1, <2>2, <2>3, <2>4, <2>5, <2>6, <2>7 DEF RequestStep
<1>5. ASSUME WorkerStep PROVE LegalStep
  <2>1. ASSUME Initialized, UNCHANGED lifeVars PROVE LegalStep
        BY <2>1, MoveFacts DEF Initialized, recordVars
  <2>2. ASSUME WorkerExits, UNCHANGED lifeVars PROVE LegalStep
        BY <2>2, MoveFacts DEF WorkerExits, recordVars
  <2>3. ASSUME WorkerSleeps, UNCHANGED lifeVars PROVE LegalStep
        BY <2>3, MoveFacts DEF WorkerSleeps, recordVars
  <2>4. ASSUME WorkerWakes, UNCHANGED lifeVars PROVE LegalStep
        BY <2>4, MoveFacts DEF WorkerWakes, recordVars
  <2>5. ASSUME WorkerTakes, UNCHANGED lifeVars PROVE LegalStep
    <3>1. PICK j \in JobIds : /\ status[j] = "queued"
                              /\ status' = [status EXCEPT ![j] = "loading"]
                              /\ running = NoJob /\ running' = j
                              /\ Touch(j)
          BY <2>5, TakesFacts
    <3> QED BY <3>1, LiveFacts, MoveFacts
  <2>6. ASSUME WorkerTakesAndFails, UNCHANGED lifeVars PROVE LegalStep
    <3>1. PICK j \in JobIds : /\ status[j] = "queued"
                              /\ status' = [status EXCEPT ![j] = "failed"]
                              /\ leases' = Released({j})
          BY <2>6, TakesAndFailsFacts
    <3> QED BY <3>1, LiveFacts, MoveFacts
  <2> QED BY <1>5, <2>1, <2>2, <2>3, <2>4, <2>5, <2>6 DEF WorkerStep
<1>6. ASSUME BackendProgress PROVE LegalStep
  <2>1. ASSUME BackendWrites, UNCHANGED lifeVars PROVE LegalStep
        BY <2>1, MoveFacts DEF BackendWrites, jobVars, recordVars
  <2>2. ASSUME NEW stage \in ActiveStages, ReportStage(stage), UNCHANGED lifeVars
        PROVE  LegalStep
        BY <2>2, LiveFacts, MoveFacts, RunningFacts DEF ReportStage, Transition
  <2> QED BY <1>6, <2>1, <2>2 DEF BackendProgress
<1>7. ASSUME BackendReturns PROVE LegalStep
  <2>1. ASSUME GenerationCompletes, UNCHANGED lifeVars PROVE LegalStep
        BY <2>1, LiveFacts, MoveFacts, RunningFacts DEF GenerationCompletes, Transition,
           WorkerReleases
  <2>2. ASSUME NEW ok \in PartialUnlink, GenerationEnds(ok), UNCHANGED lifeVars
        PROVE  LegalStep
        BY <2>2, LiveFacts, MoveFacts, RunningFacts DEF GenerationEnds, Transition,
           WorkerReleases
  <2> QED BY <1>7, <2>1, <2>2 DEF BackendReturns
<1>8. ASSUME SweptAny PROVE LegalStep
      BY <1>8, LiveFacts, MoveFacts DEF SweptAny, Swept, Expirable, Forgettable
<1>9. ASSUME StartServer PROVE LegalStep
      BY <1>9, MoveFacts DEF StartServer, FirstSwept, recordVars
<1>10. ASSUME StopServer PROVE LegalStep
      BY <1>10, LiveFacts, MoveFacts DEF StopServer, Stop, QueueExact
<1>11. ASSUME ProcessEnds PROVE LegalStep
      BY <1>11, LiveFacts, MoveFacts DEF ProcessEnds, MemoryLost
<1>12. ASSUME Crash PROVE LegalStep
      BY <1>12, LiveFacts, MoveFacts DEF Crash, MemoryLost
<1>13. ASSUME Tick PROVE LegalStep
      BY <1>13, MoveFacts DEF Tick, jobVars, recordVars
<1>14. ASSUME FileVanishes PROVE LegalStep
      BY <1>14, MoveFacts DEF FileVanishes, jobVars, recordVars
<1>15. ASSUME UNCHANGED vars PROVE LegalStep
      BY <1>15, MoveFacts DEF vars, jobVars, recordVars
<1>16. ASSUME StartRaises PROVE LegalStep
      BY <1>16, MoveFacts DEF StartRaises, FirstSwept, recordVars
<1> QED BY <1>1, <1>2, <1>3, <1>4, <1>5, <1>6, <1>7, <1>8, <1>9, <1>10, <1>11, <1>12,
   <1>13, <1>14, <1>15, <1>16, SweptPart DEF Next

\* Only the worker publishes, and it looks at the cancel event in the same step.
LEMMA NeverPublished == TypeOK /\ [Next]_vars => UnpublishedStep
<1> SUFFICES ASSUME TypeOK, [Next]_vars PROVE UnpublishedStep
    OBVIOUS
<1> USE DEF TypeOK, StorageTypeOK, JobTypeOK, UnpublishedStep
<1>1. ASSUME NEW a \in AssetIds, AssetStep(a) PROVE UnpublishedStep
      BY <1>1 DEF AssetStep, UploadBegin, UploadChunk, DeleteAsset
<1>2. ASSUME NEW a \in AssetIds, UploadEnds(a) PROVE UnpublishedStep
      BY <1>2 DEF UploadEnds, UploadPublish, UploadFails, PublishAsset
<1>3. ASSUME NEW j \in JobIds, ResponseEnds(j) PROVE UnpublishedStep
      BY <1>3 DEF ResponseEnds, EndDownload, Removed
<1>4. ASSUME NEW j \in JobIds, RequestStep(j) PROVE UnpublishedStep
  <2>1. ASSUME NEW assets \in SUBSET AssetIds, Submit(j, assets), UNCHANGED lifeVars
        PROVE  UnpublishedStep
        BY <2>1 DEF Submit, storageVars
  <2>2. ASSUME GetExpires(j), UNCHANGED lifeVars PROVE UnpublishedStep
        BY <2>2 DEF GetExpires, DeleteOutput, Removed
  <2>3. ASSUME BeginDownload(j), UNCHANGED lifeVars PROVE UnpublishedStep
        BY <2>3 DEF BeginDownload, storageVars
  <2>4. ASSUME BeginDownloadMissing(j), UNCHANGED lifeVars PROVE UnpublishedStep
        BY <2>4 DEF BeginDownloadMissing, storageVars
  <2>5. ASSUME DeleteQueued(j), UNCHANGED lifeVars PROVE UnpublishedStep
        BY <2>5 DEF DeleteQueued, DeleteOutput, Removed
  <2>6. ASSUME DeleteRunning(j), UNCHANGED lifeVars PROVE UnpublishedStep
        BY <2>6 DEF DeleteRunning, storageVars
  <2>7. ASSUME NEW ok \in OutputUnlink(j), DeleteFinished(j, ok), UNCHANGED lifeVars
        PROVE  UnpublishedStep
        BY <2>7 DEF DeleteFinished, DeleteOutput, Removed
  <2> QED BY <1>4, <2>1, <2>2, <2>3, <2>4, <2>5, <2>6, <2>7 DEF RequestStep
<1>5. ASSUME WorkerStep PROVE UnpublishedStep
  <2>1. ASSUME Initialized, UNCHANGED lifeVars PROVE UnpublishedStep
        BY <2>1 DEF Initialized, storageVars
  <2>2. ASSUME WorkerExits, UNCHANGED lifeVars PROVE UnpublishedStep
        BY <2>2 DEF WorkerExits, storageVars
  <2>3. ASSUME WorkerSleeps, UNCHANGED lifeVars PROVE UnpublishedStep
        BY <2>3 DEF WorkerSleeps, storageVars
  <2>4. ASSUME WorkerWakes, UNCHANGED lifeVars PROVE UnpublishedStep
        BY <2>4 DEF WorkerWakes, storageVars
  <2>5. ASSUME WorkerTakes, UNCHANGED lifeVars PROVE UnpublishedStep
        BY <2>5 DEF WorkerTakes
  <2>6. ASSUME WorkerTakesAndFails, UNCHANGED lifeVars PROVE UnpublishedStep
        BY <2>6 DEF WorkerTakesAndFails, storageVars
  <2> QED BY <1>5, <2>1, <2>2, <2>3, <2>4, <2>5, <2>6 DEF WorkerStep
<1>6. ASSUME BackendProgress PROVE UnpublishedStep
  <2>1. ASSUME BackendWrites, UNCHANGED lifeVars PROVE UnpublishedStep
        BY <2>1 DEF BackendWrites
  <2>2. ASSUME NEW stage \in ActiveStages, ReportStage(stage), UNCHANGED lifeVars
        PROVE  UnpublishedStep
        BY <2>2 DEF ReportStage, storageVars
  <2> QED BY <1>6, <2>1, <2>2 DEF BackendProgress
<1>7. ASSUME BackendReturns PROVE UnpublishedStep
  <2>1. ASSUME GenerationCompletes, UNCHANGED lifeVars PROVE UnpublishedStep
        BY <2>1 DEF GenerationCompletes, Wanted, PublishOutput
  <2>2. ASSUME NEW ok \in PartialUnlink, GenerationEnds(ok), UNCHANGED lifeVars
        PROVE  UnpublishedStep
        BY <2>2 DEF GenerationEnds, Removed
  <2> QED BY <1>7, <2>1, <2>2 DEF BackendReturns
<1>8. ASSUME SweptAny PROVE UnpublishedStep
      BY <1>8 DEF SweptAny, Swept, Without
<1>9. ASSUME StartServer PROVE UnpublishedStep
      BY <1>9 DEF StartServer, FirstSwept, Without
<1>10. ASSUME StopServer PROVE UnpublishedStep
      BY <1>10 DEF StopServer, Stop, storageVars
<1>11. ASSUME ProcessEnds PROVE UnpublishedStep
      BY <1>11 DEF ProcessEnds, storageVars
<1>12. ASSUME Crash PROVE UnpublishedStep
      BY <1>12 DEF Crash, storageVars
<1>13. ASSUME Tick PROVE UnpublishedStep
      BY <1>13 DEF Tick, storageVars
<1>14. ASSUME FileVanishes PROVE UnpublishedStep
      BY <1>14 DEF FileVanishes, Removed
<1>15. ASSUME UNCHANGED vars PROVE UnpublishedStep
      BY <1>15 DEF vars, storageVars
<1>16. ASSUME StartRaises PROVE UnpublishedStep
      BY <1>16 DEF StartRaises, FirstSwept, Without
<1> QED BY <1>1, <1>2, <1>3, <1>4, <1>5, <1>6, <1>7, <1>8, <1>9, <1>10, <1>11, <1>12,
   <1>13, <1>14, <1>15, <1>16, SweptPart DEF Next

\* A result's deadline is set once; later it is shortened or dropped.
LEMMA DeadlineMoves ==
  TypeOK /\ OneActiveJob /\ DeadlinesOfResults /\ [Next]_vars
    => DeadlineStep
<1> SUFFICES ASSUME TypeOK, OneActiveJob, DeadlinesOfResults, [Next]_vars
             PROVE  DeadlineStep
    OBVIOUS
<1> USE JobAssumption DEF TypeOK, StorageTypeOK, JobTypeOK, Time, Never, DeadlineStep
<1>1. ASSUME NEW a \in AssetIds, AssetStep(a) PROVE DeadlineStep
      BY <1>1 DEF AssetStep, UploadBegin, UploadChunk, DeleteAsset, jobVars, recordVars
<1>2. ASSUME NEW a \in AssetIds, UploadEnds(a) PROVE DeadlineStep
      BY <1>2 DEF UploadEnds, UploadPublish, UploadFails, jobVars, recordVars
<1>3. ASSUME NEW j \in JobIds, ResponseEnds(j) PROVE DeadlineStep
      BY <1>3 DEF ResponseEnds, EndDownload, Shortened
<1>4. ASSUME NEW j \in JobIds, RequestStep(j) PROVE DeadlineStep
  <2>1. ASSUME NEW assets \in SUBSET AssetIds, Submit(j, assets), UNCHANGED lifeVars
        PROVE  DeadlineStep
        BY <2>1 DEF Submit
  <2>2. ASSUME GetExpires(j), UNCHANGED lifeVars PROVE DeadlineStep
        BY <2>2 DEF GetExpires
  <2>3. ASSUME BeginDownload(j), UNCHANGED lifeVars PROVE DeadlineStep
        BY <2>3 DEF BeginDownload
  <2>4. ASSUME BeginDownloadMissing(j), UNCHANGED lifeVars PROVE DeadlineStep
        BY <2>4 DEF BeginDownloadMissing
  <2>5. ASSUME DeleteQueued(j), UNCHANGED lifeVars PROVE DeadlineStep
        BY <2>5 DEF DeleteQueued
  <2>6. ASSUME DeleteRunning(j), UNCHANGED lifeVars PROVE DeadlineStep
        BY <2>6 DEF DeleteRunning
  <2>7. ASSUME NEW ok \in OutputUnlink(j), DeleteFinished(j, ok), UNCHANGED lifeVars
        PROVE  DeadlineStep
        BY <2>7 DEF DeleteFinished
  <2> QED BY <1>4, <2>1, <2>2, <2>3, <2>4, <2>5, <2>6, <2>7 DEF RequestStep
<1>5. ASSUME WorkerStep PROVE DeadlineStep
  <2>1. ASSUME Initialized, UNCHANGED lifeVars PROVE DeadlineStep
        BY <2>1 DEF Initialized, recordVars
  <2>2. ASSUME WorkerExits, UNCHANGED lifeVars PROVE DeadlineStep
        BY <2>2 DEF WorkerExits, recordVars
  <2>3. ASSUME WorkerSleeps, UNCHANGED lifeVars PROVE DeadlineStep
        BY <2>3 DEF WorkerSleeps, recordVars
  <2>4. ASSUME WorkerWakes, UNCHANGED lifeVars PROVE DeadlineStep
        BY <2>4 DEF WorkerWakes, recordVars
  <2>5. ASSUME WorkerTakes, UNCHANGED lifeVars PROVE DeadlineStep
        BY <2>5 DEF WorkerTakes
  <2>6. ASSUME WorkerTakesAndFails, UNCHANGED lifeVars PROVE DeadlineStep
        BY <2>6 DEF WorkerTakesAndFails
  <2> QED BY <1>5, <2>1, <2>2, <2>3, <2>4, <2>5, <2>6 DEF WorkerStep
<1>6. ASSUME BackendProgress PROVE DeadlineStep
  <2>1. ASSUME BackendWrites, UNCHANGED lifeVars PROVE DeadlineStep
        BY <2>1 DEF BackendWrites, jobVars, recordVars
  <2>2. ASSUME NEW stage \in ActiveStages, ReportStage(stage), UNCHANGED lifeVars
        PROVE  DeadlineStep
        BY <2>2 DEF ReportStage
  <2> QED BY <1>6, <2>1, <2>2 DEF BackendProgress
<1>7. ASSUME BackendReturns PROVE DeadlineStep
  <2>1. ASSUME GenerationCompletes, UNCHANGED lifeVars PROVE DeadlineStep
        BY <2>1, RunningFacts, LiveFacts DEF GenerationCompletes, DeadlinesOfResults
  <2>2. ASSUME NEW ok \in PartialUnlink, GenerationEnds(ok), UNCHANGED lifeVars
        PROVE  DeadlineStep
        BY <2>2 DEF GenerationEnds
  <2> QED BY <1>7, <2>1, <2>2 DEF BackendReturns
<1>8. ASSUME SweptAny PROVE DeadlineStep
      BY <1>8 DEF SweptAny, Swept
<1>9. ASSUME StartServer PROVE DeadlineStep
      BY <1>9 DEF StartServer, FirstSwept, recordVars
<1>10. ASSUME StopServer PROVE DeadlineStep
      BY <1>10 DEF StopServer, Stop
<1>11. ASSUME ProcessEnds PROVE DeadlineStep
      BY <1>11 DEF ProcessEnds, MemoryLost
<1>12. ASSUME Crash PROVE DeadlineStep
      BY <1>12 DEF Crash, MemoryLost
<1>13. ASSUME Tick PROVE DeadlineStep
      BY <1>13 DEF Tick, jobVars, recordVars
<1>14. ASSUME FileVanishes PROVE DeadlineStep
      BY <1>14 DEF FileVanishes, jobVars, recordVars
<1>15. ASSUME UNCHANGED vars PROVE DeadlineStep
      BY <1>15 DEF vars, jobVars, recordVars
<1>16. ASSUME StartRaises PROVE DeadlineStep
      BY <1>16 DEF StartRaises, FirstSwept, recordVars
<1> QED BY <1>1, <1>2, <1>3, <1>4, <1>5, <1>6, <1>7, <1>8, <1>9, <1>10, <1>11, <1>12,
   <1>13, <1>14, <1>15, <1>16, SweptPart DEF Next

\* An output is unlinked by expiry, DELETE or a deferred deletion; the age rule spares it.
LEMMA KeptMoves ==
  TypeOK /\ DownIsEmpty /\ OneActiveJob /\ CompleteIsServable /\
  DeferredDeleteHasOwner /\ [Next]_vars
    => KeptStep
<1> SUFFICES ASSUME TypeOK, DownIsEmpty, OneActiveJob, CompleteIsServable,
                    DeferredDeleteHasOwner, [Next]_vars
             PROVE  KeptStep
    OBVIOUS
<1> USE DEF TypeOK, StorageTypeOK, JobTypeOK, Time, Never, KeptStep
<1>1. ASSUME NEW a \in AssetIds, AssetStep(a) PROVE KeptStep
      BY <1>1 DEF AssetStep, UploadBegin, UploadChunk, DeleteAsset
<1>2. ASSUME NEW a \in AssetIds, UploadEnds(a) PROVE KeptStep
      BY <1>2 DEF UploadEnds, UploadPublish, UploadFails, PublishAsset
<1>3. ASSUME NEW j \in JobIds, ResponseEnds(j) PROVE KeptStep
      BY <1>3 DEF ResponseEnds, EndDownload, DeletionDue, Removed,
         DeferredDeleteHasOwner
<1>4. ASSUME NEW j \in JobIds, RequestStep(j) PROVE KeptStep
  <2>1. ASSUME NEW assets \in SUBSET AssetIds, Submit(j, assets), UNCHANGED lifeVars
        PROVE  KeptStep
        BY <2>1 DEF Submit, storageVars
  <2>2. ASSUME GetExpires(j), UNCHANGED lifeVars PROVE KeptStep
        BY <2>2, LiveFacts DEF GetExpires, Expirable, DeleteOutput, Removed
  <2>3. ASSUME BeginDownload(j), UNCHANGED lifeVars PROVE KeptStep
        BY <2>3 DEF BeginDownload, storageVars
  <2>4. ASSUME BeginDownloadMissing(j), UNCHANGED lifeVars PROVE KeptStep
        BY <2>4 DEF BeginDownloadMissing, storageVars
  <2>5. ASSUME DeleteQueued(j), UNCHANGED lifeVars PROVE KeptStep
        BY <2>5, LiveFacts DEF DeleteQueued, DeleteOutput, Removed
  <2>6. ASSUME DeleteRunning(j), UNCHANGED lifeVars PROVE KeptStep
        BY <2>6 DEF DeleteRunning, storageVars
  <2>7. ASSUME NEW ok \in OutputUnlink(j), DeleteFinished(j, ok), UNCHANGED lifeVars
        PROVE  KeptStep
        BY <2>7, LiveFacts DEF DeleteFinished, Transition, AfterDelete, DeleteOutput,
           Removed
  <2> QED BY <1>4, <2>1, <2>2, <2>3, <2>4, <2>5, <2>6, <2>7 DEF RequestStep
<1>5. ASSUME WorkerStep PROVE KeptStep
  <2>1. ASSUME Initialized, UNCHANGED lifeVars PROVE KeptStep
        BY <2>1 DEF Initialized, storageVars
  <2>2. ASSUME WorkerExits, UNCHANGED lifeVars PROVE KeptStep
        BY <2>2 DEF WorkerExits, storageVars
  <2>3. ASSUME WorkerSleeps, UNCHANGED lifeVars PROVE KeptStep
        BY <2>3 DEF WorkerSleeps, storageVars
  <2>4. ASSUME WorkerWakes, UNCHANGED lifeVars PROVE KeptStep
        BY <2>4 DEF WorkerWakes, storageVars
  <2>5. ASSUME WorkerTakes, UNCHANGED lifeVars PROVE KeptStep
        BY <2>5 DEF WorkerTakes
  <2>6. ASSUME WorkerTakesAndFails, UNCHANGED lifeVars PROVE KeptStep
        BY <2>6 DEF WorkerTakesAndFails, storageVars
  <2> QED BY <1>5, <2>1, <2>2, <2>3, <2>4, <2>5, <2>6 DEF WorkerStep
<1>6. ASSUME BackendProgress PROVE KeptStep
  <2>1. ASSUME BackendWrites, UNCHANGED lifeVars PROVE KeptStep
        BY <2>1 DEF BackendWrites
  <2>2. ASSUME NEW stage \in ActiveStages, ReportStage(stage), UNCHANGED lifeVars
        PROVE  KeptStep
        BY <2>2 DEF ReportStage, storageVars
  <2> QED BY <1>6, <2>1, <2>2 DEF BackendProgress
<1>7. ASSUME BackendReturns PROVE KeptStep
  <2>1. ASSUME GenerationCompletes, UNCHANGED lifeVars PROVE KeptStep
        BY <2>1, RunningFacts, LiveFacts DEF GenerationCompletes, PublishOutput
  <2>2. ASSUME NEW ok \in PartialUnlink, GenerationEnds(ok), UNCHANGED lifeVars
        PROVE  KeptStep
        BY <2>2, RunningFacts, LiveFacts DEF GenerationEnds, Removed
  <2> QED BY <1>7, <2>1, <2>2 DEF BackendReturns
<1>8. ASSUME SweptAny PROVE KeptStep
      BY <1>8, SweptFiles DEF SweptAny, Swept, ProtectedOutputs, Expirable, CompleteIsServable
<1>9. ASSUME StartServer PROVE KeptStep
      BY <1>9, LiveFacts DEF StartServer, FirstSwept, DownIsEmpty
<1>10. ASSUME StopServer PROVE KeptStep
      BY <1>10 DEF StopServer, Stop, storageVars
<1>11. ASSUME ProcessEnds PROVE KeptStep
      BY <1>11 DEF ProcessEnds, storageVars
<1>12. ASSUME Crash PROVE KeptStep
      BY <1>12 DEF Crash, storageVars
<1>13. ASSUME Tick PROVE KeptStep
      BY <1>13 DEF Tick, storageVars
<1>14. ASSUME FileVanishes PROVE KeptStep
      BY <1>14 DEF FileVanishes, Removed
<1>15. ASSUME UNCHANGED vars PROVE KeptStep
      BY <1>15 DEF vars, storageVars
<1>16. ASSUME StartRaises PROVE KeptStep
      BY <1>16, LiveFacts DEF StartRaises, FirstSwept, DownIsEmpty
<1> QED BY <1>1, <1>2, <1>3, <1>4, <1>5, <1>6, <1>7, <1>8, <1>9, <1>10, <1>11, <1>12,
   <1>13, <1>14, <1>15, <1>16, SweptPart DEF Next

\* No handler asks the status machine for a transition it refuses.
THEOREM Transitions == Spec => TransitionsLegal
<1>1. IInv /\ [Next]_vars => LegalStep
      BY LegalMoves DEF IInv
<1> QED BY <1>1, Invariance, PTL DEF Spec, TransitionsLegal, LegalStep

\* A cancelled job's late result is never published, whenever the DELETE came.
THEOREM CancelledStaysUnpublished == Spec => CancelledNeverPublished
<1>1. IInv /\ [Next]_vars => UnpublishedStep
      BY NeverPublished DEF IInv
<1> QED BY <1>1, Invariance, PTL DEF Spec, CancelledNeverPublished, UnpublishedStep

\* Downloads, retries and sweeps only ever bring a deadline forward, and a servable
\* output is not removed before it, for all that deadline and mtime are kept apart.
THEOREM ResultsStay == Spec => ResultsKept
<1>1. IInv /\ [Next]_vars => DeadlineStep
      BY DeadlineMoves DEF IInv
<1>2. IInv /\ [Next]_vars => KeptStep
      BY KeptMoves DEF IInv
<1>3. Spec => DeadlineNeverExtended
      BY <1>1, Invariance, PTL DEF Spec, DeadlineNeverExtended, DeadlineStep
<1>4. Spec => OutputKeptUntilDue
      BY <1>2, Invariance, PTL DEF Spec, OutputKeptUntilDue, KeptStep
<1> QED BY <1>3, <1>4, PTL DEF ResultsKept

-----------------------------------------------------------------------------
\* What each status means to a client.
LEMMA ViewFacts ==
  /\ ClientView("unused") = "none"
  /\ ClientView("queued") = "waiting"
  /\ \A s \in ActiveStages : ClientView(s) = "working"
  /\ ClientView("complete") = "result"
  /\ \A s \in {"failed", "cancelled", "expired", "forgotten", "lost"} : ClientView(s) = "ended"
  /\ \A s : ClientView(s) = "waiting" => s = "queued"
BY DEF ClientView, ActiveStages, JobStatus, TERMINAL

\* Cancellation is only ever requested of jobs that run or have ended.
RevokedNotWaiting == \A j \in cancel : status[j] \in ActiveStages \cup TERMINAL

ServiceStep == [Service!ServiceNext]_(Service!svars)

\* A step that changes no view, neither queue nor worker, is one a client cannot see.
LEMMA Unseen ==
  ASSUME TypeOK, jobView' = jobView, pending' = pending, running' = running,
         (running' \in cancel') <=> (running \in cancel)
  PROVE  ServiceStep
BY DEF ServiceStep, Service!svars


\* A job that is cancelled while it waits leaves the FIFO in the same step.
LEMMA RevokedStep ==
  TypeOK /\ QueueExact /\ OneActiveJob /\ RevokedNotWaiting /\ [Next]_vars
    => RevokedNotWaiting'
<1> SUFFICES ASSUME TypeOK, QueueExact, OneActiveJob, RevokedNotWaiting, [Next]_vars
             PROVE  RevokedNotWaiting'
    OBVIOUS
<1> USE DEF TypeOK, JobTypeOK, RevokedNotWaiting
<1>1. ASSUME NEW a \in AssetIds, AssetStep(a) PROVE RevokedNotWaiting'
      BY <1>1 DEF AssetStep, UploadBegin, UploadChunk, DeleteAsset, jobVars, recordVars
<1>2. ASSUME NEW a \in AssetIds, UploadEnds(a) PROVE RevokedNotWaiting'
      BY <1>2 DEF UploadEnds, UploadPublish, UploadFails, jobVars, recordVars
<1>3. ASSUME NEW j \in JobIds, ResponseEnds(j) PROVE RevokedNotWaiting'
      BY <1>3 DEF ResponseEnds, EndDownload
<1>4. ASSUME NEW j \in JobIds, RequestStep(j) PROVE RevokedNotWaiting'
  <2>1. ASSUME NEW assets \in SUBSET AssetIds, Submit(j, assets), UNCHANGED lifeVars
        PROVE  RevokedNotWaiting'
        BY <2>1, LiveFacts DEF Submit, SetWake
  <2>2. ASSUME GetExpires(j), UNCHANGED lifeVars PROVE RevokedNotWaiting'
        BY <2>2, LiveFacts DEF GetExpires, Expirable, Transition
  <2>3. ASSUME BeginDownload(j), UNCHANGED lifeVars PROVE RevokedNotWaiting'
        BY <2>3 DEF BeginDownload
  <2>4. ASSUME BeginDownloadMissing(j), UNCHANGED lifeVars PROVE RevokedNotWaiting'
        BY <2>4, LiveFacts DEF BeginDownloadMissing, Downloadable, Transition
  <2>5. ASSUME DeleteQueued(j), UNCHANGED lifeVars PROVE RevokedNotWaiting'
        BY <2>5, LiveFacts DEF DeleteQueued, Transition
  <2>6. ASSUME DeleteRunning(j), UNCHANGED lifeVars PROVE RevokedNotWaiting'
        BY <2>6, LiveFacts DEF DeleteRunning, OneActiveJob
  <2>7. ASSUME NEW ok \in OutputUnlink(j), DeleteFinished(j, ok), UNCHANGED lifeVars
        PROVE  RevokedNotWaiting'
        BY <2>7, LiveFacts DEF DeleteFinished, Transition, AfterDelete
  <2> QED BY <1>4, <2>1, <2>2, <2>3, <2>4, <2>5, <2>6, <2>7 DEF RequestStep
<1>5. ASSUME WorkerStep PROVE RevokedNotWaiting'
  <2>1. ASSUME Initialized, UNCHANGED lifeVars PROVE RevokedNotWaiting'
        BY <2>1 DEF Initialized, recordVars
  <2>2. ASSUME WorkerExits, UNCHANGED lifeVars PROVE RevokedNotWaiting'
        BY <2>2 DEF WorkerExits, recordVars
  <2>3. ASSUME WorkerSleeps, UNCHANGED lifeVars PROVE RevokedNotWaiting'
        BY <2>3 DEF WorkerSleeps, recordVars
  <2>4. ASSUME WorkerWakes, UNCHANGED lifeVars PROVE RevokedNotWaiting'
        BY <2>4 DEF WorkerWakes, recordVars
  <2>5. ASSUME WorkerTakes, UNCHANGED lifeVars PROVE RevokedNotWaiting'
    <3>1. PICK j \in JobIds : /\ status[j] = "queued"
                              /\ status' = [status EXCEPT ![j] = "loading"]
                              /\ running = NoJob /\ running' = j
                              /\ Touch(j)
          BY <2>5, TakesFacts
    <3> QED BY <2>5, <3>1, LiveFacts DEF WorkerTakes
  <2>6. ASSUME WorkerTakesAndFails, UNCHANGED lifeVars PROVE RevokedNotWaiting'
    <3>1. PICK j \in JobIds : /\ status[j] = "queued"
                              /\ status' = [status EXCEPT ![j] = "failed"]
                              /\ leases' = Released({j})
          BY <2>6, TakesAndFailsFacts
    <3> QED BY <2>6, <3>1, LiveFacts DEF WorkerTakesAndFails
  <2> QED BY <1>5, <2>1, <2>2, <2>3, <2>4, <2>5, <2>6 DEF WorkerStep
<1>6. ASSUME BackendProgress PROVE RevokedNotWaiting'
  <2>1. ASSUME BackendWrites, UNCHANGED lifeVars PROVE RevokedNotWaiting'
        BY <2>1 DEF BackendWrites, jobVars, recordVars
  <2>2. ASSUME NEW stage \in ActiveStages, ReportStage(stage), UNCHANGED lifeVars
        PROVE  RevokedNotWaiting'
        BY <2>2, LiveFacts, RunningFacts DEF ReportStage, Transition
  <2> QED BY <1>6, <2>1, <2>2 DEF BackendProgress
<1>7. ASSUME BackendReturns PROVE RevokedNotWaiting'
  <2>1. ASSUME GenerationCompletes, UNCHANGED lifeVars PROVE RevokedNotWaiting'
        BY <2>1, LiveFacts, RunningFacts DEF GenerationCompletes, Transition,
           WorkerReleases
  <2>2. ASSUME NEW ok \in PartialUnlink, GenerationEnds(ok), UNCHANGED lifeVars
        PROVE  RevokedNotWaiting'
        BY <2>2, LiveFacts, RunningFacts DEF GenerationEnds, Transition, WorkerReleases
  <2> QED BY <1>7, <2>1, <2>2 DEF BackendReturns
<1>8. ASSUME SweptAny PROVE RevokedNotWaiting'
      BY <1>8, LiveFacts DEF SweptAny, Swept, Expirable, Forgettable
<1>9. ASSUME StartServer PROVE RevokedNotWaiting'
      BY <1>9 DEF StartServer, FirstSwept, recordVars
<1>10. ASSUME StopServer PROVE RevokedNotWaiting'
      BY <1>10, LiveFacts DEF StopServer, Stop, QueueExact, OneActiveJob
<1>11. ASSUME ProcessEnds PROVE RevokedNotWaiting'
      BY <1>11, LiveFacts DEF ProcessEnds, MemoryLost
<1>12. ASSUME Crash PROVE RevokedNotWaiting'
      BY <1>12, LiveFacts DEF Crash, MemoryLost
<1>13. ASSUME Tick PROVE RevokedNotWaiting'
      BY <1>13 DEF Tick, jobVars, recordVars
<1>14. ASSUME FileVanishes PROVE RevokedNotWaiting'
      BY <1>14 DEF FileVanishes, jobVars, recordVars
<1>15. ASSUME UNCHANGED vars PROVE RevokedNotWaiting'
      BY <1>15 DEF vars, jobVars, recordVars
<1>16. ASSUME StartRaises PROVE RevokedNotWaiting'
      BY <1>16 DEF StartRaises, FirstSwept, recordVars
<1> QED BY <1>1, <1>2, <1>3, <1>4, <1>5, <1>6, <1>7, <1>8, <1>9, <1>10, <1>11, <1>12,
   <1>13, <1>14, <1>15, <1>16, SweptPart DEF Next

-----------------------------------------------------------------------------
\* Handlers that change no client's view map to no step of the service.
LEMMA Unviewed ==
  ASSUME TypeOK, status' = status, pending' = pending, running' = running,
         (running' \in cancel') <=> (running \in cancel)
  PROVE  ServiceStep
BY DEF ServiceStep, Service!svars, jobView

\* One job's view changes.
LEMMA ViewMoves ==
  ASSUME TypeOK, NEW j \in JobIds, NEW to, status' = [status EXCEPT ![j] = to]
  PROVE  jobView' = [jobView EXCEPT ![j] = ClientView(to)]
BY DEF jobView, TypeOK, JobTypeOK

\* submit() is Admit.
LEMMA SubmitAdmits ==
  ASSUME TypeOK, NEW j \in JobIds, NEW assets, Submit(j, assets)
  PROVE  ServiceStep
<1>1. /\ status[j] = "unused" /\ Len(pending) < MaxQueueSize
      /\ status' = [status EXCEPT ![j] = "queued"]
      /\ pending' = Append(pending, j)
      /\ running' = running /\ cancel' = cancel
      BY DEF Submit, HasRoom
<1>2. jobView[j] = "none"
      BY <1>1, ViewFacts DEF jobView
<1>3. jobView' = [jobView EXCEPT ![j] = "waiting"]
  <2>1. jobView' = [jobView EXCEPT ![j] = ClientView("queued")]
        BY <1>1, ViewMoves
  <2> QED BY <2>1, ViewFacts
<1>4. Service!Admit(j)
      BY <1>1, <1>2, <1>3 DEF Service!Admit
<1> QED BY <1>4 DEF ServiceStep, Service!ServiceNext

\* A single result that expires or is deleted is withdrawn.
LEMMA OneWithdrawn ==
  ASSUME TypeOK, NEW j \in JobIds, status[j] = "complete", NEW to \in {"expired", "cancelled"},
         status' = [status EXCEPT ![j] = to],
         UNCHANGED <<pending, running, cancel>>
  PROVE  ServiceStep
<1>1. jobView[j] = "result" /\ jobView' = [jobView EXCEPT ![j] = "ended"]
  <2>1. jobView' = [jobView EXCEPT ![j] = ClientView(to)]
        BY ViewMoves
  <2>2. jobView[j] = ClientView("complete")
        BY DEF jobView
  <2> QED BY <2>1, <2>2, ViewFacts
<1>2. jobView' = [i \in JobIds |-> IF i \in {j} THEN "ended" ELSE jobView[i]]
      BY <1>1 DEF jobView
<1>3. Service!Withdraw({j})
      BY <1>1, <1>2 DEF Service!Withdraw
<1> QED BY <1>3 DEF ServiceStep, Service!ServiceNext

\* DELETE of a finished job withdraws a result, and is not seen otherwise.
LEMMA DeleteWithdraws ==
  ASSUME TypeOK, NEW j \in JobIds, NEW ok, DeleteFinished(j, ok)
  PROVE  ServiceStep
<1>1. /\ status[j] \in TERMINAL
      /\ status' = [status EXCEPT ![j] = AfterDelete(status[j])]
      /\ UNCHANGED <<pending, running, cancel>>
      BY DEF DeleteFinished, Transition, queueVars
<1>2. CASE status[j] = "complete"
      BY <1>1, <1>2, OneWithdrawn DEF AfterDelete
<1>3. CASE status[j] # "complete"
  <2>1. status' = status
        BY <1>1, <1>3 DEF AfterDelete, TypeOK, JobTypeOK
  <2> QED BY <1>1, <2>1, Unviewed
<1> QED BY <1>2, <1>3

\* DELETE of a waiting job takes it out of the order.
LEMMA DeleteRevokesWaiting ==
  ASSUME TypeOK, NEW j \in JobIds, DeleteQueued(j)
  PROVE  ServiceStep
<1>1. /\ \E i \in DOMAIN pending : pending[i] = j /\ pending' = RemoveAt(pending, i)
      /\ status' = [status EXCEPT ![j] = "cancelled"]
      /\ cancel' = cancel \cup {j}
      /\ running # j /\ running' = running
      BY DEF DeleteQueued, Transition
<1>2. jobView' = [jobView EXCEPT ![j] = "ended"]
  <2>1. jobView' = [jobView EXCEPT ![j] = ClientView("cancelled")]
        BY <1>1, ViewMoves
  <2> QED BY <2>1, ViewFacts
<1>3. Service!RevokeWaiting(j)
  <2>1. UNCHANGED <<running, running \in cancel>>
        BY <1>1
  <2>2. \E i \in DOMAIN pending : pending[i] = j /\ pending' = RemoveAt(pending, i)
        BY <1>1
  <2> QED BY <1>2, <2>1, <2>2 DEF Service!RevokeWaiting, RemoveAt, Service!RemoveAt
<1> QED BY <1>3 DEF ServiceStep, Service!ServiceNext

\* DELETE of the running job revokes it.
LEMMA DeleteRevokesWorking ==
  ASSUME TypeOK, NEW j \in JobIds, DeleteRunning(j)
  PROVE  ServiceStep
<1>1. /\ running = j /\ running' = running /\ cancel' = cancel \cup {j}
      /\ status' = status /\ pending' = pending
      BY DEF DeleteRunning, KeepSlot
<1>2. Service!RevokeWorking
      BY <1>1, JobAssumption DEF Service!RevokeWorking, jobView
<1> QED BY <1>2 DEF ServiceStep, Service!ServiceNext

\* The worker begins with the oldest job, or gives it up for want of a partial file.
LEMMA TakeBegins ==
  ASSUME TypeOK, QueueExact, OneActiveJob, RevokedNotWaiting, WorkerTakes
  PROVE  ServiceStep
<1> USE DEF TypeOK, JobTypeOK
<1>1. PICK j \in JobIds : /\ PopLeft(j) /\ Transition(j, "loading")
                          /\ running' = j
      BY DEF WorkerTakes
<1>2. /\ pending # <<>> /\ j = Head(pending) /\ pending' = Tail(pending)
      /\ status' = [status EXCEPT ![j] = "loading"]
      /\ cancel' = cancel
      BY <1>1 DEF WorkerTakes, PopLeft, Transition
<1>3. running = NoJob
      BY DEF WorkerTakes, OneActiveJob
<1>4. jobView' = [jobView EXCEPT ![j] = "working"]
      BY <1>2, ViewFacts, ViewMoves, LiveFacts
<1>5. j \notin cancel /\ NoJob \notin cancel
  <2>1. status[j] = "queued"
        BY <1>1, <1>2, PopLeftStep
  <2> QED BY <2>1, LiveFacts, JobAssumption DEF RevokedNotWaiting
<1>6. Service!Begin
      BY <1>1, <1>2, <1>3, <1>4, <1>5 DEF Service!Begin
<1> QED BY <1>6 DEF ServiceStep, Service!ServiceNext

\* A job that fails as it is taken leaves the queue from its head.
LEMMA FailedTakeBegins ==
  ASSUME TypeOK, OneActiveJob, WorkerTakesAndFails
  PROVE  ServiceStep
<1> USE DEF TypeOK, JobTypeOK
<1>1. PICK j \in JobIds : PopLeft(j) /\ Transition(j, "failed")
      BY DEF WorkerTakesAndFails
<1>2. /\ pending # <<>> /\ j = Head(pending) /\ pending' = Tail(pending)
      /\ status' = [status EXCEPT ![j] = "failed"]
      /\ cancel' = cancel /\ running' = running
      BY <1>1 DEF WorkerTakesAndFails, PopLeft, Transition
<1>3. running = NoJob
      BY DEF WorkerTakesAndFails, OneActiveJob
<1>4. jobView' = [jobView EXCEPT ![j] = "ended"]
  <2>1. jobView' = [jobView EXCEPT ![j] = ClientView("failed")]
        BY <1>2, ViewMoves
  <2> QED BY <2>1, ViewFacts
<1>5. Service!Begin
      BY <1>2, <1>3, <1>4 DEF Service!Begin
<1> QED BY <1>5 DEF ServiceStep, Service!ServiceNext

\* A stage is progress of a job that works.
LEMMA StageUnseen ==
  ASSUME TypeOK, OneActiveJob, NEW stage \in ActiveStages, ReportStage(stage)
  PROVE  ServiceStep
<1>1. /\ running \in JobIds /\ status[running] \in ActiveStages
      /\ status' = [status EXCEPT ![running] = stage]
      /\ UNCHANGED <<pending, running, cancel>>
      BY RunningFacts DEF ReportStage, Transition, queueVars
<1>2. jobView' = jobView
      BY <1>1, ViewFacts DEF jobView, TypeOK, JobTypeOK
<1> QED BY <1>1, <1>2, Unseen

\* The worker finishes: with a result only when nobody revoked the job.
LEMMA ReturnFinishes ==
  ASSUME TypeOK, OneActiveJob, BackendReturns
  PROVE  ServiceStep
<1> USE DEF TypeOK, JobTypeOK
<1>1. /\ worker = "generating"
      /\ pending' = pending /\ cancel' = cancel /\ running' = NoJob
      /\ \/ running \notin cancel /\ status' = [status EXCEPT ![running] = "complete"]
         \/ status' = [status EXCEPT ![running] = "cancelled"]
         \/ status' = [status EXCEPT ![running] = "failed"]
      BY DEF BackendReturns, GenerationCompletes, GenerationEnds, WorkerReleases, Transition,
         Wanted
<1>2. running \in JobIds
      BY <1>1, RunningFacts
<1>3. \/ running \notin cancel /\ jobView' = [jobView EXCEPT ![running] = "result"]
      \/ jobView' = [jobView EXCEPT ![running] = "ended"]
      BY <1>1, <1>2, ViewFacts, ViewMoves
<1>4. Service!Finish
      BY <1>1, <1>2, <1>3, JobAssumption DEF Service!Finish
<1> QED BY <1>4 DEF ServiceStep, Service!ServiceNext

\* A sweep withdraws the results it came to whose time is up; the records it drops had
\* ended.
LEMMA SweepWithdraws ==
  ASSUME TypeOK, OneActiveJob, CompleteIsServable, SweptAny
  PROVE  ServiceStep
<1> PICK jobs \in SUBSET JobIds, assets \in SUBSET StaleAssets, partials \in SUBSET OldTmp,
         published \in SUBSET OldOutputs, uploads \in SUBSET OldAssets :
      Swept(jobs, assets, partials, published, uploads)
    BY DEF SweptAny
<1> DEFINE expiring == {j \in jobs : Expirable(j)}
           dropped == {j \in jobs : Forgettable(j)}
<1>1. /\ pending' = pending /\ running' = running
      /\ \A j \in JobIds : status'[j] = IF j \in expiring THEN "expired"
                                        ELSE IF j \in dropped THEN "forgotten" ELSE status[j]
      /\ cancel' = cancel \ dropped
      BY DEF Swept, queueVars
<1>2. \A j \in expiring : jobView[j] = "result" /\ jobView'[j] = "ended"
      BY <1>1, ViewFacts DEF jobView, Expirable
<1>3. ASSUME NEW j \in dropped, j \notin expiring
      PROVE  jobView[j] = "ended" /\ jobView'[j] = "ended" /\ running # j
  <2>1. status[j] \in {"failed", "cancelled", "expired"}
        BY <1>3, LiveFacts DEF Forgettable, CompleteIsServable
  <2>2. status'[j] = "forgotten"
        BY <1>1, <1>3
  <2>3. running # j
        BY <2>1, LiveFacts DEF OneActiveJob
  <2> QED BY <2>1, <2>2, <2>3, ViewFacts DEF jobView
<1>4. ASSUME NEW j \in JobIds, j \notin dropped, j \notin expiring
      PROVE  jobView'[j] = jobView[j]
      BY <1>1, <1>4 DEF jobView
<1>5. jobView' = [j \in JobIds |-> IF j \in expiring THEN "ended" ELSE jobView[j]]
      BY <1>2, <1>3, <1>4 DEF jobView
<1>6. (running' \in cancel') <=> (running \in cancel)
  <2>1. ASSUME NEW j \in dropped PROVE running # j
        BY <2>1, <1>3 DEF Forgettable
  <2> QED BY <1>1, <2>1
<1>7. Service!Withdraw(expiring)
      BY <1>1, <1>2, <1>5, <1>6 DEF Service!Withdraw
<1> QED BY <1>7 DEF ServiceStep, Service!ServiceNext

\* stop() ends what waits and revokes what works.
LEMMA StopShutsDown ==
  ASSUME TypeOK, QueueExact, StopServer
  PROVE  ServiceStep
<1> USE DEF TypeOK, JobTypeOK
<1>1. /\ \A j \in JobIds : status'[j] = IF Holds(pending, j) THEN "cancelled" ELSE status[j]
      /\ pending' = <<>> /\ running' = running
      /\ \A j \in JobIds : j = running => j \in cancel'
      /\ cancel' \subseteq JobIds
      BY DEF StopServer, Stop, Holds
<1>2. \A j \in JobIds : jobView[j] = "waiting" <=> Holds(pending, j)
  <2>1. \A j \in JobIds : status[j] = "queued" <=> Holds(pending, j)
        BY QueueFacts
  <2>2. \A j \in JobIds : jobView[j] = "waiting" <=> status[j] = "queued"
        BY ViewFacts DEF jobView
  <2> QED BY <2>1, <2>2
<1>3. jobView' = [j \in JobIds |-> IF jobView[j] = "waiting" THEN "ended" ELSE jobView[j]]
      BY <1>1, <1>2, ViewFacts DEF jobView
<1>4. (running' \in cancel') <=> (running # NoJob)
      BY <1>1, JobAssumption
<1>5. Service!Shutdown
      BY <1>1, <1>3, <1>4 DEF Service!Shutdown
<1> QED BY <1>5 DEF ServiceStep, Service!ServiceNext

\* An orderly end and a kill look alike: what was recorded is gone.
LEMMA MemoryLostVanishes ==
  ASSUME TypeOK, MemoryLost
  PROVE  ServiceStep
<1>1. /\ pending' = <<>> /\ running' = NoJob /\ cancel' = {}
      /\ \A j \in JobIds : status'[j] = IF status[j] \in JobStatus THEN "lost" ELSE status[j]
      BY DEF MemoryLost
<1>2. ASSUME NEW j \in JobIds
      PROVE  jobView'[j] = IF jobView[j] = "none" THEN "none" ELSE "ended"
  <2>1. CASE status[j] \in JobStatus
    <3>1. status[j] \notin Unrecorded /\ jobView'[j] = "ended"
          BY <1>1, <2>1, ViewFacts, LiveFacts DEF jobView
    <3>2. jobView[j] # "none"
          BY <3>1 DEF jobView, ClientView, Unrecorded
    <3> QED BY <3>1, <3>2
  <2>2. CASE status[j] \notin JobStatus
    <3>1. status[j] \in {"unused", "forgotten", "lost"} /\ status'[j] = status[j]
          BY <1>1, <2>2 DEF TypeOK, JobTypeOK, Unrecorded
    <3> QED BY <3>1, ViewFacts DEF jobView
  <2> QED BY <2>1, <2>2
<1>3. jobView' = [j \in JobIds |-> IF jobView[j] = "none" THEN "none" ELSE "ended"]
      BY <1>2 DEF jobView
<1>4. Service!Vanish
      BY <1>1, <1>3 DEF Service!Vanish
<1> QED BY <1>4 DEF ServiceStep, Service!ServiceNext

-----------------------------------------------------------------------------
\* A server just started offers the empty service.
LEMMA InitMaps == Init => Service!ServiceInit
BY JobAssumption, ViewFacts DEF Init, JobInit, Service!ServiceInit, jobView

\* Every handler is a step of the service, or nothing a client can tell.
LEMMA StepMaps == IInv /\ RevokedNotWaiting /\ [Next]_vars => ServiceStep
<1> SUFFICES ASSUME IInv, RevokedNotWaiting, [Next]_vars PROVE ServiceStep
    OBVIOUS
<1> USE DEF IInv
<1>1. ASSUME NEW a \in AssetIds, AssetStep(a) PROVE ServiceStep
      BY <1>1, Unviewed DEF AssetStep, UploadBegin, UploadChunk, DeleteAsset, jobVars,
         recordVars, queueVars
<1>2. ASSUME NEW a \in AssetIds, UploadEnds(a) PROVE ServiceStep
      BY <1>2, Unviewed DEF UploadEnds, UploadPublish, UploadFails, jobVars, recordVars,
         queueVars
<1>3. ASSUME NEW j \in JobIds, ResponseEnds(j) PROVE ServiceStep
      BY <1>3, Unviewed DEF ResponseEnds, EndDownload, queueVars
<1>4. ASSUME NEW j \in JobIds, RequestStep(j) PROVE ServiceStep
  <2>1. ASSUME NEW assets \in SUBSET AssetIds, Submit(j, assets), UNCHANGED lifeVars
        PROVE  ServiceStep
        BY <2>1, SubmitAdmits
  <2>2. ASSUME GetExpires(j), UNCHANGED lifeVars PROVE ServiceStep
        BY <2>2, OneWithdrawn DEF GetExpires, Expirable, Transition, queueVars
  <2>3. ASSUME BeginDownload(j), UNCHANGED lifeVars PROVE ServiceStep
        BY <2>3, Unviewed DEF BeginDownload, queueVars
  <2>4. ASSUME BeginDownloadMissing(j), UNCHANGED lifeVars PROVE ServiceStep
        BY <2>4, OneWithdrawn DEF BeginDownloadMissing, Downloadable, Transition,
           queueVars
  <2>5. ASSUME DeleteQueued(j), UNCHANGED lifeVars PROVE ServiceStep
        BY <2>5, DeleteRevokesWaiting
  <2>6. ASSUME DeleteRunning(j), UNCHANGED lifeVars PROVE ServiceStep
        BY <2>6, DeleteRevokesWorking
  <2>7. ASSUME NEW ok \in OutputUnlink(j), DeleteFinished(j, ok), UNCHANGED lifeVars
        PROVE  ServiceStep
        BY <2>7, DeleteWithdraws
  <2> QED BY <1>4, <2>1, <2>2, <2>3, <2>4, <2>5, <2>6, <2>7 DEF RequestStep
<1>5. ASSUME WorkerStep PROVE ServiceStep
  <2>1. ASSUME Initialized, UNCHANGED lifeVars PROVE ServiceStep
        BY <2>1, Unviewed DEF Initialized, recordVars
  <2>2. ASSUME WorkerExits, UNCHANGED lifeVars PROVE ServiceStep
        BY <2>2, Unviewed DEF WorkerExits, recordVars
  <2>3. ASSUME WorkerSleeps, UNCHANGED lifeVars PROVE ServiceStep
        BY <2>3, Unviewed DEF WorkerSleeps, recordVars
  <2>4. ASSUME WorkerWakes, UNCHANGED lifeVars PROVE ServiceStep
        BY <2>4, Unviewed DEF WorkerWakes, recordVars
  <2>5. ASSUME WorkerTakes, UNCHANGED lifeVars PROVE ServiceStep
        BY <2>5, TakeBegins
  <2>6. ASSUME WorkerTakesAndFails, UNCHANGED lifeVars PROVE ServiceStep
        BY <2>6, FailedTakeBegins
  <2> QED BY <1>5, <2>1, <2>2, <2>3, <2>4, <2>5, <2>6 DEF WorkerStep
<1>6. ASSUME BackendProgress PROVE ServiceStep
  <2>1. ASSUME BackendWrites, UNCHANGED lifeVars PROVE ServiceStep
        BY <2>1, Unviewed DEF BackendWrites, jobVars, recordVars, queueVars
  <2>2. ASSUME NEW stage \in ActiveStages, ReportStage(stage), UNCHANGED lifeVars
        PROVE  ServiceStep
        BY <2>2, StageUnseen
  <2> QED BY <1>6, <2>1, <2>2 DEF BackendProgress
<1>7. ASSUME BackendReturns PROVE ServiceStep
      BY <1>7, ReturnFinishes
<1>8. ASSUME SweptAny PROVE ServiceStep
      BY <1>8, SweepWithdraws
<1>9. ASSUME StartServer PROVE ServiceStep
      BY <1>9, Unviewed DEF StartServer, FirstSwept, StartWorker, recordVars
<1>10. ASSUME StopServer PROVE ServiceStep
      BY <1>10, StopShutsDown
<1>11. ASSUME ProcessEnds PROVE ServiceStep
      BY <1>11, MemoryLostVanishes DEF ProcessEnds
<1>12. ASSUME Crash PROVE ServiceStep
      BY <1>12, MemoryLostVanishes DEF Crash
<1>13. ASSUME Tick PROVE ServiceStep
      BY <1>13, Unviewed DEF Tick, jobVars, recordVars, queueVars
<1>14. ASSUME FileVanishes PROVE ServiceStep
      BY <1>14, Unviewed DEF FileVanishes, jobVars, recordVars, queueVars
<1>15. ASSUME UNCHANGED vars PROVE ServiceStep
      BY <1>15, Unviewed DEF vars, jobVars, recordVars, queueVars
<1>16. ASSUME StartRaises PROVE ServiceStep
      BY <1>16, Unviewed DEF StartRaises, FirstSwept, recordVars
<1> QED BY <1>1, <1>2, <1>3, <1>4, <1>5, <1>6, <1>7, <1>8, <1>9, <1>10, <1>11, <1>12,
   <1>13, <1>14, <1>15, <1>16, SweptPart DEF Next

\* No waiting job is revoked when the server starts.
LEMMA RevokedInit == Init => RevokedNotWaiting
BY DEF Init, JobInit, RevokedNotWaiting

\* The server implements the FIFO service of one worker: waiting jobs are served in
\* the order of submission, one at a time, results appear only for jobs nobody
\* revoked, and an ended job never comes back.
THEOREM Refinement == Spec => ImplementsService
<1>1. Init => IInv /\ RevokedNotWaiting /\ Service!ServiceInit
      BY InvInit, RevokedInit, InitMaps
<1>2. IInv /\ RevokedNotWaiting /\ [Next]_vars => IInv' /\ RevokedNotWaiting' /\ ServiceStep
      BY InvStep, RevokedStep, StepMaps DEF IInv
<1> QED BY <1>1, <1>2, PTL DEF Spec, ImplementsService, Service!ServiceSafety, ServiceStep
=============================================================================
