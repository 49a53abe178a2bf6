------------------------------- MODULE Server -------------------------------
(***************************************************************************)
(* The application: the lifespan of main.py and the sweep of               *)
(* jobs/cleanup.py over the managers, with a clock, crashes and restarts.  *)
(* Memory is lost when the process ends; the three directories stay.       *)
(***************************************************************************)
EXTENDS JobManager

CONSTANTS RecordTTL,      \* settings.job_record_ttl_seconds
          TempTTL,        \* settings.temp_ttl_seconds
          MaxStarts,      \* bound: how often the process is started
          FilesMayVanish  \* somebody else may remove published files

ASSUME ServerAssumption ==
  /\ {RecordTTL, TempTTL} \subseteq Nat \ {0}
  /\ MaxStarts \in Nat
  /\ FilesMayVanish \in BOOLEAN

VARIABLES phase,   \* of the lifespan: down, up, or stopping (awaiting the worker)
          starts,  \* processes started so far
          gone     \* published files somebody else removed

lifeVars == <<phase, starts, gone>>
vars == <<now, storageVars, assetVars, jobVars, lifeVars>>

LifeTypeOK ==
  /\ phase \in {"down", "up", "stopping"}
  /\ starts \in Nat
  /\ gone \subseteq JobIds \cup AssetIds

TypeOK == StorageTypeOK /\ AssetTypeOK /\ JobTypeOK /\ LifeTypeOK

Init ==
  /\ StorageInit
  /\ AssetInit
  /\ JobInit
  /\ phase = "down"
  /\ starts = 0
  /\ gone = {}

-----------------------------------------------------------------------------
\* sweep() drops this record: a finished job, nothing to serve, kept long enough.
Forgettable(j) ==
  /\ status[j] \in TERMINAL
  /\ ~Expirable(j)
  /\ readers[j] = 0
  /\ j \notin output
  /\ completedAt[j] + RecordTTL <= now

\* Mutant: every id a job ever had protects its partial.
ProtectedTmp_Greedy == uploading \cup {j \in JobIds : status[j] # "unused"}

ProtectedTmp == uploading \cup {j \in JobIds : status[j] \in Live}

ProtectedOutputs == {j \in JobIds : j \in output \/ readers[j] > 0}

ProtectedAssets == {a \in AssetIds : records[a] # Never}

\* What a sweep has to do, after the records' part is done: what it expires and
\* deletes there is gone from its directory by then.
StaleAssets == {a \in AssetIds : Stale(a)}
OldTmp == Old(tmp, ProtectedTmp, TempTTL)
OldOutputs == Old(outputs, ProtectedOutputs, OutputTTL)
OldAssets == Old(assetFiles, ProtectedAssets, AssetTTL)

\* Mutant: a job is marked expired before its output is unlinked.
Swept_StatusFirst(jobs, assets, partials, published, uploads) ==
  LET expiring == {j \in jobs : Expirable(j)}
      dropped == {j \in jobs : Forgettable(j)}
      Reset(f, default) == [j \in JobIds |-> IF j \in dropped THEN default ELSE f[j]]
  IN
  /\ phase # "down"
  /\ LoopFree
  /\ status' = [j \in JobIds |-> IF Expirable(j) THEN "expired"
                                 ELSE IF j \in dropped THEN "forgotten" ELSE status[j]]
  /\ completedAt' = [j \in JobIds |-> IF j \in expiring THEN now
                                      ELSE IF j \in dropped THEN Never ELSE completedAt[j]]
  /\ output' = output \ (expiring \cup dropped)
  /\ deletePending' = deletePending \ (expiring \cup dropped)
  /\ spec' = Reset(spec, {})
  /\ cancel' = cancel \ dropped
  /\ expiresAt' = Reset(expiresAt, Never)
  /\ downloaded' = downloaded \ dropped
  /\ records' = Without(records, assets)
  /\ tmp' = Without(tmp, partials)
  /\ outputs' = Without(outputs, expiring \cup published)
  /\ assetFiles' = Without(assetFiles, assets \cup uploads)
  /\ UNCHANGED <<now, fresh, uploading, leases, readers, queueVars, lifeVars>>

\* sweep() as far as it came: it has expired jobs and dropped their records, deleted
\* assets, and unlinked partials, outputs and uploads that nothing protects.
Swept(jobs, assets, partials, published, uploads) ==
  LET expiring == {j \in jobs : Expirable(j)}
      dropped == {j \in jobs : Forgettable(j)}
      Reset(f, default) == [j \in JobIds |-> IF j \in dropped THEN default ELSE f[j]]
  IN
  /\ phase # "down"
  /\ LoopFree
  /\ status' = [j \in JobIds |-> IF j \in expiring THEN "expired"
                                 ELSE IF j \in dropped THEN "forgotten" ELSE status[j]]
  /\ completedAt' = [j \in JobIds |-> IF j \in expiring THEN now
                                      ELSE IF j \in dropped THEN Never ELSE completedAt[j]]
  /\ output' = output \ (expiring \cup dropped)
  /\ deletePending' = deletePending \ (expiring \cup dropped)
  /\ spec' = Reset(spec, {})
  /\ cancel' = cancel \ dropped
  /\ expiresAt' = Reset(expiresAt, Never)
  /\ downloaded' = downloaded \ dropped
  /\ records' = Without(records, assets)
  /\ tmp' = Without(tmp, partials)
  /\ outputs' = Without(outputs, expiring \cup published)
  /\ assetFiles' = Without(assetFiles, assets \cup uploads)
  /\ UNCHANGED <<now, fresh, uploading, leases, readers, queueVars, lifeVars>>

Sweep == Swept(JobIds, StaleAssets, OldTmp, OldOutputs, OldAssets)

\* One unlink in the directories raised: they are gone through in this order, and
\* what comes after it stays, of its own directory any part.
CutShort(partials, published, uploads, oldTmp, oldOutputs, oldAssets) ==
  \/ partials # oldTmp /\ published = {} /\ uploads = {}
  \/ partials = oldTmp /\ published # oldOutputs /\ uploads = {}
  \/ partials = oldTmp /\ published = oldOutputs /\ uploads # oldAssets

\* A sweep that an unlink ends, of an expiring output, of a stale asset or of an old
\* file: the next one starts over.
SweepAborts ==
  /\ UnlinkMayFail
  /\ \/ \E jobs \in SUBSET JobIds :
          /\ \E j \in JobIds \ jobs : Expirable(j) /\ outputs[j] # Never
          /\ Swept(jobs, {}, {}, {}, {})
     \/ \E assets \in SUBSET StaleAssets :
          /\ \E a \in StaleAssets \ assets : assetFiles[a] # Never
          /\ Swept(JobIds, assets, {}, {}, {})
     \/ \E partials \in SUBSET OldTmp, published \in SUBSET OldOutputs,
           uploads \in SUBSET OldAssets :
          /\ CutShort(partials, published, uploads, OldTmp, OldOutputs, OldAssets)
          /\ Swept(JobIds, StaleAssets, partials, published, uploads)

-----------------------------------------------------------------------------
\* What ends with the process: records, leases, FIFO, pins, uploads.
MemoryLost ==
  /\ status' = [j \in JobIds |-> IF status[j] \in JobStatus THEN "lost" ELSE status[j]]
  /\ spec' = [j \in JobIds |-> {}]
  /\ cancel' = {}
  /\ readers' = [j \in JobIds |-> 0]
  /\ output' = {}
  /\ completedAt' = [j \in JobIds |-> Never]
  /\ expiresAt' = [j \in JobIds |-> Never]
  /\ downloaded' = {}
  /\ deletePending' = {}
  /\ pending' = <<>>
  /\ running' = NoJob
  /\ accepting' = FALSE
  /\ wake' = FALSE
  /\ worker' = "absent"
  /\ uploading' = {}
  /\ records' = [a \in AssetIds |-> Never]
  /\ leases' = [a \in AssetIds |-> {}]

\* The first sweep, with nothing in memory to protect a file.
FirstSwept(partials, published, uploads) ==
  /\ phase = "down"
  /\ starts < MaxStarts
  /\ starts' = starts + 1
  /\ tmp' = Without(tmp, partials)
  /\ outputs' = Without(outputs, published)
  /\ assetFiles' = Without(assetFiles, uploads)
  /\ UNCHANGED <<now, assetVars, recordVars, pending, running, wake, gone>>

\* Lifespan start: the first sweep, then the worker and the cleanup task.
StartServer ==
  /\ FirstSwept(Old(tmp, {}, TempTTL), Old(outputs, {}, OutputTTL),
                Old(assetFiles, {}, AssetTTL))
  /\ phase' = "up"
  /\ StartWorker

\* The first sweep raises, and with it the lifespan: stop() finds no worker.
StartRaises ==
  /\ UnlinkMayFail
  /\ \E partials \in SUBSET Old(tmp, {}, TempTTL),
        published \in SUBSET Old(outputs, {}, OutputTTL),
        uploads \in SUBSET Old(assetFiles, {}, AssetTTL) :
       /\ CutShort(partials, published, uploads, Old(tmp, {}, TempTTL),
                   Old(outputs, {}, OutputTTL), Old(assetFiles, {}, AssetTTL))
       /\ FirstSwept(partials, published, uploads)
  /\ UNCHANGED <<phase, accepting, worker>>

\* Lifespan end, up to awaiting the worker.
StopServer ==
  /\ phase = "up"
  /\ Stop
  /\ phase' = "stopping"
  /\ UNCHANGED <<starts, gone>>

\* The worker has returned: close the backend, stop the cleanup task, release
\* the storage locks; the process ends.
ProcessEnds ==
  /\ phase = "stopping"
  /\ worker = "exited"
  /\ phase' = "down"
  /\ MemoryLost
  /\ UNCHANGED <<now, storageVars, fresh, starts, gone>>

\* The process is killed between two handlers.
Crash ==
  /\ phase # "down"
  /\ phase' = "down"
  /\ MemoryLost
  /\ UNCHANGED <<now, storageVars, fresh, starts, gone>>

Tick ==
  /\ now < MaxTime
  /\ now' = now + 1
  /\ UNCHANGED <<storageVars, assetVars, jobVars, lifeVars>>

\* A published file disappears behind the server's back.
FileVanishes ==
  /\ FilesMayVanish
  /\ \/ \E j \in JobIds :
          /\ outputs[j] # Never
          /\ outputs' = Removed(outputs, j)
          /\ gone' = gone \cup {j}
          /\ UNCHANGED assetFiles
     \/ \E a \in AssetIds :
          /\ assetFiles[a] # Never
          /\ assetFiles' = Removed(assetFiles, a)
          /\ gone' = gone \cup {a}
          /\ UNCHANGED outputs
  /\ UNCHANGED <<now, tmp, assetVars, jobVars, phase, starts>>

-----------------------------------------------------------------------------
\* Requests of the asset endpoints: an upload begins or goes on, an asset is deleted.
AssetStep(a) ==
  /\ phase # "down"
  /\ LoopFree
  /\ UploadBegin(a) \/ UploadChunk(a) \/ DeleteAsset(a)
  /\ UNCHANGED <<jobVars, lifeVars>>

\* An upload is published or gives up.
UploadEnds(a) ==
  /\ phase # "down"
  /\ LoopFree
  /\ UploadPublish(a) \/ UploadFails(a)
  /\ UNCHANGED <<jobVars, lifeVars>>

\* A download's response ends, whole or not.
ResponseEnds(j) ==
  /\ \E successful \in BOOLEAN, ok \in OutputUnlink(j) : EndDownload(j, successful, ok)
  /\ UNCHANGED lifeVars

\* Requests of the generation endpoints.
RequestStep(j) ==
  /\ \/ \E assets \in SUBSET AssetIds : Submit(j, assets)
     \/ GetExpires(j)
     \/ BeginDownload(j)
     \/ BeginDownloadMissing(j)
     \/ DeleteQueued(j)
     \/ DeleteRunning(j)
     \/ \E ok \in OutputUnlink(j) : DeleteFinished(j, ok)
  /\ UNCHANGED lifeVars

\* The worker task on the loop.
WorkerStep ==
  /\ \/ Initialized
     \/ WorkerExits
     \/ WorkerSleeps
     \/ WorkerWakes
     \/ WorkerTakes
     \/ WorkerTakesAndFails
  /\ UNCHANGED lifeVars

\* backend.generate() returns or raises, and the worker finishes the job.
BackendReturns ==
  /\ GenerationCompletes \/ \E ok \in PartialUnlink : GenerationEnds(ok)
  /\ UNCHANGED lifeVars

BackendProgress ==
  /\ BackendWrites \/ \E stage \in ActiveStages : ReportStage(stage)
  /\ UNCHANGED lifeVars

Next ==
  \/ \E a \in AssetIds : AssetStep(a) \/ UploadEnds(a)
  \/ \E j \in JobIds : RequestStep(j) \/ ResponseEnds(j)
  \/ WorkerStep
  \/ BackendProgress
  \/ BackendReturns
  \/ Sweep
  \/ SweepAborts
  \/ StartServer
  \/ StartRaises
  \/ StopServer
  \/ ProcessEnds
  \/ Crash
  \/ Tick
  \/ FileVanishes

Spec == Init /\ [][Next]_vars

\* The event loop runs what is ready, the backend returns from every call, the
\* server ends every response and upload it began, time passes, and the cleanup
\* task keeps sweeping. Nobody is obliged to send a request, and no crash or
\* restart is owed.
Fairness ==
  /\ WF_vars(WorkerStep)
  /\ WF_vars(BackendReturns)
  /\ \A j \in JobIds : WF_vars(ResponseEnds(j))
  /\ \A a \in AssetIds : WF_vars(UploadEnds(a))
  /\ WF_vars(Sweep)
  /\ WF_vars(ProcessEnds)
  /\ WF_vars(Tick)

FairSpec == Spec /\ Fairness

-----------------------------------------------------------------------------
\* The FIFO holds exactly the queued jobs, each once, within its capacity.
\* A job cancelled out of the queue, taken or shut down is nowhere else.
QueueExact ==
  /\ \A j \in JobIds : status[j] = "queued" <=> \E i \in DOMAIN pending : pending[i] = j
  /\ \A i, k \in DOMAIN pending : pending[i] = pending[k] => i = k
  /\ Len(pending) <= MaxQueueSize

\* One job at most is under way, and it is the one in the worker slot: the slot
\* is neither freed before the backend returns nor kept after it.
OneActiveJob ==
  /\ \A j \in JobIds : status[j] \in ActiveStages <=> running = j
  /\ worker = "generating" <=> running # NoJob

\* A worker about to sleep through a submission or a shutdown has its wake-up set.
NoLostWakeup == worker = "waiting" /\ (pending # <<>> \/ ~accepting) => wake

\* Every queued job is in the FIFO, where a worker that is awake or woken will take it,
\* and every other live job is the one in its hands.
SchedulerExact == QueueExact /\ OneActiveJob /\ NoLostWakeup

\* Leases are held by exactly the waiting and running jobs, on exactly their
\* inputs: none leaks when a job ends, none is dropped while a cancelled job's
\* backend still reads.
LeasesExact ==
  \A j \in JobIds, a \in AssetIds :
    j \in leases[a] <=> status[j] \in Live /\ a \in spec[j]

\* The inputs of a waiting or running job stay on disk, whatever expires.
InputsStay ==
  \A j \in JobIds : status[j] \in Live =>
    \A a \in spec[j] : records[a] # Never /\ (assetFiles[a] # Never \/ a \in gone)

\* The partial file of the running job, or of an upload under way, is never swept.
PartialsStay ==
  \A id \in JobIds \cup AssetIds :
    running = id \/ id \in uploading => tmp[id] # Never

\* A complete job has its output and its deadline; no other job has an output. A job that
\* expired keeps the deadline that passed.
CompleteIsServable ==
  \A j \in JobIds :
    /\ j \in output <=> status[j] = "complete"
    /\ status[j] = "complete" => expiresAt[j] # Never /\ (outputs[j] # Never \/ j \in gone)

\* Only what a finished job left is sent, and a file being sent stays until the
\* last response that pins it has ended.
PinnedFileStays ==
  \A j \in JobIds : readers[j] > 0 =>
    status[j] \in TERMINAL /\ (outputs[j] # Never \/ j \in gone)

\* Files in use stay, whatever expires, is swept or deleted meanwhile: inputs, partials,
\* outputs being sent.
FilesInUseStay == InputsStay /\ PartialsStay /\ PinnedFileStays

\* Deletion is only ever deferred to a response still under way, which will do it.
DeferredDeleteHasOwner ==
  \A j \in deletePending :
    /\ status[j] \in TERMINAL \ {"complete"}
    /\ readers[j] > 0 \/ UnlinkMayFail

\* Failed, cancelled and expired jobs leave no output behind, and ended jobs no
\* partial, unless the process was killed or an unlink failed.
NoStrayFiles ==
  \A j \in JobIds :
    /\ outputs[j] # Never =>
         \/ status[j] \in {"complete", "lost"}
         \/ j \in deletePending
         \/ UnlinkMayFail /\ status[j] = "forgotten"
    /\ tmp[j] # Never => running = j \/ status[j] = "lost" \/ UnlinkMayFail

\* Nothing stays on disk that nobody will remove: a deferred deletion has its response,
\* what has ended has no file.
NoOrphans == DeferredDeleteHasOwner /\ NoStrayFiles

-----------------------------------------------------------------------------
\* Handlers only ask for transitions the status machine has: transition() never
\* raises in the middle of one.
TransitionsLegal ==
  [][\A j \in JobIds : {status[j], status'[j]} \subseteq JobStatus
                         => CanTransition(status[j], status'[j])]_vars

\* A cancelled job's late result is never published.
CancelledNeverPublished ==
  [][\A j \in cancel : outputs[j] = Never => outputs'[j] = Never]_vars

\* A deadline is only ever brought forward, by downloads and retries alike.
DeadlineNeverExtended ==
  [][\A j \in JobIds : expiresAt[j] # Never => expiresAt'[j] <= expiresAt[j]]_vars

\* A servable output leaves the disk only by DELETE, or once its deadline passed
\* and nobody reads it: neither a sweep's age rule nor a retry is quicker.
OutputKeptUntilDue ==
  [][\A j \in JobIds :
       status[j] = "complete" /\ outputs[j] # Never /\ outputs'[j] = Never =>
         \/ status'[j] = "cancelled" /\ readers[j] = 0
         \/ Past(expiresAt[j]) /\ readers[j] = 0
         \/ j \in gone']_vars

\* A result is kept for as long as promised, and due no later: no download, retry, sweep
\* or deletion of another job moves its end.
ResultsKept == DeadlineNeverExtended /\ OutputKeptUntilDue

-----------------------------------------------------------------------------
\* Every admitted job reaches an end.
EveryJobEnds == \A j \in JobIds : status[j] = "queued" ~> status[j] \notin Live

\* A shutdown that has begun comes to its end: the worker is woken wherever it is.
ShutdownEnds == phase = "stopping" ~> phase = "down"

\* A deletion that waits for readers is carried out.
DeferredDeleteHappens ==
  \A j \in JobIds : j \in deletePending ~> outputs[j] = Never \/ phase = "down"

\* Every file whose retention ends within the clock's bound is removed: those of deleted
\* and expired jobs, those an unlink that raised left behind, an upload's included, and
\* those of an earlier process. A partial that is written again meanwhile is due later.
EveryFileReaped ==
  /\ \A j \in JobIds :
       outputs[j] # Never /\ outputs[j] + OutputTTL <= MaxTime
         ~> outputs[j] = Never \/ phase = "down"
  /\ \A id \in JobIds \cup AssetIds :
       tmp[id] # Never /\ tmp[id] + TempTTL <= MaxTime
         ~> tmp[id] = Never \/ phase = "down" \/ tmp[id] + TempTTL > MaxTime
  /\ \A a \in AssetIds :
       assetFiles[a] # Never /\ assetFiles[a] + AssetTTL <= MaxTime
         ~> assetFiles[a] = Never \/ phase = "down"

-----------------------------------------------------------------------------
\* The jobs of the server as the clients of JobService see them.
ClientView(s) ==
  CASE s = "unused" -> "none"
    [] s = "queued" -> "waiting"
    [] s \in ActiveStages -> "working"
    [] s = "complete" -> "result"
    [] OTHER -> "ended"

jobView == [j \in JobIds |-> ClientView(status[j])]

Service == INSTANCE JobService
  WITH Jobs <- JobIds, Nobody <- NoJob, Capacity <- MaxQueueSize,
       view <- jobView, order <- pending, working <- running,
       revoked <- running \in cancel

\* The server implements the FIFO service of one worker.
ImplementsService == Service!ServiceSafety

\* ... and serves every waiting job.
ImplementsFairService == Service!ServiceSpec
=============================================================================
