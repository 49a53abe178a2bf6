----------------------------- MODULE JobManager -----------------------------
(***************************************************************************)
(* The job repository, the bounded FIFO, the single worker and the         *)
(* download pins: jobs/manager.py and jobs/repository.py.                  *)
(*                                                                         *)
(* Every handler runs on one event loop and is atomic between two awaits.  *)
(* The worker awaits three things: backend.initialize(), _wake.wait() and  *)
(* backend.generate(). Between them it holds the loop; worker = "ready" is *)
(* that state, and LoopFree is a guard of every other handler.             *)
(*                                                                         *)
(* Each action gives the next state of every variable of this module, of   *)
(* AssetManager's and of Storage's.                                        *)
(***************************************************************************)
EXTENDS AssetManager, JobState, SequencesExt

CONSTANTS NoJob,               \* None, for running
          MaxQueueSize,        \* settings.max_queue_size
          OutputTTL,           \* settings.output_ttl_seconds
          GraceTTL,            \* settings.download_grace_seconds
          DeleteAfterDownload, \* settings.delete_after_download
          MaxReaders           \* bound: concurrent downloads of one output

ASSUME JobAssumption ==
  /\ NoJob \notin JobIds \cup AssetIds
  /\ {MaxQueueSize, OutputTTL, GraceTTL} \subseteq Nat \ {0}
  /\ MaxReaders \in Nat
  /\ DeleteAfterDownload \in BOOLEAN

VARIABLES status,         \* info.status; see Unrecorded for ids not in the repository
          spec,           \* spec.assets()
          cancel,         \* jobs whose cancel event, and cancellation_requested, is set
          readers,        \* responses that pin the output
          output,         \* jobs with an info.output
          completedAt,    \* info.completed_at
          expiresAt,      \* info.expires_at
          downloaded,     \* jobs with a downloaded_at
          deletePending,  \* jobs whose delete_pending is set
          pending,        \* the FIFO
          running,        \* the job in the worker slot
          accepting,      \* submit admits jobs
          wake,           \* _wake.is_set()
          worker          \* where the worker task is

recordVars == <<status, spec, cancel, readers, output, completedAt, expiresAt,
                downloaded, deletePending>>
queueVars == <<pending, running, accepting, wake, worker>>
jobVars == <<recordVars, queueVars>>

\* unused: not drawn yet. forgotten: the record was swept. lost: the process
\* that held the record ended.
Unrecorded == {"unused", "forgotten", "lost"}
Live == JobStatus \ TERMINAL

WorkerStates == {"absent", "initializing", "ready", "waiting", "generating", "exited"}

JobTypeOK ==
  /\ status \in [JobIds -> JobStatus \cup Unrecorded]
  /\ spec \in [JobIds -> SUBSET AssetIds]
  /\ {cancel, output, downloaded, deletePending} \subseteq SUBSET JobIds
  /\ readers \in [JobIds -> Nat]
  /\ completedAt \in [JobIds -> Time]
  /\ expiresAt \in [JobIds -> Time]
  /\ pending \in Seq(JobIds)
  /\ running \in JobIds \cup {NoJob}
  /\ accepting \in BOOLEAN
  /\ wake \in BOOLEAN
  /\ worker \in WorkerStates
  /\ worker = "generating" => running \in JobIds

JobInit ==
  /\ status = [j \in JobIds |-> "unused"]
  /\ spec = [j \in JobIds |-> {}]
  /\ cancel = {}
  /\ readers = [j \in JobIds |-> 0]
  /\ output = {}
  /\ completedAt = [j \in JobIds |-> Never]
  /\ expiresAt = [j \in JobIds |-> Never]
  /\ downloaded = {}
  /\ deletePending = {}
  /\ pending = <<>>
  /\ running = NoJob
  /\ accepting = FALSE
  /\ wake = FALSE
  /\ worker = "absent"

LoopFree == worker # "ready"

ClearOutput(j) == output' = output \ {j}

\* transition(j, to) from a status that allows it: a terminal one is time-stamped.
Transition(j, to) ==
  /\ status' = [status EXCEPT ![j] = to]
  /\ completedAt' = [completedAt EXCEPT
                       ![j] = IF to \in TERMINAL /\ to # status[j] THEN now ELSE @]

\* unlink(missing_ok=True) of j's output may raise only if the file is there.
OutputUnlink(j) == IF UnlinkMayFail /\ outputs[j] # Never THEN BOOLEAN ELSE {TRUE}

\* Mutant: the flag is cleared whether or not the file went.
DeleteOutput_ClearsFlag(j, pend, ok) ==
  /\ outputs' = IF readers[j] = 0 /\ ok THEN Removed(outputs, j) ELSE outputs
  /\ deletePending' = deletePending \ {j}

\* _delete_output, with pend the delete_pending jobs before it: a pinned file
\* stays, and so does one whose unlink raises.
DeleteOutput(j, pend, ok) ==
  IF readers[j] = 0 /\ ok
  THEN /\ outputs' = Removed(outputs, j)
       /\ deletePending' = pend \ {j}
  ELSE /\ outputs' = outputs
       /\ deletePending' = pend

-----------------------------------------------------------------------------
HasRoom == Len(pending) < MaxQueueSize

\* Mutant: the event is not set.
SetWake_Forgotten == UNCHANGED wake

SetWake == wake' = TRUE

\* submit(): the capacity check, the leases, the record and the FIFO in one step.
Submit(j, assets) ==
  /\ LoopFree
  /\ accepting
  /\ status[j] = "unused"
  /\ HasRoom
  /\ Acquire(j, assets)
  /\ status' = [status EXCEPT ![j] = "queued"]
  /\ spec' = [spec EXCEPT ![j] = assets]
  /\ pending' = Append(pending, j)
  /\ SetWake
  /\ UNCHANGED <<now, storageVars, fresh, uploading, records, cancel, readers, output,
                 completedAt, expiresAt, downloaded, deletePending, running, accepting,
                 worker>>

-----------------------------------------------------------------------------
\* Mutant: an output being read expires too.
Expirable_IgnoresPins(j) ==
  /\ status[j] = "complete"
  /\ Past(expiresAt[j])

\* expire() does something: a deadline has passed and nobody reads the output.
Expirable(j) ==
  /\ status[j] = "complete"
  /\ Past(expiresAt[j])
  /\ readers[j] = 0

\* get(), from GET /generations/{id}, from a download or from the worker, on a
\* job whose deadline has passed.
GetExpires(j) ==
  /\ LoopFree
  /\ Expirable(j)
  /\ DeleteOutput(j, deletePending, TRUE)
  /\ Transition(j, "expired")
  /\ ClearOutput(j)
  /\ UNCHANGED <<now, tmp, assetFiles, assetVars, spec, cancel, readers, expiresAt,
                 downloaded, queueVars>>

\* begin_download() past its 410 and 409 checks.
Downloadable(j) == status[j] = "complete" /\ ~Past(expiresAt[j])

BeginDownload(j) ==
  /\ LoopFree
  /\ Downloadable(j)
  /\ outputs[j] # Never
  /\ readers[j] < MaxReaders
  /\ readers' = [readers EXCEPT ![j] = @ + 1]
  /\ UNCHANGED <<now, storageVars, assetVars, status, spec, cancel, output,
                 completedAt, expiresAt, downloaded, deletePending, queueVars>>

\* begin_download() finds the file gone: the job expires, whoever still reads it.
BeginDownloadMissing(j) ==
  /\ LoopFree
  /\ Downloadable(j)
  /\ outputs[j] = Never
  /\ Transition(j, "expired")
  /\ ClearOutput(j)
  /\ UNCHANGED <<now, storageVars, assetVars, spec, cancel, readers, expiresAt,
                 downloaded, deletePending, queueVars>>

\* end_download()'s deadline: the first full download shortens it to its grace.
Shortened(j) ==
  IF DeleteAfterDownload /\ expiresAt[j] # Never /\ now + GraceTTL < expiresAt[j]
  THEN now + GraceTTL ELSE expiresAt[j]

\* Mutant: a response that began once may end twice.
Pinned_Once(j) == status[j] \in TERMINAL

Pinned(j) == readers[j] > 0

\* Mutant: the deletion that waited for this response is not made up for.
DeletionDue_Forgotten(j) == FALSE

\* The last response to end carries out the deletion that waited for it.
DeletionDue(j) == j \in deletePending /\ readers[j] = 1

\* end_download(), in the finally of every response that began.
EndDownload(j, successful, ok) ==
  LET first == successful /\ j \notin downloaded /\ status[j] = "complete"
      deleted == DeletionDue(j) /\ ok
  IN
  /\ LoopFree
  /\ Pinned(j)
  /\ readers' = [readers EXCEPT ![j] = @ - 1]
  /\ downloaded' = IF first THEN downloaded \cup {j} ELSE downloaded
  /\ expiresAt' = IF first THEN [expiresAt EXCEPT ![j] = Shortened(j)] ELSE expiresAt
  /\ outputs' = IF deleted THEN Removed(outputs, j) ELSE outputs
  /\ deletePending' = IF deleted THEN deletePending \ {j} ELSE deletePending
  /\ UNCHANGED <<now, tmp, assetFiles, assetVars, status, spec, cancel, output,
                 completedAt, queueVars>>

-----------------------------------------------------------------------------
\* delete() of a job that is waiting in the FIFO.
DeleteQueued(j) ==
  /\ LoopFree
  /\ status[j] \in Live
  /\ running # j
  /\ \E i \in DOMAIN pending : pending[i] = j /\ pending' = RemoveAt(pending, i)
  /\ cancel' = cancel \cup {j}
  /\ Transition(j, "cancelled")
  /\ leases' = Released({j})
  /\ ClearOutput(j)
  /\ expiresAt' = [expiresAt EXCEPT ![j] = Never]
  /\ DeleteOutput(j, deletePending \cup {j}, TRUE)
  /\ UNCHANGED <<now, tmp, assetFiles, fresh, uploading, records, spec, readers,
                 downloaded, running, accepting, wake, worker>>

\* Mutants: the slot is freed at once; the inputs are released at once.
KeepSlot_Freed ==
  /\ running' = NoJob
  /\ worker' = "ready"
  /\ UNCHANGED leases
KeepSlot_Unleased ==
  /\ leases' = Released({running})
  /\ UNCHANGED <<running, worker>>

\* The worker slot and the leases wait for the backend.
KeepSlot == UNCHANGED <<leases, running, worker>>

\* delete() of the running job: the intent is recorded, the slot and the leases stay.
DeleteRunning(j) ==
  /\ LoopFree
  /\ status[j] \in Live
  /\ running = j
  /\ cancel' = cancel \cup {j}
  /\ KeepSlot
  /\ UNCHANGED <<now, storageVars, fresh, uploading, records, status, spec, readers,
                 output, completedAt, expiresAt, downloaded, deletePending, pending,
                 accepting, wake>>

\* Mutant: whatever ended becomes cancelled.
AfterDelete_Relabels(ended) == "cancelled"

AfterDelete(ended) == IF ended = "complete" THEN "cancelled" ELSE ended

\* delete() of a finished job: the metadata now, the file when nobody reads it.
DeleteFinished(j, ok) ==
  /\ LoopFree
  /\ status[j] \in TERMINAL
  /\ Transition(j, AfterDelete(status[j]))
  /\ ClearOutput(j)
  /\ expiresAt' = [expiresAt EXCEPT ![j] = Never]
  /\ DeleteOutput(j, deletePending \cup {j}, ok)
  /\ UNCHANGED <<now, tmp, assetFiles, assetVars, spec, cancel, readers, downloaded,
                 queueVars>>

-----------------------------------------------------------------------------
\* initialize() returned or raised ServiceError: the worker enters its loop either way.
Initialized ==
  /\ worker = "initializing"
  /\ worker' = "ready"
  /\ UNCHANGED <<now, storageVars, assetVars, recordVars, pending, running,
                 accepting, wake>>

\* The loop condition fails.
WorkerExits ==
  /\ worker = "ready"
  /\ ~accepting
  /\ pending = <<>>
  /\ worker' = "exited"
  /\ UNCHANGED <<now, storageVars, assetVars, recordVars, pending, running,
                 accepting, wake>>

\* Nothing to do: clear the event, then await it.
WorkerSleeps ==
  /\ worker = "ready"
  /\ accepting
  /\ pending = <<>>
  /\ wake' = FALSE
  /\ worker' = "waiting"
  /\ UNCHANGED <<now, storageVars, assetVars, recordVars, pending, running, accepting>>

WorkerWakes ==
  /\ worker = "waiting"
  /\ wake
  /\ worker' = "ready"
  /\ UNCHANGED <<now, storageVars, assetVars, recordVars, pending, running,
                 accepting, wake>>

\* Mutant: pop.
PopLeft_Newest(j) == pending # <<>> /\ j = Last(pending) /\ pending' = Front(pending)

PopLeft(j) == pending # <<>> /\ j = Head(pending) /\ pending' = Tail(pending)

\* popleft, up to await backend.generate().
WorkerTakes ==
  /\ worker = "ready"
  /\ \E j \in JobIds :
       /\ PopLeft(j)
       /\ running' = j
       /\ Transition(j, "loading")
       /\ Touch(j)
  /\ worker' = "generating"
  /\ UNCHANGED <<now, outputs, assetFiles, assetVars, spec, cancel, readers, output,
                 expiresAt, downloaded, deletePending, accepting, wake>>

\* popleft, but the partial file cannot be created: the job fails, the loop goes on.
WorkerTakesAndFails ==
  /\ worker = "ready"
  /\ \E j \in JobIds :
       /\ PopLeft(j)
       /\ Transition(j, "failed")
       /\ leases' = Released({j})
  /\ UNCHANGED <<now, storageVars, fresh, uploading, records, spec, cancel, readers,
                 output, expiresAt, downloaded, deletePending, running, accepting,
                 wake, worker>>

\* _report_stage, called back on the loop. A stage that is not ahead of the
\* current one raises in the callback and leaves the job alone.
ReportStage(stage) ==
  /\ worker = "generating"
  /\ stage \in ActiveStages
  /\ CanTransition(status[running], stage)
  /\ Transition(running, stage)
  /\ UNCHANGED <<now, storageVars, assetVars, spec, cancel, readers, output,
                 expiresAt, downloaded, deletePending, queueVars>>

\* The backend writes to the partial file it was given.
BackendWrites ==
  /\ worker = "generating"
  /\ tmp[running] # Never
  /\ Touch(running)
  /\ UNCHANGED <<now, outputs, assetFiles, assetVars, jobVars>>

-----------------------------------------------------------------------------
\* The rest of the finally, after tmp has been dealt with.
WorkerReleases ==
  /\ leases' = Released({running})
  /\ running' = NoJob
  /\ worker' = "ready"
  /\ UNCHANGED <<now, assetFiles, fresh, uploading, records, spec, cancel, readers,
                 downloaded, deletePending, pending, accepting, wake>>

\* Mutant: the result is published without a look at the event.
Wanted_Unasked(j) == TRUE

Wanted(j) == j \notin cancel

\* A usable result arrived and nobody cancelled: publish and start the deadline.
GenerationCompletes ==
  /\ worker = "generating"
  /\ Wanted(running)
  /\ PublishOutput(running)
  /\ Transition(running, "complete")
  /\ output' = output \cup {running}
  /\ expiresAt' = [expiresAt EXCEPT ![running] = now + OutputTTL]
  /\ WorkerReleases

\* The backend raised, or left nothing to publish; or the job was cancelled, and
\* then whatever the backend returned is dropped. ok: unlink of the partial worked.
GenerationEnds(ok) ==
  /\ worker = "generating"
  /\ Transition(running, IF running \in cancel THEN "cancelled" ELSE "failed")
  /\ tmp' = IF ok THEN Removed(tmp, running) ELSE tmp
  /\ outputs' = IF ok THEN Removed(outputs, running) ELSE outputs
  /\ UNCHANGED <<output, expiresAt>>
  /\ WorkerReleases

\* The finally's unlinks may raise only if the partial file is there.
PartialUnlink ==
  IF UnlinkMayFail /\ running # NoJob /\ tmp[running] # Never THEN BOOLEAN ELSE {TRUE}

-----------------------------------------------------------------------------
\* start()
StartWorker ==
  /\ accepting' = TRUE
  /\ worker' = "initializing"

\* stop() up to await self._worker: delete() of every waiting job, which has no
\* output, deadline or reader yet, then of the running one, then the wake-up.
Stop ==
  LET waiting == {j \in JobIds : \E i \in DOMAIN pending : pending[i] = j}
  IN
  /\ LoopFree
  /\ accepting' = FALSE
  /\ pending' = <<>>
  /\ status' = [j \in JobIds |-> IF j \in waiting THEN "cancelled" ELSE status[j]]
  /\ completedAt' = [j \in JobIds |-> IF j \in waiting THEN now ELSE completedAt[j]]
  /\ cancel' = cancel \cup waiting \cup ({running} \cap JobIds)
  /\ leases' = Released(waiting)
  /\ SetWake
  /\ UNCHANGED <<now, storageVars, fresh, uploading, records, spec, readers, output,
                 expiresAt, downloaded, deletePending, running, worker>>
=============================================================================
