---------------------------- MODULE AssetManager ----------------------------
(***************************************************************************)
(* Uploaded media and the leases jobs hold on it: media/assets.py.         *)
(* An upload is a coroutine that awaits the request body, the writing      *)
(* thread and the media probe, so handlers of other requests and the sweep *)
(* run between its steps. acquire, release and delete have no await.       *)
(* Each action here gives the next state of this module's and of Storage's *)
(* variables; Server frames the rest.                                      *)
(***************************************************************************)
EXTENDS Storage

CONSTANT AssetTTL    \* settings.asset_ttl_seconds

ASSUME AssetAssumption == AssetTTL \in Nat \ {0}

VARIABLES fresh,      \* asset ids new_id has not drawn yet
          uploading,  \* AssetManager.uploading
          records,    \* expires_at of each recorded asset; Never: not in the dict
          leases      \* the jobs in each record's lease set

assetVars == <<fresh, uploading, records, leases>>

AssetTypeOK ==
  /\ fresh \subseteq AssetIds
  /\ uploading \subseteq AssetIds
  /\ records \in [AssetIds -> Time]
  /\ leases \in [AssetIds -> SUBSET JobIds]

AssetInit ==
  /\ fresh = AssetIds
  /\ uploading = {}
  /\ records = [a \in AssetIds |-> Never]
  /\ leases = [a \in AssetIds |-> {}]

-----------------------------------------------------------------------------
\* upload() up to its first await: the id is protected before the file exists.
UploadBegin(a) ==
  /\ a \in fresh
  /\ fresh' = fresh \ {a}
  /\ uploading' = uploading \cup {a}
  /\ Touch(a)
  /\ UNCHANGED <<now, outputs, assetFiles, records, leases>>

\* One chunk written by the thread the coroutine awaits.
UploadChunk(a) ==
  /\ a \in uploading
  /\ tmp[a] # Never
  /\ Touch(a)
  /\ UNCHANGED <<now, outputs, assetFiles, assetVars>>

\* The probe accepted the media: publish, record, leave the uploading set.
UploadPublish(a) ==
  /\ a \in uploading
  /\ PublishAsset(a)
  /\ records' = [records EXCEPT ![a] = now + AssetTTL]
  /\ uploading' = uploading \ {a}
  /\ UNCHANGED <<now, fresh, leases>>

\* Too large, empty, refused by the probe, or the client went away: the finally forgets
\* the id, then unlinks the partial, which may raise and leave the file unprotected.
UploadFails(a) ==
  /\ a \in uploading
  /\ uploading' = uploading \ {a}
  /\ tmp' = Removed(tmp, a) \/ (UnlinkMayFail /\ UNCHANGED tmp)
  /\ UNCHANGED <<now, outputs, assetFiles, fresh, records, leases>>

-----------------------------------------------------------------------------
\* get() returns the record: known, before its deadline, and its file is there.
Usable(a) ==
  /\ records[a] # Never
  /\ records[a] > now
  /\ assetFiles[a] # Never

\* acquire() without an exception: every asset is validated before any is leased.
Acquire(j, assets) ==
  /\ \A a \in assets : Usable(a)
  /\ leases' = [a \in AssetIds |->
                  IF a \in assets THEN leases[a] \cup {j} ELSE leases[a]]

Released(jobs) == [a \in AssetIds |-> leases[a] \ jobs]

\* delete(): a leased asset is refused with 409.
DeleteAsset(a) ==
  /\ records[a] # Never
  /\ leases[a] = {}
  /\ assetFiles' = Removed(assetFiles, a)
  /\ records' = [records EXCEPT ![a] = Never]
  /\ UNCHANGED <<now, tmp, outputs, fresh, uploading, leases>>

\* Mutant: the sweep forgets the leases.
Stale_IgnoresLeases(a) == Past(records[a])

\* The assets a sweep deletes: past their deadline and held by no job.
Stale(a) == Past(records[a]) /\ leases[a] = {}
=============================================================================
