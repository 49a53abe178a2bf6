------------------------------ MODULE Storage -------------------------------
(***************************************************************************)
(* Managed storage: the three directories of media/storage.py and the      *)
(* clock their files are aged by. A directory is a function from the id in *)
(* a file's name to the file's mtime, Never when there is no such file:    *)
(* tmp/<id>.partial, outputs/<job>.mp4 and assets/<asset>.bin.             *)
(***************************************************************************)
EXTENDS Integers

CONSTANTS JobIds,    \* the ids new_id("gen") can draw
          AssetIds,  \* the ids new_id("asset") can draw
          MaxTime,   \* bound: the clock stops here
          UnlinkMayFail  \* unlink of an existing file may raise OSError

ASSUME StorageAssumption ==
  /\ JobIds \cap AssetIds = {}
  /\ MaxTime \in Nat
  /\ UnlinkMayFail \in BOOLEAN

VARIABLES now,         \* utcnow(), and the mtime a write gives
          tmp,         \* partial files of jobs and uploads
          outputs,     \* published videos
          assetFiles   \* published uploads

storageVars == <<tmp, outputs, assetFiles>>

\* None for a datetime, and "no file" for an mtime.
Never == -1
Time == Nat \cup {Never}
Past(t) == t # Never /\ t <= now

StorageTypeOK ==
  /\ now \in Nat
  /\ tmp \in [JobIds \cup AssetIds -> Time]
  /\ outputs \in [JobIds -> Time]
  /\ assetFiles \in [AssetIds -> Time]

StorageInit ==
  /\ now = 0
  /\ tmp = [id \in JobIds \cup AssetIds |-> Never]
  /\ outputs = [j \in JobIds |-> Never]
  /\ assetFiles = [a \in AssetIds |-> Never]

-----------------------------------------------------------------------------
\* create_partial, and every later write to the partial file.
Touch(id) == tmp' = [tmp EXCEPT ![id] = now]

\* remove(): unlink(missing_ok=True).
Removed(files, id) == [files EXCEPT ![id] = Never]

\* publish(): the partial's mtime is reset and it is renamed into its area, so
\* retention is counted from publication.
PublishOutput(j) ==
  /\ tmp[j] # Never
  /\ outputs' = [outputs EXCEPT ![j] = now]
  /\ tmp' = Removed(tmp, j)
  /\ UNCHANGED assetFiles

PublishAsset(a) ==
  /\ tmp[a] # Never
  /\ assetFiles' = [assetFiles EXCEPT ![a] = now]
  /\ tmp' = Removed(tmp, a)
  /\ UNCHANGED outputs

\* The files of one directory that a sweep has to unlink: unprotected, of age ttl.
Old(files, protected, ttl) ==
  {id \in DOMAIN files : id \notin protected /\ files[id] # Never /\ files[id] + ttl <= now}

\* ... and the directory once these are unlinked.
Without(files, ids) == [id \in DOMAIN files |-> IF id \in ids THEN Never ELSE files[id]]
=============================================================================
