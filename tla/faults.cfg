SPECIFICATION Spec
CONSTANTS
  JobIds = {j1}
  AssetIds = {a1}
  NoJob = NoJob
  MaxTime = 4
  MaxReaders = 2
  MaxStarts = 3
  UnlinkMayFail = TRUE
  FilesMayVanish = TRUE
  DeleteAfterDownload = TRUE
  MaxQueueSize = 1
  OutputTTL = 2
  GraceTTL = 1
  RecordTTL = 1
  AssetTTL = 2
  TempTTL = 1

CHECK_DEADLOCK FALSE
INVARIANTS CompleteIsServable NoOrphans
