SPECIFICATION FairSpec
CONSTANTS
  JobIds = {j1, j2, j3}
  AssetIds = {}
  NoJob = NoJob
  MaxTime = 0
  MaxReaders = 1
  MaxStarts = 1
  UnlinkMayFail = FALSE
  FilesMayVanish = FALSE
  DeleteAfterDownload = TRUE
  MaxQueueSize = 2
  OutputTTL = 1
  GraceTTL = 1
  RecordTTL = 1
  AssetTTL = 1
  TempTTL = 1

CHECK_DEADLOCK FALSE
PROPERTIES ShutdownEnds DeferredDeleteHappens ImplementsFairService
