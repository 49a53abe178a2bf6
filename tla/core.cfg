SPECIFICATION Spec
CONSTANTS
  JobIds = {j1, j2, j3}
  AssetIds = {a1, a2}
  NoJob = NoJob
  MaxTime = 0
  MaxReaders = 1
  MaxStarts = 1
  UnlinkMayFail = FALSE
  FilesMayVanish = FALSE
  DeleteAfterDownload = TRUE
  MaxQueueSize = 2
  OutputTTL = 2
  GraceTTL = 1
  RecordTTL = 1
  AssetTTL = 2
  TempTTL = 1
SYMMETRY Symmetry
CHECK_DEADLOCK FALSE
INVARIANTS TypeOK SchedulerExact LeasesExact
PROPERTIES TransitionsLegal CancelledNeverPublished ImplementsService
