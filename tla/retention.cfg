SPECIFICATION Spec
CONSTANTS
  JobIds = {j1, j2}
  AssetIds = {a1}
  NoJob = NoJob
  MaxTime = 3
  MaxReaders = 1
  MaxStarts = 2
  UnlinkMayFail = FALSE
  FilesMayVanish = FALSE
  DeleteAfterDownload = TRUE
  MaxQueueSize = 1
  OutputTTL = 2
  GraceTTL = 1
  RecordTTL = 1
  AssetTTL = 2
  TempTTL = 1
SYMMETRY Symmetry
CHECK_DEADLOCK FALSE
INVARIANTS FilesInUseStay
PROPERTIES ResultsKept
