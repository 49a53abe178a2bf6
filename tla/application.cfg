SPECIFICATION AppSpec
CONSTANTS
  JobIds = {j1}
  AssetIds = {a1}
  NoJob = NoJob
  MaxTime = 1
  MaxReaders = 1
  MaxStarts = 2
  UnlinkMayFail = TRUE
  FilesMayVanish = FALSE
  DeleteAfterDownload = TRUE
  MaxQueueSize = 1
  OutputTTL = 1
  GraceTTL = 1
  RecordTTL = 1
  AssetTTL = 1
  TempTTL = 1
  Selections = {plain, styled}
  Styled = {styled}
  Plain = plain
  MaxCalls = 3
  MaxVersion = 0
  MaxReports = 1
CHECK_DEADLOCK FALSE
INVARIANTS InStep
PROPERTIES ImplementsServer CallsAsExpected
