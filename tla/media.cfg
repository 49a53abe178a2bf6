SPECIFICATION FairSpec
CONSTANTS
  Frames = 2
  Pieces = 2
  PipeRoom = 2
  Limit = 2
  Window = 3
CHECK_DEADLOCK FALSE
INVARIANTS NoChildLeft AcceptedWhole CancelObeyed
PROPERTIES TimeBounded ToolsEnd
