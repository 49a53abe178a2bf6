SPECIFICATION Spec
CONSTANTS
  Unit = 4
  Durations <- MCDurations
  a1 = a1
  a2 = a2
  Assets = {a1, a2}
  NoAsset = NoAsset
  Requests <- MCRequests
  Configured <- MCSettings
CHECK_DEADLOCK FALSE
INVARIANTS FramesNearest SpecRevalidates InsideClip ReadsLeased
