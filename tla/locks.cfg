SPECIFICATION Spec
CONSTANTS
  Servers = {s1, s2, s3}
  Dirs = {1, 2, 3, 4}
  Configured = {{1, 2, 3}, {2, 3, 4}, {1, 2, 4}}
CHECK_DEADLOCK FALSE
INVARIANTS ExclusiveUse SomebodyStarts
