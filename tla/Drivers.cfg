\* A driver that waits for file events may wait for ever.
CHECK_DEADLOCK FALSE
CONSTANTS
  Ids = {1, 2}
  Locations = {"left", "right"}
  LocOf <- MCLocOf
  Kinds <- MCDrivers
  ChannelCap = 1
  MaxVersion = 3
  MaxErrors = 1
SPECIFICATION FairSpec
INVARIANTS TypeOK BaselineKept ServedIsTracked ChangePending
PROPERTIES NoFlap FilesFollowed
