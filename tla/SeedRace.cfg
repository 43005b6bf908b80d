CONSTANTS
  Ids = {1, 2}
  Locations = {"left", "right"}
  LocOf <- MCLocOf
  Kinds <- MCDirectories
  ChannelCap = 1
  MaxVersion = 2
  MaxErrors = 0
SPECIFICATION Spec
INVARIANT BaselineIsServed
