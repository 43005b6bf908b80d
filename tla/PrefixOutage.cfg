CONSTANTS
  Ids = {1, 2}
  Locations = {"left", "right"}
  LocOf <- MCLocOf
  Kinds <- MCPrefixes
  ChannelCap = 1
  MaxVersion = 2
  MaxErrors = 1
SPECIFICATION Spec
PROPERTY NoOutageDrop
