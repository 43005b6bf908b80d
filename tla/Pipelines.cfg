CONSTANTS
  Rows = {r1, r2, r3, r4}
  Processors = {p1, p2}
  Capacity = 1
  Batch = 2
  Coords <- MCCoords
  Data <- MCData
  Titles = {}
  Transform <- MCTransform
  SmallData = {d1, d2}
  BatchSize = 2
  Jobs <- MCJobs
  Content <- MCContent
  Commands <- MCCommands
  Concurrency = 2
  ChannelSize = 1
  BatchRows = 2
  MaxRuns = 2
  Trees <- MCTrees
  PackBatchSize = 2
  Runs = {"r", "s"}
  Options <- MCOptions
  Rasters <- MCRasters
  CogPath <- MCCogPath
  Custom = {"custom"}
  Aligned = {d2, d3}
  Gone = Gone
  MaxStarts = 2
  Workers = {"v", "w"}
  Requests = {"p", "q", "s"}
  ImageOf <- MCImageOf
  Broken = {"b"}
  QueueSize = 2
  MaxPanics = 2
  d1 = d1
  d2 = d2
  d3 = d3
  Null = Null
  Nothing = Nothing
  Failed = Failed
  Unset = Unset
  Scenes = {"bindiff", "transcode", "copy", "tree", "tiler", "render"}
SPECIFICATION AllSpec
INVARIANTS TypeOK NothingLost EachRowOnce FilesFaithful RendersItsStyle
PROPERTIES  PipelinesEnd
CHECK_DEADLOCK FALSE
