CONSTANTS
  Requests = {r1, r2}
  Sources = {roads}
  Keys = {tile, far}
  SourceOf <- MCSourceOf
  Cached = {tile}
  MaxVersion = 3
  Nobody = Nobody
  r1 = r1 r2 = r2 roads = roads tile = tile far = far
SPECIFICATION FairHistorySpec
INVARIANTS TypeOK ServedIffTracked StaleOnlyByOverlap
PROPERTIES EveryRequestAnswered 
