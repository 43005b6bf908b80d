CONSTANTS
  Requests = {r1}
  Sources = {roads}
  Keys = {tile}
  SourceOf <- MCSourceOf
  Cached = {tile}
  MaxVersion = 2
  Nobody = Nobody
  r1 = r1 roads = roads tile = tile
SPECIFICATION Spec
INVARIANT CacheCoherentAtRest
