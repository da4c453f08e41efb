CONSTANTS
  Items = {x, y}
  Size = 2
  Streams = {r1}
  Filters <- EachFilter
  Counts = {2}
  MaxSequence = 6
SPECIFICATION Spec
INVARIANT NoSilentLoss
