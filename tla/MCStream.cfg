CONSTANTS
  Items = {x, y}
  Size = 3
  Streams = {r1}
  Filters <- EachFilter
  Counts = {2}
  MaxSequence = 6
SPECIFICATION FairSpec
INVARIANTS NothingSkipped SentOnceInOrder
PROPERTY EventuallySent
