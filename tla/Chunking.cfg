\* Every list of up to four distinct handles, every set of them marked
\* deleted, batches of two: full and short chunks, deleted handles at the
\* start, middle and end of a chunk, and a tail of deleted handles alone.
CONSTANTS
  h1 = h1
  h2 = h2
  h3 = h3
  h4 = h4
  Hs = {h1, h2, h3, h4}
  BatchMax = 2

SPECIFICATION Spec

INVARIANT DeleteChunksMatchPartition
INVARIANT VisibilityChunksMatchPartition
