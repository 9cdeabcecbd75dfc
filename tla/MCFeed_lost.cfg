\* Two sources, blocks that get old on the way: does a block that a live source drops
\* reach the consumer?
CONSTANTS
  s1 = s1
  s2 = s2
  NoHash = 0
  Source <- MCSource
  Hash <- MCHash
  SeqNum <- MCSeqNum
  Verifying = FALSE
  REORG_WINDOW = 2
  SLOW_WINDOW = 100
  SLOW_SHARE = 10
  MaxEntries = 100
  MaxFrame = 1
  MaxReconnects = 0
  Droppable = FALSE
  Capacity = 1
  MaxBlocks = 3
  MaxReorgs = 0
  MaxAged = 3
SPECIFICATION FeedSpec
SYMMETRY Symmetry
CHECK_DEADLOCK FALSE
PROPERTIES
  DroppedWasShown
