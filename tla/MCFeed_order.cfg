\* Two sources: do messages arrive in the order of the sequencer?
CONSTANTS
  s1 = s1
  s2 = s2
  NoHash = 0
  Source <- MCSource
  Hash <- MCHash
  SeqNum <- MCSeqNum
  Verifying = FALSE
  REORG_WINDOW = 2
  SLOW_WINDOW = 100
  SLOW_SHARE = 10
  MaxEntries = 100
  MaxFrame = 2
  MaxReconnects = 0
  Droppable = FALSE
  Capacity = 2
  MaxBlocks = 2
  MaxReorgs = 0
  MaxAged = 0
SPECIFICATION FeedSpec
SYMMETRY Symmetry
CHECK_DEADLOCK FALSE
INVARIANTS
  ConsumedInOrder
