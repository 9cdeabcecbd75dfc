\* One source, reorgs, outages that hide them.
\* The sequencer stops after MaxBlocks: a quiet feed is not a deadlock.
CONSTANTS
  s1 = s1
  s2 = s2
  NoHash = 0
  Source = {s1}
  Hash <- MCHash
  SeqNum = {0, 1, 2}
  Verifying = FALSE
  REORG_WINDOW = 2
  SLOW_WINDOW = 100
  SLOW_SHARE = 10
  MaxEntries = 100
  MaxFrame = 1
  MaxReconnects = 2
  Droppable = FALSE
  Capacity = 1
  MaxBlocks = 7
  MaxReorgs = 2
  MaxAged = 0
SPECIFICATION FairFeedSpec
CHECK_DEADLOCK FALSE
INVARIANTS
  ConsumedForward
PROPERTIES
  OldBlocksDropped
  NoGap
  CatchesUp
