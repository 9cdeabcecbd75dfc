\* Two sources share a channel for one message; the Feed is dropped at any moment.
\* The sequencer stops after MaxBlocks: a quiet feed is not a deadlock.
CONSTANTS
  s1 = s1
  s2 = s2
  NoHash = 0
  Source <- MCSource
  Hash <- MCHash
  SeqNum <- MCSeqNum
  Verifying = FALSE
  REORG_WINDOW = 2
  SLOW_WINDOW = 2
  SLOW_SHARE = 10
  MaxEntries = 4
  MaxFrame = 1
  MaxReconnects = 0
  Droppable = TRUE
  Capacity = 1
  MaxBlocks = 3
  MaxReorgs = 0
  MaxAged = 1
SPECIFICATION FairFeedSpec
CHECK_DEADLOCK FALSE
INVARIANTS
  RoomIsAccounted
  ConsumedOnce
PROPERTIES
  LostToBacklog
  AllHandedOver
  StopsWhenDropped
