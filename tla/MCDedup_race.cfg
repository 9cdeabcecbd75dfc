\* Two sources race with signed and forged copies of two numbers, in windows of
\* two live messages; slow connections are replaced.
\* The run ends when the bounds are used up: a quiet feed is not a deadlock.
CONSTANTS
  s1 = s1
  s2 = s2
  a = a
  b = b
  NoHash = NoHash
  Source <- MCSource
  Hash <- MCHash
  SeqNum = {0, 1}
  Verifying = TRUE
  REORG_WINDOW = 1
  SLOW_WINDOW = 2
  SLOW_SHARE = 3
  MaxEntries = 3
  MaxFrame = 2
  MaxReconnects = 0
  Droppable = FALSE
SPECIFICATION Spec
SYMMETRY Symmetry
CHECK_DEADLOCK FALSE
INVARIANTS
  EveryEntryCounted
  ReplaceWithinFrame
  NoReconnectStorm
PROPERTY ImplementsDelivery
