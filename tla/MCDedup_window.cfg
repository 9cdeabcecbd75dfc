\* One source and a window of one: rewinds, replacements, forgetting, reconnects, dropping.
\* The run ends when the bounds are used up: a quiet feed is not a deadlock.
CONSTANTS
  s1 = s1
  s2 = s2
  a = a
  b = b
  NoHash = NoHash
  Source = {s1}
  Hash <- MCHash
  SeqNum = {0, 1, 2, 3}
  Verifying = TRUE
  REORG_WINDOW = 1
  SLOW_WINDOW = 2
  SLOW_SHARE = 3
  MaxEntries = 5
  MaxFrame = 1
  MaxReconnects = 1
  Droppable = TRUE
SPECIFICATION Spec
SYMMETRY Symmetry
CHECK_DEADLOCK FALSE
INVARIANTS
  TypeOK
  WatermarkRemembered
  ForgottenIsBehind
  WindowBounded
  AskedWasDelivered
PROPERTIES
  ImplementsDelivery
