\* Two threads that may be late by a call, up to two transactions each time,
\* and a caller whose own work may panic.
\* A dropped pool stops: that is not a deadlock.
CONSTANTS
  Worker = {w1, w2}
  Caller = caller
  FMayPanic = TRUE
  MaxCalls = 2
  MaxTxs = 2
SPECIFICATION FairSpec
CHECK_DEADLOCK FALSE
INVARIANTS
  PoolTypeOK
  LoanEnds
  HandedOutOnce
  ReturnsRecovered
PROPERTIES
  CallsReturn
  DropEndsThreads
