\* A server that pings every 5 s, as a Nitro server does by default.
CONSTANTS
  POLL_INTERVAL = 5
  SILENCE_LIMIT = 30
  STALL_WARNING = 60
  reconnect_delay = 1
  MAX_RECONNECT_DELAY = 60
  PING = 10
  MaxHandling = 35
  MaxFailures = 8
SPECIFICATION Spec
INVARIANTS
  NoticedInTime
  StallNoticed
  PauseDoubles
PROPERTIES
  AliveIsKept
