\* A server that pings every 2 s, as the public feed does.
CONSTANTS
  POLL_INTERVAL = 5
  SILENCE_LIMIT = 30
  STALL_WARNING = 60
  reconnect_delay = 1
  MAX_RECONNECT_DELAY = 60
  PING = 4
  MaxHandling = 0
  MaxFailures = 1
SPECIFICATION Spec
INVARIANTS
  StallNoticed
