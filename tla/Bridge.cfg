\* A sidecar with its session, crashes and wills, at the margin; threads that are fair.
CONSTANTS
  Payloads <- MCValid
  Stale = 2
  Period = 1
  MaxInflight = 2
  MaxQueue = 2
  MaxDisconnects = 1
  MaxRefreshes = 1
  Prompt = TRUE
  Interval = 1
  MaxCycle = 1
  Reconnect = 1
  Misses = 0
  MaxSessions = 1
SPECIFICATION FairBridge
PROPERTIES NoFalseAlarm Converges SilenceIsShown
