\* What the comment in _on_message says, against a retained payload.
CONSTANTS
  Payloads <- MCValid
  Stale = 2
  Period = 1
  MaxInflight = 3
  MaxQueue = 3
  MaxDisconnects = 1
  MaxRefreshes = 0
  Prompt = TRUE
SPECIFICATION Spec
PROPERTY OnlyFreshDataClearsStale
