\* Every kind of payload, a lost connection, a refresh, any delay.
CONSTANTS
  Payloads <- MCPayloads
  Stale = 1
  Period = 2
  MaxInflight = 3
  MaxQueue = 2
  MaxDisconnects = 1
  MaxRefreshes = 1
  Prompt = FALSE
SPECIFICATION Spec
INVARIANTS LossIsSeen OfflineIsFinal
PROPERTY KeepsPromise
