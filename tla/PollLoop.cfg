\* Every path of the cycle, two signals, two broken sessions.
CONSTANTS
  MaxBatteries = 2
  Level = "high"
  AutoSync = TRUE
  MaxSignals = 2
  MaxSessions = 2
SPECIFICATION FairSpec
INVARIANTS
  PublishedReadingIsCurrent
  NoEnergyAcrossFailure
  NeverOnlineWhileFailing
  NotOnlineAfterExit
PROPERTIES
  HealthyConverges
  SilenceIsSeen
  SignalEndsProcess
