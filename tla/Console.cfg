\* Every link, a console in time or as late as it likes.
CONSTANTS
  Settings <- MCSettings
  Responses <- MCResponses
  Retries = 1
  ReadTimeout = 3
  Grace = 1
  Backlog = 5
SPECIFICATION FairSpec
INVARIANTS
  TypeOK
  ResponseIsOwn
  OnlyFlaggedLeft
PROPERTIES
  TimeoutMeansSilence
  CallEnds
