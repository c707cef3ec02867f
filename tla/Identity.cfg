\* Two entries over three brokers, two of which share a topic.
CONSTANTS
  e1 = e1
  e2 = e2
  b1 = b1
  b2 = b2
  b3 = b3
  NoBroker = NoBroker
  Entries <- MCEntries
  Brokers <- MCBrokers
  TopicOf <- MCTopicOf
  Things = 2
  Ids = {1, 2, 3, 4}
  MaxFlows = 4
SYMMETRY Symmetries
SPECIFICATION Spec
INVARIANTS NoneLeftBehind OneEntryPerBroker
PROPERTIES MigratedIsOwn ReinstallKeepsIdentity
CHECK_DEADLOCK FALSE
