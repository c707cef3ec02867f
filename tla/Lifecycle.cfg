\* Three setups, four callbacks waiting.
CONSTANTS
  MaxSetups = 3
  MaxQueue = 4
SPECIFICATION Spec
INVARIANTS NoThreadLeaks QuietOnceUnloaded
PROPERTY NoLateOffers
