\* Two modules with one cell each; a spec beyond the range of the numbers.
CONSTANTS
  u1 = u1
  u2 = u2
  Missing = Missing
  NotText = NotText
  Batteries <- MCBatteries
  Cells = {1}
  Payloads <- MCPayloads
  MaxCells = 2
  MinValue = 2
  MaxValue = 5
  DEFAULT_BATTERY_CAPACITY = 3
  SpecCapacity = 6
  UserValues = {4}
  OldValues = {1}
SYMMETRY Symmetries
SPECIFICATION Spec
INVARIANTS EnergyIsCurrent UserCapacityKept PrefilledFromSpec OneEntityEach SensorsReadable
