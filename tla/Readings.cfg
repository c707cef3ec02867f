\* What the parsers make of every table, over any number of polls.
CONSTANTS
  Consoles <- MCConsoles
  Slots = 2
  Cells = 2
  Blocks <- MCBlocks
  InfoKeys = {spec}
SPECIFICATION Spec
INVARIANTS TypeOK ColumnsAreOwn ReadableRowsSurvive TotalsMatchBatteries PublishedIsOfThisPoll
