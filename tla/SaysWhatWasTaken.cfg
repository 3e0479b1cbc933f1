SPECIFICATION BrowserSpec
CONSTANTS
  Slots = {b1}
  MaxRows = 2
  PageLimit = 1
INVARIANT SaysWhatWasTaken
CHECK_DEADLOCK FALSE
