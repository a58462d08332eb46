SPECIFICATION ListSpec
CONSTANTS
  Entries = {45, 180, 255}
  MaxEntries = 20
INVARIANT TextFits
INVARIANT SizeProportional
CHECK_DEADLOCK FALSE
