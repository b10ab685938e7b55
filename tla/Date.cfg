SPECIFICATION DSpec
CONSTANTS
  DaySeconds = 4
  Radix = 2
  FracDigits = 2
  MaxDays = 6
  Zones <- FixedZones
INVARIANT InverseOfToDbStringLocal
CHECK_DEADLOCK FALSE
