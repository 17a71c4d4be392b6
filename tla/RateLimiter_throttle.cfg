SPECIFICATION Spec
CONSTANTS
  Keys = {"k1"}
  PerHour = 10
  Ticks = 1
  Interval = 2
  NoBucket = NoBucket
  MaxNow = 5
INVARIANTS TypeOK IndInv Throttled
CHECK_DEADLOCK FALSE
