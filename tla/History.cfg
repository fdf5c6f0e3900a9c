\* History
SPECIFICATION Spec
CONSTANTS
  Loop = loop
  Tasks = {t1}
  MayFail = TRUE
  MaxOps = 4
  MaxFiles = 4
  MaxSeconds = 1
  MaxCrashes = 1
INVARIANTS
  OneObjectPerLine
  WrittenOnce
PROPERTIES
  OnlyIdleArchived
  StoredIsKept
  KeepsLog
