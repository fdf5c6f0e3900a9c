\* FileMessages
SPECIFICATION FairSpec
CONSTANTS
  Tasks = {t1, t2}
  MaxConcurrent = 1
  MaxFileSize = 2
  MaxFiles = 2
  MaxFaults = 1
  MaxForgets = 1
  MaxEdits = 1
INVARIANTS
  BlocksMatch
  EraseIsFinal
  LegacyStaysHidden
PROPERTIES
  TasksEnd
