\* ConnectionLife
SPECIFICATION FairSpec
CONSTANTS
  Keepalive = TRUE
  EventCap <- SmallEventChannel
  CmdCap <- SmallCommandChannel
  Rooms = 1
  Tasks = {t1}
  MaxConns = 2
  MaxStanzas = 1
PROPERTIES
  
  DropsOnlyAfterFailure
  DeadLinkNoticed
  LoopReturns
  TasksEnd
