\* ReconnectLoop
SPECIFICATION LoopFairSpec
CONSTANTS
  InitialDelay <- FirstDelay
  MaxDelay <- LongestDelay
  Multiplier <- DelayFactor
  MaxReconnectAttempts <- AttemptLimit
  MaxCount = 25
  Allowed <- AllowedJids
  Wildcard <- AnyJid
  Strangers <- Others
  Wide <- NonAscii
  MaxAsked = 2
INVARIANTS
  NoReturn
  WaitIsDue
  GivesUpLate
  AsksOnce
  AllAsked
PROPERTIES
  
  StopsAttempting
