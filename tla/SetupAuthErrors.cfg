\* SetupAuthErrors
SPECIFICATION LoopSpec
CONSTANTS
  InitialDelay <- FirstDelay
  MaxDelay <- LongestDelay
  Multiplier <- DelayFactor
  MaxReconnectAttempts <- AttemptLimit
  MaxCount = 25
  Allowed <- AllowedJids
  Wildcard <- AnyJid
  Strangers <- Others
  Wide <- NonAscii
  MaxAsked = 2
INVARIANTS
  AuthMeansCredentials
