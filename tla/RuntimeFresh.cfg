\* RuntimeFresh
SPECIFICATION FairSpec
CONSTANTS
  alice = alice
  mallory = mallory
  lounge = lounge
  lobby = lobby
  Main = main
  Jids = {alice, lounge}
  Rooms = {lounge}
  ConfiguredRooms = {lounge}
  AllowedJids = {"*"}
  AllowedDomains = {"home"}
  OwnDomain = "home"
  DomainOf <- Domains
  Tasks = {t1}
  Inputs <- FreshInputs
  Answers = {"answer"}
  IdleTimeout = 1
  MaxHistory = 20
  DiskMayFail = FALSE
  MaxMessages = 3
  MaxTime = 2
  MaxCrashes = 0
INVARIANTS
  FreshContext
PROPERTIES
  EveryTypingEnds
