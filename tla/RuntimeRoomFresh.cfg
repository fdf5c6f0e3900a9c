\* RuntimeRoomFresh
SPECIFICATION Spec
CONSTANTS
  alice = alice
  mallory = mallory
  lounge = lounge
  lobby = lobby
  Main = main
  Jids = {lounge}
  Rooms = {lounge}
  ConfiguredRooms = {lounge}
  AllowedJids = {}
  AllowedDomains = {}
  OwnDomain = "home"
  DomainOf <- Domains
  Tasks = {}
  Inputs <- RoomInputs
  Answers = {"answer"}
  IdleTimeout = 1
  MaxHistory = 20
  DiskMayFail = FALSE
  MaxMessages = 2
  MaxTime = 3
  MaxCrashes = 0
INVARIANTS
  FreshContextEverywhere
