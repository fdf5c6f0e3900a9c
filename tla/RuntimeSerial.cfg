\* RuntimeSerial
SPECIFICATION Spec
CONSTANTS
  alice = alice
  mallory = mallory
  lounge = lounge
  lobby = lobby
  Main = main
  Jids = {alice, mallory, lounge, lobby}
  Rooms = {lounge, lobby}
  ConfiguredRooms = {lounge}
  AllowedJids = {alice, mallory}
  AllowedDomains = {}
  OwnDomain = "home"
  DomainOf <- Domains
  Tasks = {}
  Inputs <- SerialInputs
  Answers = {"answer"}
  IdleTimeout = 0
  MaxHistory = 2
  DiskMayFail = FALSE
  MaxMessages = 4
  MaxTime = 1
  MaxCrashes = 0
INVARIANTS
  TypeOK
  PromptEndsWithTrigger
  ResetCutsContext
  AnswersFollowQuestions
  RoomIdsMatch
