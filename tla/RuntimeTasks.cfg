\* RuntimeTasks
SPECIFICATION Spec
CONSTANTS
  alice = alice
  mallory = mallory
  lounge = lounge
  lobby = lobby
  Main = main
  Jids = {alice}
  Rooms = {}
  ConfiguredRooms = {}
  AllowedJids = {alice}
  AllowedDomains = {"*"}
  OwnDomain = "home"
  DomainOf <- Domains
  Tasks = {t1, t2}
  Inputs <- TaskInputs
  Answers = {"answer", "blank"}
  IdleTimeout = 0
  MaxHistory = 5
  DiskMayFail = TRUE
  MaxMessages = 3
  MaxTime = 0
  MaxCrashes = 1
SYMMETRY TaskSymmetry
INVARIANTS
  AnswerRecordedFirst
  
  OneAnswer

  
