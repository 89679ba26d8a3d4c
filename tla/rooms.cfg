SPECIFICATION FairRoomsSpec
CONSTANTS
  A = A
  B = B
  NoRoom = NoRoom
  Rooms = {A, B}
  Remotes = {"discord"}
  Bindings <- DefaultBindings
  AutoResume = {B}
  MaxJobs = 3
  MaxToggles = 1
  MaxRestarts = 1
  MaxIoErrors = 1
CHECK_DEADLOCK FALSE
INVARIANTS
  RoomsTypeOK
  RunKeepsItsRoom
  DoneIsOnDisk
  RestsAtHome
  OneConversation
  ArrivalOrder
PROPERTIES
  ImplementsPrivateRooms
  JobsAreServed
