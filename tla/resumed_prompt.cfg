SPECIFICATION RoomsSpec
CONSTANTS
  A = A
  B = B
  NoRoom = NoRoom
  Rooms = {A, B}
  Remotes = {"discord"}
  Bindings <- DefaultBindings
  AutoResume = {B}
  MaxJobs = 3
  MaxToggles = 1
  MaxRestarts = 1
  MaxIoErrors = 0
CHECK_DEADLOCK FALSE
INVARIANT ResumedIsContinued
