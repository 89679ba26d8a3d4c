SPECIFICATION DirectSpec
CONSTANTS
  A = A
  B = B
  NoRoom = NoRoom
  Rooms = {A, B}
  Remotes = {"discord"}
  Bindings <- DefaultBindings
  AutoResume = {B}
  MaxJobs = 2
  MaxToggles = 1
  MaxRestarts = 1
  MaxIoErrors = 1
CHECK_DEADLOCK FALSE
INVARIANT OneRunAtATime
