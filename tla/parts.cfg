SPECIFICATION PartsSpec
CONSTANTS
  sub = sub
  Sides = {sub}
  MaxWords = 1
  MaxReplies = 2
  MaxPrewarms = 3
  MaxReductions = 1
  MaxChanges = 1
  AutoValues <- MCAuto
  TurnCap = 3
  MailCap = 2
  CutCap = 2
  MaxCalls = 2
  MaxMails = 3
  a1 = a1
  TreeAgents = {a1}
  MaxHeads = 2
  MaxBatch = 3
  Limit = 2
  Sizes = {1, 7}
  Frame = 1
  FullNote = 3
  BriefNote = 2
  ShortNote = 1
  MinBody = 2
  PerResult = 4
  Total = 9
  f1 = f1
  f2 = f2
  Files = {f1, f2}
  MaxWrites = 2
  MaxLog = 3
  MaxJobs = 2
  c1 = c1
  s1 = s1
  s2 = s2
  Clients = {c1}
  Sockets = {s1, s2}
  MaxTimers = 1
  l1 = l1
  l2 = l2
  Ids = {l1, l2}
  MaxActive = 2
  Pages = 2
  MaxVersions = 3
  word = word
  slash = slash
  Texts = {word}
  Slashes = {slash}
  MaxTurns = 2
  MaxEvents = 3
  Mains = {main}
  Helpers = {helper}
  CallKinds <- MCKinds
  Modes <- MCModes
  Patterns <- MCPatterns
  MaxGrants = 2
INVARIANTS
  PartsTypeOK
  SlotReadsWhatIsUsed
  ResultTellsStatus
  WorkIsKept
  TotalIsKept
  NeverDeaf
  ToolsBecomeFresh
  KeysAreHeard
  EnteredIsKept
PROPERTIES
  OnlyReplacementsAreOvertaken
  EveryWaitEnds
  
  EveryBatchEnds
  StoppedBatchRests
  RestoreIsExactAndUndoable
  SchedulesKeepTheirWord
  OutputIsKept
  RunsByWord
  QuestionsAreSettled
CHECK_DEADLOCK FALSE
