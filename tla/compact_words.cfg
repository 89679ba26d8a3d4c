SPECIFICATION PrewarmSpec
CONSTANTS
  sub = sub
  Sides = {sub}
  MaxWords = 2
  MaxReplies = 2
  MaxPrewarms = 3
  MaxReductions = 1
  MaxChanges = 1
  AutoValues <- MCAuto
PROPERTY WordsStay
CHECK_DEADLOCK FALSE
