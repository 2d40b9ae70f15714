\* Two readings of the state cross while an answer is taken.
SPECIFICATION Spec
CONSTANTS
  tab = tab
  Subscribers <- MCSubscribers
  Events <- MCEvents
  Lagged = Lagged
  QueueSize = 2
  MaxQuestions = 1
  MaxRefreshes = 2
  MaxAttempts = 1
  MaxGestures = 1
  MaxExtras = 0
INVARIANTS AnsweredIsNotAsked
CHECK_DEADLOCK FALSE
