\* The run fails while the screen is being read again.
SPECIFICATION FairSpec
CONSTANTS
  tab = tab
  Subscribers <- MCSubscribers
  Events <- MCEvents
  Lagged = Lagged
  QueueSize = 2
  MaxQuestions = 0
  MaxRefreshes = 1
  MaxAttempts = 1
  MaxGestures = 0
  MaxExtras = 1
PROPERTIES FailureIsSeen
CHECK_DEADLOCK FALSE
