\* One tab, one question, one gesture of the user, and one thing that goes
\* wrong, a failure of the run only where the question is an arbitration.
SPECIFICATION FairSpec
CONSTANTS
  tab = tab
  Subscribers <- MCSubscribers
  Events <- MCEvents
  Lagged = Lagged
  QueueSize = 2
  MaxQuestions = 1
  MaxRefreshes = 2
  MaxAttempts = 2
  MaxGestures = 1
  MaxExtras = 1
CONSTRAINT ArbitrationFails
INVARIANTS TypeOK NoticeIsLast NoSilentDrop AskedOnce
PROPERTIES SettledIsSeen
\* The run has ended and the user does nothing more.
CHECK_DEADLOCK FALSE
