\* Two answers to the same or to successive questions, a resume, a fault and a stop.
SPECIFICATION Spec
CONSTANTS
  Creators = {c1}
  Answerers = {a1, a2}
  Resumers = {u1}
  Reopeners = {}
  s1 = s1
  Sections = {s1}
  Closure <- MCClosure
  NoTask = NoTask
  NoSection = NoSection
  MaxInteractions = 2
  MaxFaults = 1
  MaxCrashes = 1
SYMMETRY MCSymmetry
INVARIANTS TypeOK SingleDriver StatusTellsThread AnsweredOnce
PROPERTIES WaitingIsTakenOver AnnouncedAsWritten LeaseSpec
\* Every request is served and nothing is left to do.
CHECK_DEADLOCK FALSE
