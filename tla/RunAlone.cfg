\* One reopening, one answer and one stop: no two requests of one kind.
SPECIFICATION FairSpec
CONSTANTS
  Creators = {c1}
  Answerers = {a1}
  Resumers = {}
  Reopeners = {p1}
  s1 = s1
  Sections = {s1, s2}
  Closure <- MCClosure
  NoTask = NoTask
  NoSection = NoSection
  MaxInteractions = 2
  MaxFaults = 0
  MaxCrashes = 1
INVARIANTS ReopenedIsRewritten NoOrphanRun
PROPERTIES RunSettles
\* Every request is served and nothing is left to do.
CHECK_DEADLOCK FALSE
