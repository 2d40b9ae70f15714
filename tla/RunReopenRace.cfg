\* Two reopenings at once: the loser's sections stay reopened.
SPECIFICATION Spec
CONSTANTS
  Creators = {c1}
  Answerers = {}
  Resumers = {}
  Reopeners = {p1, p2}
  s1 = s1
  Sections = {s1, s2}
  Closure <- MCClosure
  NoTask = NoTask
  NoSection = NoSection
  MaxInteractions = 0
  MaxFaults = 0
  MaxCrashes = 0
INVARIANTS ReopenedIsRewritten
\* Every request is served and nothing is left to do.
CHECK_DEADLOCK FALSE
