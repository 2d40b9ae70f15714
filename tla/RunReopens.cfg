\* Two reopenings and a resume on a plan of two sections, with a fault or a stop.
SPECIFICATION Spec
CONSTANTS
  Creators = {c1}
  Answerers = {}
  Resumers = {u1}
  Reopeners = {p1, p2}
  s1 = s1
  Sections = {s1, s2}
  Closure <- MCClosure
  NoTask = NoTask
  NoSection = NoSection
  MaxInteractions = 0
  MaxFaults = 1
  MaxCrashes = 1
SYMMETRY MCSymmetry
CONSTRAINT OneMishap
INVARIANTS PassedSectionsAreSaved
\* Every request is served and nothing is left to do.
CHECK_DEADLOCK FALSE
