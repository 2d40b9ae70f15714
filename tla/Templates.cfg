\* Every graph on one section of the cdc and three of the bp, every plan.
SPECIFICATION FairSpec
CONSTANTS
  N = 4
  Cdc = 1
INVARIANTS TypeOK ClosureIsLeast NothingLeansOnTheOld
PROPERTIES ReopeningEnds
\* The plan of a profile may be empty.
CHECK_DEADLOCK FALSE
