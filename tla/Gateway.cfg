\* Two calls at once, `complete` or `stream`, real or simulated.
SPECIFICATION FairSpec
CONSTANTS
  Calls = {c1, c2}
  groq = groq
  mistral = mistral
  openrouter = openrouter
  Providers = {groq, mistral, openrouter}
  Configured = {groq, mistral}
  Models <- MCModels
  RPM <- MCRPM
  Paced = {mistral}
  Interval = 2
  Nobody = Nobody
  RouteOf <- MCRoutes
INVARIANTS TypeOK TextIsOfOneTry TriesAreCounted OverrunIsBounded
PROPERTIES PacedApart EveryCallEnds
CHECK_DEADLOCK FALSE
