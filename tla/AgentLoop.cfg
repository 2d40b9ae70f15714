SPECIFICATION FairSpec
CONSTANTS
  PlanLength = 2
  Facts = {nom, montant, budget}
  nom = nom
  montant = montant
  budget = budget
  marge = marge
  Name = nom
  Deductible = {nom}
  Tables = {marge}
  Needs <- MCNeeds
  Optional <- MCOptional
  Required <- MCRequired
  Calculs <- MCCalculs
  Always = {1}
  Closure <- MCClosure
  MaxRewrites = 1
  MaxReopenings = 1
INVARIANTS TypeOK SavedAsJudged SkipIsTheUsers AskedBeforeWritten NoDemandIsLost
PROPERTIES DeductionKeepsAnswers WritingSpec ComesToRest
\* The project is finished and nobody reopens it again.
CHECK_DEADLOCK FALSE
