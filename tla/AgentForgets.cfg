SPECIFICATION Spec
CONSTANTS
  PlanLength = 2
  Facts = {nom, montant, budget}
  nom = nom
  montant = montant
  budget = budget
  marge = marge
  Name = nom
  Deductible = {nom}
  Tables = {marge}
  Needs <- MCNeeds
  Optional <- MCOptional
  Required <- MCRequired
  Calculs <- MCCalculs
  Always = {1}
  Closure <- MCClosure
  MaxRewrites = 1
  MaxReopenings = 1
INVARIANTS DemandIsInTheText
CHECK_DEADLOCK FALSE
