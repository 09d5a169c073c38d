SPECIFICATION PolicySpec
CONSTANTS
  t1 = t1
  t2 = t2
  Types <- TwoTypes
  MaxRules = 3
  RuleTimeout = 2
  Deadline = 3
  MaxTime = 4
  NONE = NONE
  ABSENT = ABSENT
  Plain <- MCPlain
  Odd <- MCOdd
  Numerals <- MCNumerals
  Deployments <- MCDeployments
  Requests <- MCRequests
INVARIANTS
  DecisionMeansAndOfOrs
  BudgetsTripWhenSpent
  ThrowsBlameTheRuleAsked
  PassesAreProven
  CallerCannotVouch
  DelegationNarrows
  RulesStayApart
PROPERTIES
  PhaseEnds
CHECK_DEADLOCK FALSE
