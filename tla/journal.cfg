SPECIFICATION Spec
CONSTANTS
  loss = loss
  stop = stop
  Histories <- MCHistories
  Files <- AllFiles
  Rules = {loss, stop}
  RuleKind <- MCRuleKind
  Threshold <- MCThreshold
  Plans <- MCPlans
  MaxListed = 2
  MaxJobs = 3
  MaxTroubles = 2
INVARIANTS DayVerdictsAgree VerdictsCurrent NoDoubleCount SplitImportsAgree
CHECK_DEADLOCK FALSE
