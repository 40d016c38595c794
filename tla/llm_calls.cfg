SPECIFICATION FairSpec
CONSTANTS
  Workers = {w1}
  Requests = {r1, r2}
  Nowhere = Nowhere
  Limit = 1
  MaxConcurrency = 1
  Timeout = 1
  PerMinute = 2
INVARIANTS SlotsConserved NoIdleSlot BudgetKept RetryAfterReachesNewBudget
PROPERTIES Answered
