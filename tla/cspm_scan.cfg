\* One provider, two dispatches, two workers, one retry, one fault.
SPECIFICATION FairSpec
CONSTANTS
  t1 = t1
  t2 = t2
  p1 = p1
  w1 = w1
  w2 = w2
  Tasks <- MCTasks
  Providers <- MCProviders
  ProviderOf <- MCProviderOf
  Workers <- MCWorkers
  NoMessage = NoMessage
  LockTtl = 2
  MaxRetries = 1
  MaxFaults = 1
INVARIANTS
  TypeOK
  OneScanPerProvider
  StuckJobsAreFaults
  RetryBudget
PROPERTIES
  JobsSettleOnce
  LockComesFree
  EveryTaskAnswered
\* The bounded set of tasks runs out.
CHECK_DEADLOCK FALSE
