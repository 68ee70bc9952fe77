\* A pod, a function and a failed discovery job; two workers; one fault.
SPECIFICATION Spec
CONSTANTS
  pod = pod
  again = again
  function = function
  stray = stray
  w1 = w1
  w2 = w2
  Hooks = {pod}
  Subject <- MCSubject
  Images = {}
  Assets = {function}
  Functions = {function}
  Strays = {stray}
  Workers <- MCWorkers
  MaxFresh = 2
  MaxSeconds = 1
  MaxDepth = 2
  MaxVersion = 0
  MaxRetries = 1
  MaxFaults = 1
INVARIANTS
  TypeOK
  WebhookSentOnce
  FirstSeenOnce
  CodeLivesAsLongAsItsScan
  QueuedJobsHaveWork
SYMMETRY MCSymmetry
\* The jobs run out.
CHECK_DEADLOCK FALSE
