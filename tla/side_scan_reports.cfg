\* Two events about one container whose contents change; no faults.
SPECIFICATION Spec
CONSTANTS
  pod = pod
  again = again
  function = function
  stray = stray
  w1 = w1
  w2 = w2
  Hooks = {pod, again}
  Subject <- MCSubject
  Images = {}
  Assets = {}
  Functions = {}
  Strays = {}
  Workers <- MCWorkers
  MaxFresh = 0
  MaxSeconds = 1
  MaxDepth = 2
  MaxVersion = 1
  MaxRetries = 1
  MaxFaults = 0
INVARIANT ReportIsCurrent
SYMMETRY MCSymmetry
\* The jobs run out.
CHECK_DEADLOCK FALSE
