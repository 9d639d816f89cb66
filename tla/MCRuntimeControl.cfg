\* Evaluations, commands and a shutdown around one request.  The process ends.
SPECIFICATION RuntimeFairSpec
CONSTANTS
  r1 = r1  e1 = e1
  None = None
  Request = {r1}
  Background = {}
  MaxRevision = 2
  Checker = {e1}
  MaxEvaluations = 2
  MaxGeneration = 1
INVARIANTS DrainedStaysEmpty ExitCutsNothing
PROPERTIES OpensOnlyReady ImplementsLifecycle ShutdownEnds
CHECK_DEADLOCK FALSE
