SPECIFICATION MCSpec
CONSTANTS
  h1 = h1
  t1 = t1
  shared = shared
  Runner <- MCRunner
  Handler = {h1}
  Token = {t1}
  RunnerLimit = 1
  NoRunner = NoRunner
  SharedRunner = shared
  JobCount = 2
  MaxInvocation = 3
  NoCapture = NoCapture
  MaxFaults = 1
INVARIANTS
  OneControl
  UpgradeSettled
  NoOrphanCandidate
CHECK_DEADLOCK FALSE
