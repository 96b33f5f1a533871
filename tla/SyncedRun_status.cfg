\* Nothing fails or times out, but a child may exit with the status that a failing
\* exec() leaves.
CONSTANTS
  Catches = TRUE
  Faults = FALSE
  Timeouts = FALSE
  OtherStatus = {255}
  Rounds = 1
  Cap = 2
SPECIFICATION FairSpec
INVARIANT ResultIsAccurate
\* fork_and_run() is called once.
CHECK_DEADLOCK FALSE
