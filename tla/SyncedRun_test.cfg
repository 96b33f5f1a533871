\* The test as it stands: the service has no handler for SIGTERM, nothing fails
\* and nothing times out.
CONSTANTS
  Catches = FALSE
  Faults = FALSE
  Timeouts = FALSE
  OtherStatus = {}
  Rounds = 2
  Cap = 2
SPECIFICATION FairSpec
INVARIANT TestPasses
\* fork_and_run() is called once.
CHECK_DEADLOCK FALSE
