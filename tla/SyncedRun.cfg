\* The service survives SIGTERM; the pipe is smaller than the number of rounds;
\* children time out, crash, stop and exit with the status of a failing exec().
CONSTANTS
  Catches = TRUE
  Faults = TRUE
  Timeouts = TRUE
  OtherStatus = {255}
  Rounds = 3
  Cap = 2
SPECIFICATION FairSpec
INVARIANTS
  SignalsCollected
  EndsReported
  NoSurvivor
PROPERTIES
  Returns
\* fork_and_run() is called once.
CHECK_DEADLOCK FALSE
