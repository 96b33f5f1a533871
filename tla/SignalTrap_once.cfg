\* Two threads call run().
CONSTANTS
  Runner = {r1, r2}
  Signal = {s1}
  BufSize = 1
  MaxStops = 2
  Faults = FALSE
SPECIFICATION Spec
INVARIANT RunOnlyOnce
