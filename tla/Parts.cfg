CONSTANTS
\* One thread runs the trap again and again, and system calls may fail.
  Runner = {r1}
  Signal = {s1, s2, s3}
  BufSize = 3
  MaxStops = 2
  Faults = TRUE
\* Three threads, two traps and two signals; three threads create an observer.
  Thread = {t1, t2, t3}
  Main = t1
  Trap = {k1, k2}
  Signo = {n1, n2}
  Creator = {c1, c2, c3}
\* Two threads; the process may have inherited a key twice.
  Caller = {u1, u2}
  Key = {x1, x2}
  Value = {v1, v2}
  Absent = Absent
  MaxInherit = 2
\* Stacks of up to three frames with every form of symbol, the walk limited to
\* two; names of executables with up to two blanks; environments of two lines;
\* values at and beyond the ends of the ranges of both adjustments and some that
\* do not convert exactly.
  MaxFrames = 2
  MaxStack = 3
  Proc = {p1, p2}
  MaxBlanks = 2
  MaxLines = 2
  MaxLine = 3
  MaxArgs = 2
  Assigned <- AssignedValues
SPECIFICATION PartsSpec
\* Several of the parts really come to an end.
CHECK_DEADLOCK FALSE
INVARIANTS
  SignalsConserved
  NoOverrun
  StateIsAccurate
  NoSignalEscapes
  UniqueInstance
  FlagIsAccurate
  EmitsWithinLifetime
  NamesFrames
  StatDescribesProcess
  ArraysFilled
  EnvironmentPassedOn
  ReadsBack
  
PROPERTIES
  BlocksUntilStop
  StopEndsRun
  SignalsTakenUp
  Linearizable
  GuardReleased
