\* Two threads fork at the same time, close to the limit of descriptors: seven
\* are left, two calls with one pipe each may need eight, and vfork() takes six.
CONSTANTS
  f1 = f1
  f2 = f2
  Call = {f1, f2}
  Nobody = Nobody
  Jobs <- Pairs
  MaxFd = 9
SPECIFICATION Spec
INVARIANTS
  StreamsConnected
  OthersUntouched
  NoFdLeak
  EofAfterExit
\* The parent may stop forking.
CHECK_DEADLOCK FALSE
