\* vfork() with redirected streams.
CONSTANTS
  f1 = f1
  f2 = f2
  Call = {f1}
  Nobody = Nobody
  Jobs <- Vfork
  MaxFd = 16
SPECIFICATION Spec
INVARIANT VforkStreamsConnected
\* The parent may stop forking.
CHECK_DEADLOCK FALSE
