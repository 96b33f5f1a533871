\* init, a process, and up to two that are forked.
CONSTANT MaxPid = 4
SPECIFICATION PhSpec
INVARIANT InstanceIsThisProcess
\* Everybody may end.
CHECK_DEADLOCK FALSE
