\* Two children, a thread of the application beside the trap, two insertions
\* per child.  The application waits for children, children leave the group,
\* slots throw; pids are not reused.
CONSTANTS
  Child = {c1, c2}
  Pid = {p1, p2}
  Trap = trap
  App = {a1}
  MaxAdds = 2
  PidReuse = FALSE
  OtherWaits = TRUE
  LeavesGroup = TRUE
  SlotsThrow = TRUE
  None = None
SPECIFICATION FairSpec
INVARIANTS
  NoFalseObituary
  OneObituaryPerInsertion
  NoLostWakeup
  NoOrphanedEntry
PROPERTIES
  ReferencedChildSurvives
  KeepsPromise
  EveryDeathReported
\* The application may stop forking and adding.
CHECK_DEADLOCK FALSE
