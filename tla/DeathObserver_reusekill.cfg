\* One pid for two children: it is handed out again once it is free.
CONSTANTS
  Child = {c1, c2}
  Pid = {p1}
  Trap = trap
  App = {a1}
  MaxAdds = 1
  PidReuse = TRUE
  OtherWaits = TRUE
  LeavesGroup = FALSE
  SlotsThrow = FALSE
  None = None
SPECIFICATION Spec
INVARIANT DestructorKillsOwnChild
CHECK_DEADLOCK FALSE
