\* One thread and one variable are enough.
CONSTANTS
  Caller = {t1}
  Key = {k1}
  Value = {v1, v2}
  Absent = Absent
  MaxInherit = 1
SPECIFICATION EvFairSpec
CHECK_DEADLOCK FALSE
PROPERTY SetsAsDocumented
