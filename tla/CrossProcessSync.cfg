\* Three processes have a copy of the object.
CONSTANTS
  User = {u1, u2, u3}
  Cap = 4
SPECIFICATION SyncSpec
INVARIANT WaitIsTimed
