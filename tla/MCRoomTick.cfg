SPECIFICATION Spec
CONSTANTS
  u1 = u1
  u2 = u2
  Users = {u1, u2}
  MaxObjects = 3
  MaxTicks = 2
  MaxShots = 2
  Window = 0
SYMMETRY Symmetry
INVARIANTS FailureExplained SnapshotsUsable RewindExplained
PROPERTY PhysicsOrdered
CHECK_DEADLOCK FALSE
