SPECIFICATION Spec
CONSTANTS
  t1 = t1
  t2 = t2
  x = x
  y = y
  z = z
  w = w
  b1 = b1
  b2 = b2
  Null = Null
  Nowhere = Nowhere
  Threads = {t1, t2}
  Handles = {x, y, z}
  WeakHandles = {w}
  Blocks = {b1, b2}
  Owner <- MCOwner
  Shapes <- MCShapes
  Broadcasts <- MCBroadcasts
  Reshapes <- MCReshapes
  MaxElements = 8
  MaxDerived = 2
SYMMETRY MCSymmetry
CHECK_DEADLOCK FALSE
INVARIANTS
  Counted
  HeldAlive
  NoLeak
  DestroyedOnce
  WalksMeant
  ReadsMeant
  RowsMeant
  SetsMeant
