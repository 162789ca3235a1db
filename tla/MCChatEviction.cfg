SPECIFICATION Spec
CONSTANTS
  Sockets = {s1, s2}
  Claimed = {a}
  Minted = {u}
  Objects = {o1, o2, o3, o4}
  Cap = 1
  MaxMessages = 1
  MaxAdded = 2
  MaxFaults = 1
  None = None
SYMMETRY ChatSymmetry
INVARIANTS LiveIsNeverEvicted
CHECK_DEADLOCK FALSE
