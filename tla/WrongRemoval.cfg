CONSTANTS
  c1 = c1
  c2 = c2
  c3 = c3
  macA = macA
  macB = macB
  NoMac = none
  NoConn = closed
  Conn = {c1, c2, c3}
  MacOf <- MCMacOf
  Asked = {macA}
SPECIFICATION Spec
SYMMETRY MCSymmetry
CHECK_DEADLOCK FALSE
INVARIANT
  AllThreadsListed
