SPECIFICATION Spec
CONSTANTS
  CodeAddrs = {"c1", "c2"}
  DataAddrs = {"d1"}
  HardwareNum = 2
  SoftwareNum = 1
  MaxAfter = 1
  Points <- MCPoints
INVARIANTS EbreakHandedBack
