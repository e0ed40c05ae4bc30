SPECIFICATION Spec
CONSTANTS
  Shells = {one, two}
  Macs = {m1, m2, m3}
  Keys = 2
  MaxRuns = 4
  MaxFaults = 2
  NoFile = NoFile
  Empty = Empty
  None = None
CHECK_DEADLOCK FALSE
INVARIANTS TypeOK OneController
PROPERTY MacSettled
