SPECIFICATION FairSpec
CONSTANTS
  hopper = hopper
  wally = wally
  Hosts <- TwoHosts
  Ports = {22, 80, 443}
  Accepts <- PortsOpen
  Tls = {443}
  Paths = 2
  Concurrency = 2
  FdLimit = 2
  Announcements <- Repeated
  MaxFaults = 2
  None = None
CHECK_DEADLOCK FALSE
INVARIANTS TypeOK OpenPortsReported ServicesReported
PROPERTY ProbeEnds
